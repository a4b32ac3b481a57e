----------------------------- MODULE ClientClasses -----------------------------
(***************************************************************************)
(* How offsets/clientclasses.cpp flattens the tables of properties that    *)
(* the game gives for its classes.  A property is a value or a table, and  *)
(* parse_tbl is a coroutine that runs another one for each table in its    *)
(* own, so that a value comes up through one coroutine for each table.     *)
(*                                                                         *)
(* A name such as "DT_A::DT_B::m_x" is the sequence of its parts.  An      *)
(* offset is a number; the types of values are left out.                   *)
(***************************************************************************)
EXTENDS Integers, Sequences

CONSTANTS
  Table,
  Name,
  TableName,   \* GetName() of a table
  NoTable,
  ClassList,   \* GetAllClasses(): names and tables, as they are linked
  Layouts      \* what the tables may hold

\* sub is NoTable for a value.
Prop == [name : Name, offset : Int, sub : Table \cup {NoTable}]

ASSUME ClassAssumption ==
  /\ NoTable \notin Table
  /\ TableName \in [Table -> Name]
  /\ ClassList \in Seq([name : Name, table : Table])
  /\ \A l \in Layouts : l \in [Table -> Seq(Prop)]

VARIABLES
  props,           \* what the tables hold
  class,           \* the class that is next in the list, or in progress
  frames,          \* the coroutines, each inside the one before it
  control,         \* which of them runs; 0 is the constructor
  clientclasses    \* offset by class and name

tableVars == <<props, class>>
classVars == <<tableVars, frames, control, clientclasses>>

\* A coroutine in parse_tbl(table), at property idx, and the pair in its
\* promise.
Frame == [table : Table, idx : Nat, path : Seq(Name), offset : Int]

TypeOK ==
  /\ props \in [Table -> Seq(Prop)]
  /\ class \in 1..(Len(ClassList) + 1)
  /\ frames \in Seq(Frame)
  /\ \A d \in 1..Len(frames) : frames[d].idx > 0
  /\ control \in 0..Len(frames)
  /\ DOMAIN clientclasses \subseteq Name \X Seq(Name)
  /\ \A k \in DOMAIN clientclasses : clientclasses[k] \in Int

ClassInit ==
  /\ props \in Layouts
  /\ class = 1
  /\ frames = <<>>
  /\ control = 0
  /\ clientclasses = [k \in {} |-> 0]

-----------------------------------------------------------------------------
(* parse_tbl.                                                              *)

Started(table) == [table |-> table, idx |-> 1, path |-> <<>>, offset |-> 0]

PropsOf(f) == props[f.table]
PropOf(f) == PropsOf(f)[f.idx]

\* The coroutine that runs has a property left to look at, and none inside it.
AtProp ==
  /\ control > 0 /\ control = Len(frames)
  /\ frames[control].idx <= Len(PropsOf(frames[control]))

\* The coroutine that runs yields, to the loop in the one around it.
Yields(path, offset) ==
  /\ frames' = [frames EXCEPT ![control].path = path, ![control].offset = offset]
  /\ control' = control - 1
  /\ UNCHANGED <<tableVars, clientclasses>>

\* A table: its coroutine is made and resumed for its first value.
OpenTable ==
  /\ AtProp
  /\ LET prop == PropOf(frames[control]) IN
       /\ prop.sub # NoTable
       /\ frames' = Append(frames, Started(prop.sub))
  /\ control' = control + 1
  /\ UNCHANGED <<tableVars, clientclasses>>

\* A value is yielded with its own name and offset.
YieldProp ==
  /\ AtProp
  /\ LET prop == PropOf(frames[control]) IN
       prop.sub = NoTable /\ Yields(<<prop.name>>, prop.offset)

\* Mutant of SumOffset: the offset of the table is forgotten.
SumOffsetInner(f, inner) == inner.offset

SumOffset(f, inner) == PropOf(f).offset + inner.offset

\* A value of the table inside is yielded again, with the name of that table
\* before its own.
PassOn ==
  /\ control > 0 /\ control < Len(frames)
  /\ LET inner == frames[control + 1] IN
       Yields(<<TableName[inner.table]>> \o inner.path, SumOffset(frames[control], inner))

\* The frame d goes on behind its property.
Advanced(fs, d) == [fs EXCEPT ![d].idx = fs[d].idx + 1]

\* The loop over a table inside is over: the property is done with.
Closed(fs) == IF fs = <<>> THEN fs ELSE Advanced(fs, Len(fs))

\* After the class's own table, the next one in the list.
NextClass == IF control = 1 THEN class + 1 ELSE class

\* The coroutine that runs is at the end of its table. The loop around it
\* ends, and destroys it; the constructor goes on to the next class.
EndTable ==
  /\ control > 0 /\ control = Len(frames)
  /\ frames[control].idx > Len(PropsOf(frames[control]))
  /\ frames' = Closed(SubSeq(frames, 1, control - 1))
  /\ control' = control - 1
  /\ class' = NextClass
  /\ UNCHANGED <<props, clientclasses>>

-----------------------------------------------------------------------------
(* The constructor of ClientClassManager.                                  *)

BeginClass ==
  /\ control = 0 /\ frames = <<>> /\ class <= Len(ClassList)
  /\ frames' = <<Started(ClassList[class].table)>>
  /\ control' = 1
  /\ UNCHANGED <<tableVars, clientclasses>>

\* Mutant of Stored: the first value of a name stays.
StoredOnce(key, offset) ==
  [k \in DOMAIN clientclasses \cup {key} |->
     IF k \in DOMAIN clientclasses THEN clientclasses[k] ELSE offset]

\* The last value of a name stays.
Stored(key, offset) ==
  [k \in DOMAIN clientclasses \cup {key} |-> IF k = key THEN offset ELSE clientclasses[k]]

\* A value has come up: it takes the place of an earlier one with its name.
\* Every coroutine hands the call for the next value on to the one inside it;
\* the innermost goes on behind its property.
Insert ==
  /\ control = 0 /\ frames # <<>>
  /\ clientclasses' = Stored(<<ClassList[class].name, frames[1].path>>, frames[1].offset)
  /\ frames' = Advanced(frames, Len(frames))
  /\ control' = Len(frames)
  /\ UNCHANGED tableVars

ClassStep == BeginClass \/ OpenTable \/ YieldProp \/ PassOn \/ EndTable \/ Insert

ClassSpec == ClassInit /\ [][ClassStep]_classVars

-----------------------------------------------------------------------------
(* Properties.                                                             *)

AddsUp(d) ==
  LET prop == PropOf(frames[d]) IN
  /\ frames[d].idx <= Len(PropsOf(frames[d]))
  /\ d = Len(frames) =>
       /\ prop.sub = NoTable
       /\ frames[d].path = <<prop.name>> /\ frames[d].offset = prop.offset
  /\ d # Len(frames) =>
       LET inner == frames[d + 1] IN
       /\ prop.sub = inner.table
       /\ frames[d].path = <<TableName[inner.table]>> \o inner.path
       /\ frames[d].offset = prop.offset + inner.offset

\* What a coroutine has yielded is what its property says and what the
\* coroutine inside it has yielded, added up: no promise holds a value of an
\* earlier property while a later one passes through it.
ResultsAddUp == \A d \in (control + 1)..Len(frames) : AddsUp(d)
=============================================================================
