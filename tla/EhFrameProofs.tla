----------------------------- MODULE EhFrameProofs -----------------------------
(***************************************************************************)
(* Proofs about EhFrame, for sections of any length and contents.          *)
(***************************************************************************)
EXTENDS EhFrame, SequenceTheorems, TLAPS

InSection(i) == \A j \in 1..i : Rec(j).kind # "end"

\* The consumer has all ranges of records before i, and no other.
UpTo(i) ==
  /\ \A j \in Index : j < i /\ Rec(j).kind = "fde" => Taken(j)
  /\ \A k \in 1..Len(got) : got[k] < i

\* The range of FDE i is on its way.
Yields(i) ==
  /\ i \in Index /\ Rec(i).kind = "fde" /\ Readable(Rec(i)) /\ Reached(i)
  /\ data_ptr = Rec(i).at + 4 + FdeBytes(Rec(i)) /\ next_record_address = NextRecord(Rec(i))

\* Record i has been read.
HasRead(i) ==
  /\ i \in Index /\ Reached(i)
  /\ \/ Rec(i).kind = "cie" /\ data_ptr = Rec(i).at + 8
     \/ Rec(i).kind = "fde" /\ Readable(Rec(i)) /\ data_ptr = Rec(i).at + 4 + FdeBytes(Rec(i))
  /\ next_record_address = NextRecord(Rec(i))

\* The section was read to its end, or to a faulty record.
AllOut == \A i \in Index : InSection(i) => Sound(Rec(i)) /\ (Rec(i).kind = "fde" => Taken(i))

Broken ==
  \E i \in Index :
    /\ InSection(i) /\ Reached(i) /\ ~Sound(Rec(i))
    /\ \A j \in 1..i : Rec(j).kind = "fde" /\ Readable(Rec(j)) => Taken(j)

ResultTells(result) ==
  \/ result = Empty /\ AllOut
  \/ result = Exception /\ Broken

(* The stages the three coroutines go through.                             *)

Unstarted == at = "consumer" /\ consumer = "start" /\ inner = "none" /\ got = <<>>

Opening ==
  /\ at = "outer" /\ consumer = "looping" /\ outer = "running" /\ inner = "none"
  /\ got = <<>>

Reading ==
  /\ at = "inner" /\ consumer = "looping" /\ outer = "running" /\ inner = "running"
  /\ \/ \E i \in Index : data_ptr = Rec(i).at /\ Reached(i) /\ UpTo(i)
     \/ /\ data_ptr + 4 >= section.size /\ \A i \in Index : Sound(Rec(i))
        /\ UpTo(Len(section.records) + 1)

Checking ==
  /\ at = "inner" /\ consumer = "looping" /\ outer = "running" /\ inner = "checking"
  /\ \E i \in Index : HasRead(i) /\ UpTo(i + 1)

Yielded ==
  /\ at = "outer" /\ consumer = "looping" /\ outer = "running" /\ inner = "yielded"
  /\ Yields(innerResult) /\ UpTo(innerResult)

Forwarding ==
  /\ at = "consumer" /\ consumer = "looping" /\ outer = "yielded" /\ inner = "yielded"
  /\ outerResult = innerResult
  /\ Yields(innerResult) /\ UpTo(innerResult)

Holding ==
  /\ at = "consumer" /\ consumer = "holding" /\ outer = "yielded" /\ inner = "yielded"
  /\ Yields(innerResult) /\ UpTo(innerResult + 1)

Resuming ==
  /\ at = "outer" /\ consumer = "looping" /\ outer = "resumed" /\ inner = "yielded"
  /\ Yields(innerResult) /\ UpTo(innerResult + 1)

InnerOver ==
  /\ at = "outer" /\ consumer = "looping" /\ outer = "running" /\ inner = "done"
  /\ ResultTells(innerResult)

OuterOver ==
  /\ at = "consumer" /\ consumer = "looping" /\ outer = "done" /\ inner = "destroyed"
  /\ ResultTells(outerResult)

Over ==
  /\ at = "consumer" /\ consumer \in {"ended", "failed", "abandoned"}
  /\ outer = "destroyed" /\ inner = "destroyed"
  /\ consumer = "ended" => AllOut
  /\ consumer = "failed" => Broken

Stage ==
  \/ Unstarted \/ Opening \/ Reading \/ Checking \/ Yielded \/ Forwarding
  \/ Holding \/ Resuming \/ InnerOver \/ OuterOver \/ Over

IInv == TypeOK /\ section \in Sections /\ RangesInOrder /\ Stage

-----------------------------------------------------------------------------
(* Records and addresses.                                                  *)

LEMMA AlignedType ==
  ASSUME NEW a \in Nat
  PROVE  Aligned(a) \in Nat
BY DEF Aligned

\* What the layout says of a record.
LEMMA Layout ==
  ASSUME section \in Sections, section.records \in Seq(Record), NEW i \in Index
  PROVE  /\ Rec(i).at \in Nat /\ Rec(i).length \in Nat /\ Rec(i).length < Space
         /\ RecordEnd(Rec(i)) \in Nat /\ NextRecord(Rec(i)) \in Int
         /\ Rec(i).kind \in {"cie", "fde", "end", "extended"}
         /\ i = 1 => Rec(i).at = 0
         /\ i < Len(section.records) => Rec(i + 1).at = Aligned(RecordEnd(Rec(i)))
         /\ i = Len(section.records) => section.size <= Aligned(RecordEnd(Rec(i))) + 4
         /\ Rec(i).at + 4 < section.size
         /\ \A j \in Index : j < i => RecordEnd(Rec(j)) <= Rec(i).at
         /\ FdeBytes(Rec(i)) \in Nat
<1> DEFINE n == Len(section.records)
<1>1. n \in Nat /\ i \in 1..n /\ Space \in Nat /\ Top \in Nat
  BY SectionAssumption DEF Index
<1>2. \A j \in Index : Rec(j).at \in Nat /\ Rec(j).length \in 0..(Space - 1) /\
                       Rec(j).kind \in {"cie", "fde", "end", "extended"}
  <2> SUFFICES ASSUME NEW j \in Index
               PROVE  Rec(j).at \in Nat /\ Rec(j).length \in 0..(Space - 1) /\
                      Rec(j).kind \in {"cie", "fde", "end", "extended"}
    OBVIOUS
  <2>1. section.records[j] \in Record
    BY ElementOfSeq DEF Index
  <2> QED  BY <2>1 DEF Record, Rec
<1>3. RecordEnd(Rec(i)) \in Nat /\ NextRecord(Rec(i)) \in Int
  <2>1. Rec(i).at \in Nat /\ Rec(i).length \in Nat
    BY <1>1, <1>2 DEF Index
  <2> QED  BY <1>1, <2>1 DEF RecordEnd, NextRecord
<1>4. \A j \in 1..n :
        /\ j = 1 => Rec(j).at = 0
        /\ j < n => Rec(j + 1).at = Aligned(RecordEnd(Rec(j)))
        /\ j = n => section.size <= Aligned(RecordEnd(Rec(j))) + 4
        /\ Rec(j).at + 4 < section.size
        /\ \A k \in 1..(j - 1) : RecordEnd(Rec(k)) <= Rec(j).at
  BY SectionAssumption DEF Rec
<1>5. \A j \in Index : j < i => RecordEnd(Rec(j)) <= Rec(i).at
  BY <1>1, <1>4 DEF Index
<1>6. FdeBytes(Rec(i)) \in Nat
  <2>1. section.records[i] \in Record
    BY <1>1, ElementOfSeq
  <2>2. Rec(i).leb \in Nat
    BY <2>1 DEF Record, Rec
  <2> QED  BY <2>2 DEF FdeBytes, PointerSize
<1> QED  BY <1>1, <1>2, <1>3, <1>4, <1>5, <1>6

\* Where the next record lies if that address has not wrapped, and if it has:
\* before the one that was read.
LEMMA NextAddress ==
  ASSUME section \in Sections, section.records \in Seq(Record), NEW i \in Index
  PROVE  \/ RecordEnd(Rec(i)) < Top /\ NextRecord(Rec(i)) = Rec(i).at + 4 + Rec(i).length
         \/ ~(RecordEnd(Rec(i)) < Top) /\ NextRecord(Rec(i)) < Rec(i).at + 4
<1>1. Space \in Nat /\ Top \in Nat
  BY SectionAssumption
<1>2. Rec(i).at \in Nat /\ Rec(i).length \in Nat /\ Rec(i).length < Space
  BY Layout
<1> QED  BY <1>1, <1>2 DEF NextRecord, RecordEnd

\* A sound record is not the end.
LEMMA SoundGoesOn ==
  ASSUME NEW i \in Index, Reached(i), Rec(i).kind # "end"
  PROVE  InSection(i)
BY DEF Reached, Sound, InSection, Index

-----------------------------------------------------------------------------
(* While the consumer takes nothing, what is said of its ranges stays.     *)

LEMMA SameSection ==
  ASSUME UNCHANGED section
  PROVE  /\ Index' = Index
         /\ \A i : /\ Rec(i)' = Rec(i)
                   /\ Readable(Rec(i))' <=> Readable(Rec(i))
                   /\ FdeBytes(Rec(i))' = FdeBytes(Rec(i))
                   /\ NextRecord(Rec(i))' = NextRecord(Rec(i))
                   /\ Sound(Rec(i))' <=> Sound(Rec(i))
                   /\ Reached(i)' <=> Reached(i)
<1>1. Index' = Index /\ \A i : Rec(i)' = Rec(i)
  BY DEF Index, Rec
<1>2. \A i : RecordEnd(Rec(i))' = RecordEnd(Rec(i)) /\ NextRecord(Rec(i))' = NextRecord(Rec(i))
  BY <1>1 DEF NextRecord, RecordEnd, Top
<1>3. \A i : /\ Readable(Rec(i))' <=> Readable(Rec(i))
            /\ FdeBytes(Rec(i))' = FdeBytes(Rec(i))
  BY <1>1 DEF Readable, FdeBytes
<1>4. \A i : Sound(Rec(i))' <=> Sound(Rec(i))
  BY <1>1, <1>2, <1>3 DEF Sound, Top
<1>5. \A i : Reached(i)' <=> Reached(i)
  BY <1>4 DEF Reached
<1> QED  BY <1>1, <1>2, <1>3, <1>4, <1>5

LEMMA SameRanges ==
  ASSUME UNCHANGED <<section, got>>
  PROVE  /\ RangesInOrder' <=> RangesInOrder
         /\ Index' = Index
         /\ \A i : /\ Rec(i)' = Rec(i) /\ (Reached(i)' <=> Reached(i))
                   /\ UpTo(i)' <=> UpTo(i)
                   /\ Sound(Rec(i))' <=> Sound(Rec(i))
                   /\ Readable(Rec(i))' <=> Readable(Rec(i))
                   /\ FdeBytes(Rec(i))' = FdeBytes(Rec(i))
                   /\ NextRecord(Rec(i))' = NextRecord(Rec(i))
         /\ AllOut' <=> AllOut
         /\ Broken' <=> Broken
<1>1. \A i : Taken(i)' <=> Taken(i)
  BY DEF Taken
<1>2. \A i : (UpTo(i)' <=> UpTo(i)) /\ (InSection(i)' <=> InSection(i))
  BY <1>1, SameSection DEF UpTo, InSection
<1>3. RangesInOrder' <=> RangesInOrder
  BY <1>1, SameSection DEF RangesInOrder
<1>4. (AllOut' <=> AllOut) /\ (Broken' <=> Broken)
  BY <1>1, <1>2, SameSection DEF AllOut, Broken
<1> QED  BY <1>2, <1>3, <1>4, SameSection

LEMMA InitIInv == Init => IInv
<1> SUFFICES ASSUME Init  PROVE IInv
  OBVIOUS
<1>1. section.records \in Seq(Record) /\ section.size \in Nat
  BY SectionAssumption DEF Init
<1>2. TypeOK
  BY <1>1 DEF Init, TypeOK, Frame, Result
<1>3. RangesInOrder
  BY DEF Init, RangesInOrder
<1> QED  BY <1>2, <1>3 DEF Init, IInv, Stage, Unstarted

-----------------------------------------------------------------------------
(* handle_eh_frame. Each step starts at a known record.                    *)

LEMMA StageOf ==
  ASSUME IInv
  PROVE  /\ at = "inner" /\ inner = "running" => Reading
         /\ at = "inner" /\ inner = "checking" => Checking
         /\ at = "outer" /\ inner = "none" => Opening
         /\ at = "outer" /\ inner = "yielded" /\ outer = "running" => Yielded
         /\ at = "outer" /\ inner = "yielded" /\ outer = "resumed" => Resuming
         /\ at = "outer" /\ inner = "done" => InnerOver
         /\ at = "consumer" /\ consumer = "start" => Unstarted
         /\ at = "consumer" /\ consumer = "looping" /\ outer = "yielded" => Forwarding
         /\ at = "consumer" /\ consumer = "looping" /\ outer = "done" => OuterOver
         /\ at = "consumer" /\ consumer = "holding" => Holding
BY DEF IInv, Stage, Unstarted, Opening, Reading, Checking, Yielded, Forwarding, Holding,
       Resuming, InnerOver, OuterOver, Over

\* A record at the cursor is the one that the reader has come to.
LEMMA AtCursor ==
  ASSUME IInv, Reading, NEW i \in Index, Rec(i).at = data_ptr
  PROVE  Reached(i) /\ UpTo(i)
<1>1. section \in Sections /\ section.records \in Seq(Record) /\ section.size \in Nat
  BY DEF IInv, TypeOK
<1>2. \A j \in Index : /\ Rec(j).at \in Nat /\ RecordEnd(Rec(j)) = Rec(j).at + 4 + Rec(j).length
                       /\ Rec(j).length \in Nat /\ Rec(j).at + 4 < section.size
                       /\ \A k \in Index : k < j => RecordEnd(Rec(k)) <= Rec(j).at
  BY <1>1, Layout DEF RecordEnd
<1>3. ~(data_ptr + 4 >= section.size)
  BY <1>1, <1>2
<1>4. PICK j \in Index : data_ptr = Rec(j).at /\ Reached(j) /\ UpTo(j)
  BY <1>1, <1>3 DEF Reading, IInv, TypeOK
<1>5. j = i
  <2>1. ~(j < i) /\ ~(i < j)
    BY <1>2, <1>4
  <2> QED  BY <2>1 DEF Index
<1> QED  BY <1>4, <1>5

LEMMA ReadEndPreserves ==
  ASSUME IInv, ReadEnd
  PROVE  IInv'
<1> USE DEF readVars, outerVars, ReadEnd, InnerEnds
<1>1. Reading
  BY StageOf
<1>2. section \in Sections /\ section.records \in Seq(Record) /\ section.size \in Nat
  BY DEF IInv, TypeOK
<1>3. AllOut
  <2>1. ASSUME NEW i \in Index, Rec(i).kind = "end", Reached(i), UpTo(i)
        PROVE  AllOut
    <3> SUFFICES ASSUME NEW j \in Index, InSection(j)
                 PROVE  Sound(Rec(j)) /\ (Rec(j).kind = "fde" => Taken(j))
      BY DEF AllOut
    <3>1. j < i
      BY <2>1 DEF InSection, Index
    <3> QED  BY <2>1, <3>1 DEF Reached, UpTo, Index
  <2>2. CASE \E i \in Index : Rec(i).at = data_ptr /\ Rec(i).kind = "end"
    BY <1>1, <2>1, <2>2, AtCursor
  <2>3. CASE data_ptr + 4 >= section.size
    <3>1. ~\E i \in Index : data_ptr = Rec(i).at
      BY <1>2, <2>3, Layout
    <3>2. CASE (\A i \in Index : Sound(Rec(i))) /\ UpTo(Len(section.records) + 1)
      BY <3>2, <1>2 DEF AllOut, UpTo, Index
    <3> QED  BY <1>1, <3>1, <3>2 DEF Reading
  <2> QED  BY <2>2, <2>3
<1>4. AllOut' /\ RangesInOrder'
  BY <1>3, SameRanges DEF IInv
<1>5. InnerOver'
  BY <1>1, <1>4 DEF Reading, InnerOver, ResultTells
<1>6. TypeOK'
  BY DEF IInv, TypeOK, Frame, Result, Index
<1> QED  BY <1>4, <1>5, <1>6 DEF IInv, Stage

LEMMA ReadCiePreserves ==
  ASSUME IInv, NEW i \in Index, ReadCie(Rec(i))
  PROVE  IInv'
<1> USE DEF outerVars, ReadCie, AtRecord
<1>1. Reading /\ Reached(i) /\ UpTo(i)
  BY StageOf, AtCursor
<1>2. section \in Sections /\ section.records \in Seq(Record)
  BY DEF IInv, TypeOK
<1>3. HasRead(i)' /\ UpTo(i + 1)'
  <2>1. UpTo(i + 1)
    BY SMTT(30), <1>1 DEF UpTo, Index, IInv, TypeOK
  <2>2. HasRead(i)'
    BY <1>1, SameRanges DEF HasRead
  <2> QED  BY <2>1, <2>2, SameRanges
<1>4. Checking'
  BY <1>1, <1>3, SameRanges DEF Checking, Reading
<1>5. TypeOK'
  BY <1>2, Layout DEF IInv, TypeOK, Frame, Result, Index
<1> QED  BY <1>4, <1>5, SameRanges DEF IInv, Stage

LEMMA ReadFdePreserves ==
  ASSUME IInv, NEW i \in Index, ReadFde(i)
  PROVE  IInv'
<1> USE DEF outerVars, ReadFde, AtRecord
<1>1. Reading /\ Reached(i) /\ UpTo(i)
  BY StageOf, AtCursor
<1>2. section \in Sections /\ section.records \in Seq(Record)
  BY DEF IInv, TypeOK
<1>3. Yields(i)'
  BY <1>1, SameRanges DEF Yields
<1>4. Yielded'
  BY <1>1, <1>3, SameRanges DEF Yielded, Reading
<1>5. TypeOK'
  <2>1. data_ptr' \in Nat /\ next_record_address' \in Int
    <3>1. Rec(i).at \in Nat /\ FdeBytes(Rec(i)) \in Nat /\ NextRecord(Rec(i)) \in Int
      BY <1>2, Layout
    <3> QED  BY <3>1
  <2> QED  BY <2>1 DEF IInv, TypeOK, Frame, Result, Index
<1> QED  BY <1>4, <1>5, SameRanges DEF IInv, Stage

LEMMA ReadThrowsPreserves ==
  ASSUME IInv, NEW i \in Index, ReadThrows(Rec(i))
  PROVE  IInv'
<1> USE DEF readVars, outerVars, ReadThrows, AtRecord, InnerEnds
<1>1. Reading /\ Reached(i) /\ UpTo(i)
  BY StageOf, AtCursor
<1>2. Broken
  <2>1. ~Sound(Rec(i)) /\ InSection(i)
    BY <1>1, SoundGoesOn DEF Sound
  <2>2. \A j \in 1..i : Rec(j).kind = "fde" /\ Readable(Rec(j)) => Taken(j)
    BY <1>1 DEF UpTo, Index
  <2> QED  BY <1>1, <2>1, <2>2 DEF Broken
<1>3. InnerOver'
  BY <1>1, <1>2, SameRanges DEF InnerOver, Reading, ResultTells
<1>4. TypeOK'
  BY DEF IInv, TypeOK, Frame, Result, Index
<1> QED  BY <1>3, <1>4, SameRanges DEF IInv, Stage

\* After a sound record comes the next one, or the end.
LEMMA CheckPreserves ==
  ASSUME IInv, CheckRecord
  PROVE  IInv'
<1> USE DEF outerVars, CheckRecord, Overflowed
<1>1. Checking
  BY StageOf
<1>2. section \in Sections /\ section.records \in Seq(Record) /\ section.size \in Nat
  BY DEF IInv, TypeOK
<1>3. PICK i \in Index : HasRead(i) /\ UpTo(i + 1)
  BY <1>1 DEF Checking
<1>4. /\ Rec(i).at \in Nat /\ Rec(i).length \in Nat /\ FdeBytes(Rec(i)) \in Nat
      /\ \/ RecordEnd(Rec(i)) < Top /\ next_record_address = Rec(i).at + 4 + Rec(i).length
         \/ ~(RecordEnd(Rec(i)) < Top) /\ next_record_address < Rec(i).at + 4
      /\ data_ptr \in Nat /\ data_ptr >= Rec(i).at + 4 /\ next_record_address \in Int
  BY <1>2, <1>3, Layout, NextAddress DEF HasRead, IInv, TypeOK
<1>5. CASE data_ptr >= next_record_address
  <2>1. ~Sound(Rec(i)) /\ InSection(i)
    BY <1>3, <1>4, <1>5, SoundGoesOn DEF HasRead, Sound
  <2>2. \A j \in 1..i : Rec(j).kind = "fde" /\ Readable(Rec(j)) => Taken(j)
    BY <1>3 DEF UpTo, Index
  <2>3. Broken
    BY <1>3, <2>1, <2>2 DEF Broken, HasRead
  <2>4. InnerOver'
    BY <1>1, <1>5, <2>3, SameRanges DEF InnerEnds, InnerOver, Checking, ResultTells
  <2>5. TypeOK'
    BY <1>5 DEF InnerEnds, IInv, TypeOK, Frame, Result, Index
  <2> QED  BY <2>4, <2>5, SameRanges DEF IInv, Stage
<1>6. CASE ~(data_ptr >= next_record_address)
  <2>1. Sound(Rec(i)) /\ next_record_address = RecordEnd(Rec(i))
    BY <1>3, <1>4, <1>6 DEF HasRead, Sound, RecordEnd
  <2>2. \A j \in Index : j <= i => Sound(Rec(j))
    BY <1>3, <2>1 DEF HasRead, Reached, Index
  <2>3. data_ptr' = Aligned(RecordEnd(Rec(i))) /\ data_ptr' \in Nat
    BY <1>2, <1>6, <2>1, Layout, AlignedType DEF Behind
  <2>4. \/ \E j \in Index : data_ptr' = Rec(j).at /\ Reached(j) /\ UpTo(j)
        \/ /\ data_ptr' + 4 >= section.size /\ \A j \in Index : Sound(Rec(j))
           /\ UpTo(Len(section.records) + 1)
    <3>1. CASE i < Len(section.records)
      <4>1. i + 1 \in Index /\ data_ptr' = Rec(i + 1).at
        BY <1>2, <2>3, <3>1, Layout DEF Index
      <4>2. Reached(i + 1)
        BY <2>2, <4>1 DEF Reached, Index
      <4> QED  BY <1>3, <4>1, <4>2
    <3>2. CASE i = Len(section.records)
      <4>1. data_ptr' + 4 >= section.size
        BY <1>2, <2>3, <3>2, Layout
      <4> QED  BY <1>3, <2>2, <3>2, <4>1 DEF Index
    <3> QED  BY <1>2, <3>1, <3>2 DEF Index
  <2>5. Reading'
    BY <1>1, <1>6, <2>4, SameRanges DEF Checking, Reading
  <2>6. TypeOK'
    BY <1>6, <2>3 DEF IInv, TypeOK, Frame, Result, Index
  <2> QED  BY <2>5, <2>6, SameRanges DEF IInv, Stage
<1> QED  BY <1>5, <1>6

-----------------------------------------------------------------------------
(* get_eh_frame_ranges and the consumer.                                   *)

LEMMA OuterPreserves ==
  ASSUME IInv, OuterStep
  PROVE  IInv'
<1> USE DEF readVars, innerVars, outerVars
<1>1. UNCHANGED <<section, got, consumer>>
  BY DEF OuterStep, OpenSection, ForwardValue, CloseSection, ResumeInner
<1>2. TypeOK'
  BY DEF OuterStep, OpenSection, ForwardValue, Forwarded, CloseSection, Passed, ResumeInner,
         IInv, TypeOK, Frame, Result, Index
<1>3. CASE OpenSection
  <2>1. Opening
    BY <1>3, StageOf DEF OpenSection
  <2>2. Reading'
    <3>1. CASE Len(section.records) = 0
      <4>1. section.size <= 4 /\ section.size \in Nat /\ Index = {} /\ Len(got) = 0
        BY <2>1, <3>1, SectionAssumption DEF IInv, Index, Opening
      <4>2. (\A i \in Index : Sound(Rec(i))) /\ UpTo(Len(section.records) + 1)
        BY <4>1 DEF UpTo
      <4> QED  BY <1>3, <2>1, <4>1, <4>2, <1>1, SameRanges DEF OpenSection, Opening, Reading
    <3>2. CASE Len(section.records) # 0
      <4>1. 1 \in Index
        BY <3>2 DEF Index, IInv, TypeOK
      <4>2. Rec(1).at = 0
        BY <4>1, Layout DEF IInv, TypeOK
      <4>3. Reached(1) /\ UpTo(1)
        BY <2>1 DEF Reached, UpTo, Index, Opening
      <4> QED  BY <1>3, <2>1, <4>1, <4>2, <4>3, <1>1, SameRanges DEF OpenSection, Opening, Reading
    <3> QED  BY <3>1, <3>2
  <2> QED  BY <1>1, <1>2, <2>2, SameRanges DEF IInv, Stage
<1>4. CASE ForwardValue
  <2>1. Yielded
    BY <1>4, StageOf DEF ForwardValue
  <2>2. Forwarding'
    BY <1>1, <1>4, <2>1, SameRanges DEF ForwardValue, Forwarded, Yielded, Forwarding, Yields
  <2> QED  BY <1>1, <1>2, <2>2, SameRanges DEF IInv, Stage
<1>5. CASE CloseSection
  <2>1. InnerOver
    BY <1>5, StageOf DEF CloseSection
  <2>2. OuterOver'
    BY <1>1, <1>5, <2>1, SameRanges DEF CloseSection, Passed, InnerOver, OuterOver, ResultTells,
       Empty, Exception
  <2> QED  BY <1>1, <1>2, <2>2, SameRanges DEF IInv, Stage
<1>6. CASE ResumeInner
  <2>1. Resuming
    BY <1>6, StageOf DEF ResumeInner
  <2>2. innerResult \in Index /\ HasRead(innerResult) /\ UpTo(innerResult + 1)
    BY <2>1 DEF Resuming, Yields, HasRead
  <2>3. HasRead(innerResult)'
    BY <1>1, <1>6, <2>2, SameRanges DEF ResumeInner, HasRead
  <2>4. Checking'
    BY <1>1, <1>6, <2>1, <2>2, <2>3, SameRanges DEF ResumeInner, Resuming, Checking
  <2> QED  BY <1>1, <1>2, <2>4, SameRanges DEF IInv, Stage
<1> QED  BY <1>3, <1>4, <1>5, <1>6 DEF OuterStep

\* The consumer takes the range of the next FDE.
LEMMA TakePreserves ==
  ASSUME IInv, Take
  PROVE  IInv'
<1> USE DEF readVars, innerVars, outerVars, Take
<1> DEFINE i == innerResult
<1>1. Forwarding /\ outerResult = i
  BY StageOf DEF Forwarding
<1>2. Yields(i) /\ UpTo(i) /\ i \in Index
  BY <1>1 DEF Forwarding, Yields
<1>3. /\ got' = Append(got, i) /\ Len(got') = Len(got) + 1 /\ Len(got) \in Nat
      /\ got'[Len(got) + 1] = i
      /\ \A k \in 1..Len(got) : got'[k] = got[k]
  BY <1>1, <1>2 DEF IInv, TypeOK
<1>4. TypeOK'
  <2>1. got' \in Seq(Index)
    <3> HIDE DEF Take
    <3>1. got \in Seq(Index) /\ got' = Append(got, i)
      BY <1>3 DEF IInv, TypeOK
    <3> QED  BY <1>2, <3>1, AppendProperties
  <2>2. Index' = Index
    BY DEF Index
  <2> QED  BY <2>1, <2>2 DEF IInv, TypeOK, Frame, Result
<1>5. Taken(i)' /\ \A j : Taken(j) => Taken(j)'
  BY <1>3 DEF Taken
<1>6. UpTo(i + 1)'
  <2>1. \A j \in Index : j < i + 1 /\ Rec(j).kind = "fde" => Taken(j)'
    BY <1>2, <1>5 DEF UpTo, Index
  <2>2. \A k \in 1..Len(got') : got'[k] < i + 1
    BY <1>2, <1>3 DEF UpTo, Index, IInv, TypeOK
  <2> QED  BY <2>1, <2>2 DEF UpTo, Index, Rec
<1>7. RangesInOrder'
  <2> SUFFICES ASSUME NEW k \in 1..Len(got')
               PROVE  /\ Rec(got'[k]).kind = "fde" /\ Readable(Rec(got'[k])) /\ Reached(got'[k])
                      /\ \A j \in 1..(k - 1) : got'[j] < got'[k]
                      /\ \A j \in 1..(got'[k] - 1) : Rec(j).kind = "fde" => Taken(j)'
    BY SameSection DEF RangesInOrder
  <2>1. CASE k \in 1..Len(got)
    <3>1. got'[k] = got[k] /\ \A j \in 1..(k - 1) : got'[j] = got[j]
      BY <1>3, <2>1
    <3> QED  BY <2>1, <3>1, <1>5 DEF IInv, RangesInOrder
  <2>2. CASE k = Len(got) + 1
    <3>1. got'[k] = i /\ \A j \in 1..(k - 1) : got'[j] = got[j]
      BY <1>3, <2>2
    <3>2. \A j \in 1..(k - 1) : got[j] < i
      BY <1>2, <1>3, <2>2 DEF UpTo
    <3>3. \A j \in 1..(i - 1) : Rec(j).kind = "fde" => Taken(j)
      BY <1>2 DEF UpTo, Index
    <3> QED  BY <1>2, <1>5, <3>1, <3>2, <3>3 DEF Yields
  <2> QED  BY <1>3, <2>1, <2>2
<1>8. Yields(i)'
  BY <1>2, SameSection DEF Yields
<1>9. Holding'
  BY <1>1, <1>6, <1>8 DEF Forwarding, Holding
<1> QED  BY <1>4, <1>7, <1>9 DEF IInv, Stage

LEMMA ConsumerPreserves ==
  ASSUME IInv, Begin \/ Continue \/ BodyThrows \/ Finish
  PROVE  IInv'
<1> USE DEF readVars, innerVars, outerVars
<1>1. UNCHANGED <<section, got, readVars, innerResult, outerResult>>
  BY DEF Begin, Continue, BodyThrows, Finish
<1>2. TypeOK'
  BY <1>1 DEF Begin, Continue, BodyThrows, Finish, DestroyFrames, IInv, TypeOK, Frame, Result, Index
<1>3. CASE Begin
  <2>1. Opening'
    BY <1>3, StageOf DEF Begin, Unstarted, Opening
  <2> QED  BY <1>1, <1>2, <2>1, SameRanges DEF IInv, Stage
<1>4. CASE Continue
  <2>1. Holding
    BY <1>4, StageOf DEF Continue
  <2>2. Resuming'
    BY <1>1, <1>4, <2>1, SameRanges DEF Continue, Holding, Resuming, Yields
  <2> QED  BY <1>1, <1>2, <2>2, SameRanges DEF IInv, Stage
<1>5. CASE BodyThrows
  <2>1. Over'
    BY <1>5, StageOf DEF BodyThrows, DestroyFrames, Holding, Over
  <2> QED  BY <1>1, <1>2, <2>1, SameRanges DEF IInv, Stage
<1>6. CASE Finish
  <2>1. OuterOver
    BY <1>6, StageOf DEF Finish
  <2>2. Over'
    BY <1>1, <1>6, <2>1, SameRanges DEF Finish, Passed, DestroyFrames, OuterOver, Over, ResultTells,
       Empty, Exception
  <2> QED  BY <1>1, <1>2, <2>2, SameRanges DEF IInv, Stage
<1> QED  BY <1>3, <1>4, <1>5, <1>6

LEMMA StepIInv == IInv /\ [Next]_vars => IInv'
<1> SUFFICES ASSUME IInv, [Next]_vars  PROVE IInv'
  OBVIOUS
<1>1. CASE InnerStep
  BY <1>1, ReadEndPreserves, ReadCiePreserves, ReadFdePreserves, ReadThrowsPreserves, CheckPreserves
     DEF InnerStep
<1>2. CASE OuterStep
  BY <1>2, OuterPreserves
<1>3. CASE ConsumerStep
  BY <1>3, TakePreserves, ConsumerPreserves DEF ConsumerStep
<1>4. CASE UNCHANGED vars
  <2> USE <1>4 DEF vars, readVars, innerVars, outerVars
  <2>1. TypeOK'
    BY DEF IInv, TypeOK, Frame, Result, Index
  <2>2. Stage'
    <3>1. UNCHANGED <<section, got>>
      OBVIOUS
    <3> QED
      BY <3>1, SameRanges DEF IInv, Stage, Unstarted, Opening, Reading, Checking, Yielded, Forwarding,
         Holding, Resuming, InnerOver, OuterOver, Over, Yields, HasRead, ResultTells
  <2> QED  BY <2>1, <2>2, SameRanges DEF IInv
<1> QED  BY <1>1, <1>2, <1>3, <1>4 DEF Next

LEMMA Inductive == Spec => []IInv
BY InitIInv, StepIInv, PTL DEF Spec

-----------------------------------------------------------------------------
(* Theorems.                                                               *)

\* The reader and its coroutines keep their types.
THEOREM TypeCorrect == Spec => []TypeOK
<1>1. IInv => TypeOK
  BY DEF IInv
<1> QED  BY <1>1, Inductive, PTL

\* The cursor is always at a record or behind the last one.
THEOREM CursorSafe == Spec => []CursorOnRecord
<1>1. IInv => CursorOnRecord
  BY DEF IInv, Stage, Unstarted, Opening, Reading, Checking, Yielded, Forwarding, Holding,
         Resuming, InnerOver, OuterOver, Over, CursorOnRecord
<1> QED  BY <1>1, Inductive, PTL

\* The consumer gets every range once and in order.
THEOREM RangesRight == Spec => []RangesInOrder
<1>1. IInv => RangesInOrder
  BY DEF IInv
<1> QED  BY <1>1, Inductive, PTL

\* The loop ends as the section says: no exception is lost or made up.
THEOREM OutcomeRight == Spec => []Outcome
<1>1. IInv => Outcome
  <2> SUFFICES ASSUME IInv  PROVE Outcome
    OBVIOUS
  <2>1. consumer = "ended" => AllOut
    BY DEF IInv, Stage, Unstarted, Opening, Reading, Checking, Yielded, Forwarding, Holding,
           Resuming, InnerOver, OuterOver, Over
  <2>2. consumer = "failed" => Broken
    BY DEF IInv, Stage, Unstarted, Opening, Reading, Checking, Yielded, Forwarding, Holding,
           Resuming, InnerOver, OuterOver, Over
  <2> QED  BY <2>1, <2>2 DEF Outcome, AllOut, Broken, InSection
<1> QED  BY <1>1, Inductive, PTL

-----------------------------------------------------------------------------
(* The consumer sees one stream.                                           *)

LoopOver == {"ended", "failed", "abandoned"}

\* What the stream offers does not change.
LEMMA SameStream ==
  ASSUME UNCHANGED section
  PROVE  Offered' = Offered /\ Faulty' = Faulty
BY SameSection DEF Offered, Faulty

\* The values taken are those that the stream has delivered.
LEMMA TakenDelivered == \A i : Taken(i) <=> i \in Stream!Delivered
BY DEF Taken, Stream!Delivered

LEMMA StreamInitially == Init => Stream!StreamInit
BY DEF Init, Stream!StreamInit, Offered, Faulty, Index

\* The reader and the coroutines between it and the consumer are not seen.
LEMMA InsideUnseen ==
  ASSUME InnerStep \/ OuterStep
  PROVE  UNCHANGED <<section, got, consumer>>
BY DEF InnerStep, ReadEnd, ReadCie, ReadFde, ReadThrows, CheckRecord,
       OuterStep, OpenSection, ForwardValue, CloseSection, ResumeInner

LEMMA TakeDelivers ==
  ASSUME IInv, Take
  PROVE  \E v \in Offered : Stream!Deliver(v)
<1>1. Forwarding
  BY StageOf DEF Take
<1>2. /\ innerResult \in Offered /\ outerResult = innerResult
      /\ UpTo(innerResult)
  BY <1>1 DEF Forwarding, Yields, Offered
<1>3. innerResult \notin Stream!Delivered
  BY <1>2 DEF UpTo, Stream!Delivered, Offered, Index
<1>4. {w \in Offered : w < innerResult} \subseteq Stream!Delivered
  BY <1>2, TakenDelivered DEF UpTo, Offered
<1>5. UNCHANGED section /\ consumer = "looping" /\ consumer' = "holding"
  BY DEF Take
<1>6. Stream!Deliver(innerResult)
  BY <1>2, <1>3, <1>4, <1>5, SameStream DEF Take, Stream!Deliver
<1> QED  BY <1>2, <1>6

\* The range of an FDE that is reached comes before the end.
LEMMA FinishEnds ==
  ASSUME IInv, Finish
  PROVE  Stream!End
<1>1. OuterOver
  BY StageOf DEF Finish
<1>2. /\ UNCHANGED <<section, got>> /\ consumer = "looping"
      /\ consumer' = IF outerResult = Exception THEN "failed" ELSE "ended"
  BY DEF Finish, Passed, Empty, Exception
<1>3. CASE outerResult = Empty /\ AllOut
  <2>1. \A i \in Index : Reached(i) /\ Rec(i).kind # "end" =>
          Sound(Rec(i)) /\ (Rec(i).kind = "fde" => Taken(i))
    BY <1>3, SoundGoesOn DEF AllOut
  <2>2. ~Faulty /\ Offered \subseteq Stream!Delivered
    BY <2>1, TakenDelivered DEF Faulty, Offered
  <2>3. consumer' = "ended"
    BY <1>2, <1>3 DEF Empty, Exception
  <2> QED  BY <1>2, <2>2, <2>3, SameStream DEF Stream!End
<1>4. CASE outerResult = Exception /\ Broken
  <2>1. PICK i \in Index :
          /\ InSection(i) /\ Reached(i) /\ ~Sound(Rec(i))
          /\ \A j \in 1..i : Rec(j).kind = "fde" /\ Readable(Rec(j)) => Taken(j)
    BY <1>4 DEF Broken
  <2>2. Faulty
    BY <2>1 DEF Faulty, InSection, Index
  <2>3. \A j \in Index : Reached(j) => j \in 1..i
    BY <2>1 DEF Reached, Index
  <2>4. Offered \subseteq Stream!Delivered
    BY <2>1, <2>3, TakenDelivered DEF Offered
  <2> QED  BY <1>2, <1>4, <2>2, <2>4, SameStream DEF Stream!End
<1> QED  BY <1>1, <1>3, <1>4 DEF OuterOver, ResultTells

LEMMA ThrowAbandons ==
  ASSUME IInv, BodyThrows
  PROVE  Stream!Abandon
<1>1. Holding
  BY StageOf DEF BodyThrows
<1>2. Taken(innerResult)
  BY <1>1 DEF Holding, Yields, UpTo, Index
<1>3. got # <<>>
  BY <1>2 DEF Taken
<1> QED  BY <1>3, SameStream DEF BodyThrows, Stream!Abandon

LEMMA StepRefines ==
  IInv /\ [Next]_vars => [Stream!StreamNext]_(Stream!streamVars)
<1> SUFFICES ASSUME IInv, [Next]_vars
             PROVE  Stream!StreamNext \/ UNCHANGED Stream!streamVars
  OBVIOUS
<1>1. CASE InnerStep \/ OuterStep \/ UNCHANGED vars
  <2>1. UNCHANGED <<section, got, consumer>>
    BY <1>1, InsideUnseen DEF vars
  <2> QED  BY <2>1, SameStream DEF Stream!streamVars
<1>2. CASE Begin \/ Continue
  <2>1. /\ UNCHANGED <<section, got>>
        /\ consumer \notin LoopOver /\ consumer' \notin LoopOver
    BY <1>2 DEF Begin, Continue, LoopOver
  <2> QED  BY <2>1, SameStream DEF Stream!streamVars, LoopOver
<1>3. CASE Take
  BY <1>3, TakeDelivers DEF Stream!StreamNext
<1>4. CASE Finish \/ BodyThrows
  BY <1>4, FinishEnds, ThrowAbandons DEF Stream!StreamNext
<1> QED  BY <1>1, <1>2, <1>3, <1>4 DEF Next, ConsumerStep

\* The reader and the two coroutines around it do what RangeStream says: the
\* consumer takes the ranges of the section in their order, and its loop
\* ends, or fails, only after the last. That it ends at some time is left to
\* the run.
THEOREM ImplementsStream ==
  Spec => Stream!StreamInit /\ [][Stream!StreamNext]_(Stream!streamVars)
BY Inductive, StreamInitially, StepRefines, PTL DEF Spec

-----------------------------------------------------------------------------
(* The loop takes finitely many steps.                                     *)

\* The bytes of the section behind address a.
BytesFrom(a) == IF a < section.size THEN section.size - a ELSE 0

\* The bytes that are still to be read: those behind the cursor, or behind the
\* record that was read last, unless the cursor is behind that already.
Unread ==
  CASE inner = "none"                    -> section.size
    [] inner = "running"                 -> BytesFrom(data_ptr)
    [] inner \in {"checking", "yielded"} ->
         IF data_ptr >= next_record_address THEN 0 ELSE BytesFrom(next_record_address)
    [] OTHER                             -> 0

\* How often control passes before the next record is read, at most.
Turn ==
  CASE consumer = "start"                                              -> 5
    [] at = "outer" /\ inner = "yielded" /\ outer = "running"          -> 8
    [] consumer = "looping" /\ at = "consumer" /\ outer = "yielded"    -> 7
    [] consumer = "holding"                                            -> 6
    [] at = "outer" /\ outer = "resumed"                               -> 5
    [] at = "inner" /\ inner = "checking"                              -> 4
    [] at = "outer" /\ inner = "none"                                  -> 4
    [] at = "inner" /\ inner = "running"                               -> 3
    [] at = "outer" /\ inner = "done"                                  -> 2
    [] consumer = "looping" /\ at = "consumer" /\ outer = "done"       -> 1
    [] OTHER                                                           -> 0

\* The steps that are left, at most.
StepsLeft == 2 * Unread + Turn

Counts ==
  /\ Unread \in Nat /\ Turn \in 0..8
  /\ StepsLeft = 2 * Unread + Turn /\ StepsLeft \in Nat

LEMMA StepsCount == IInv => Counts
<1> SUFFICES ASSUME IInv  PROVE Counts
  OBVIOUS
<1>1. section.size \in Nat /\ data_ptr \in Nat /\ next_record_address \in Int
  BY DEF IInv, TypeOK
<1>2. /\ BytesFrom(data_ptr) \in Nat
      /\ ~(data_ptr >= next_record_address) => BytesFrom(next_record_address) \in Nat
  BY <1>1 DEF BytesFrom
<1>3. Unread \in Nat
  BY <1>1, <1>2 DEF Unread
<1>4. Turn \in 0..8
  BY DEF Turn
<1> QED  BY <1>3, <1>4 DEF StepsLeft, Counts

LEMMA StepsCountNext == IInv' => Counts'
BY StepsCount, PTL

LEMMA FewerSteps ==
  ASSUME NEW u \in Nat, NEW s \in 0..8, NEW t \in 0..8, t < s
  PROVE  2 * u + t < 2 * u + s
OBVIOUS

LEMMA ReadSteps ==
  ASSUME NEW u \in Nat, NEW v \in Nat, NEW t \in 0..8, v + 4 <= u
  PROVE  2 * v + t < 2 * u + 3
OBVIOUS

\* Of the section are more than four bytes left at a record, and the record
\* takes four of them or more, unless the cursor is behind it at once.
LEMMA ReadShortens ==
  ASSUME IInv, IInv', NEW i \in Index, AtRecord(Rec(i)), section' = section,
         inner' \in {"checking", "yielded"}, data_ptr' >= Rec(i).at + 4
  PROVE  Unread' + 4 <= Unread
<1>1. /\ section \in Sections /\ section.records \in Seq(Record) /\ section.size \in Nat
      /\ data_ptr' \in Nat /\ next_record_address' \in Int
  BY DEF IInv, TypeOK
<1>2. Rec(i).at \in Nat /\ Rec(i).at + 4 < section.size
  BY <1>1, Layout
<1>3. Unread = section.size - Rec(i).at
  BY <1>1, <1>2 DEF AtRecord, Unread, BytesFrom
<1>4. Unread' = IF data_ptr' >= next_record_address' THEN 0
                ELSE IF next_record_address' < section.size
                     THEN section.size - next_record_address' ELSE 0
  BY DEF Unread, BytesFrom
<1> QED  BY SMTT(30), <1>1, <1>2, <1>3, <1>4

LEMMA InnerShortens ==
  ASSUME IInv, IInv', InnerStep
  PROVE  StepsLeft' < StepsLeft
<1>1. /\ Unread \in Nat /\ Unread' \in Nat /\ Turn \in 0..8 /\ Turn' \in 0..8
      /\ StepsLeft = 2 * Unread + Turn /\ StepsLeft' = 2 * Unread' + Turn'
  BY StepsCount, StepsCountNext DEF Counts
<1>2. ASSUME NEW i \in Index, ReadCie(Rec(i)) \/ ReadFde(i)  PROVE StepsLeft' < StepsLeft
  <2>1. /\ AtRecord(Rec(i)) /\ section' = section /\ inner' \in {"checking", "yielded"}
        /\ data_ptr' >= Rec(i).at + 4
    <3>1. Rec(i).at \in Nat /\ FdeBytes(Rec(i)) \in Nat
      BY Layout DEF IInv, TypeOK
    <3> QED  BY <1>2, <3>1 DEF ReadCie, ReadFde, AtRecord
  <2>2. Reading
    BY <2>1, StageOf DEF AtRecord
  <2>3. Turn = 3
    BY <2>2 DEF Reading, Turn
  <2>4. Unread' + 4 <= Unread
    BY <2>1, ReadShortens
  <2>5. 2 * Unread' + Turn' < 2 * Unread + 3
    BY <1>1, <2>4, ReadSteps
  <2> QED  BY <1>1, <2>3, <2>5
<1>3. CASE CheckRecord
  <2>1. Checking
    BY <1>3, StageOf DEF CheckRecord
  <2>2. /\ Turn = 4
        /\ ~Overflowed => Unread = BytesFrom(next_record_address)
    BY <2>1 DEF Checking, Turn, Unread, Overflowed
  <2>3. CASE inner' = "running"
    <3>1. Turn' = 3 /\ Unread' = BytesFrom(data_ptr)'
      BY <2>1, <2>3, <1>3 DEF CheckRecord, Checking, Turn, Unread, InnerEnds, outerVars
    <3>2. ~Overflowed /\ data_ptr' = Aligned(next_record_address) /\ section' = section
      BY <2>3, <1>3 DEF CheckRecord, InnerEnds, Behind
    <3>3. next_record_address \in Nat /\ section.size \in Nat
      BY <3>2 DEF IInv, TypeOK, Overflowed
    <3>4. data_ptr' \in Nat /\ data_ptr' >= next_record_address
      BY <3>2, <3>3 DEF Aligned
    <3> QED  BY <1>1, <2>2, <3>1, <3>2, <3>3, <3>4 DEF BytesFrom
  <2>4. CASE inner' = "done" /\ at' = "outer"
    <3>1. Turn' = 2 /\ Unread' = 0
      BY <2>1, <2>4, <1>3 DEF CheckRecord, Checking, Turn, Unread, outerVars
    <3> QED  BY <1>1, <2>2, <3>1
  <2> QED  BY <1>3, <2>3, <2>4 DEF CheckRecord, InnerEnds
<1>4. ASSUME ReadEnd \/ \E i \in Index : ReadThrows(Rec(i))  PROVE StepsLeft' < StepsLeft
  <2>1. /\ at = "inner" /\ inner = "running" /\ at' = "outer" /\ inner' = "done"
        /\ UNCHANGED <<outer, consumer>>
    BY <1>4 DEF ReadEnd, ReadThrows, AtRecord, InnerEnds, outerVars
  <2>2. Reading
    BY <2>1, StageOf
  <2>3. Turn = 3 /\ Turn' = 2 /\ Unread' = 0
    BY <2>1, <2>2 DEF Reading, Turn, Unread
  <2> QED  BY <1>1, <2>3
<1> QED  BY <1>2, <1>3, <1>4 DEF InnerStep

LEMMA OuterShortens ==
  ASSUME IInv, IInv', OuterStep
  PROVE  StepsLeft' < StepsLeft
<1>1. /\ Unread \in Nat /\ Unread' \in Nat /\ Turn \in 0..8 /\ Turn' \in 0..8
      /\ StepsLeft = 2 * Unread + Turn /\ StepsLeft' = 2 * Unread' + Turn'
  BY StepsCount, StepsCountNext DEF Counts
<1>2. CASE OpenSection
  <2>1. Opening
    BY <1>2, StageOf DEF OpenSection
  <2>2. Turn = 4 /\ Turn' = 3 /\ Unread = section.size
    BY <1>2, <2>1 DEF Opening, OpenSection, Turn, Unread, outerVars
  <2>3. Unread' = section.size
    BY <1>2 DEF OpenSection, Unread, BytesFrom, IInv, TypeOK
  <2> QED  BY <1>1, <2>2, <2>3
<1>3. CASE ForwardValue \/ ResumeInner
  <2>1. Yielded \/ Resuming
    BY <1>3, StageOf DEF ForwardValue, ResumeInner
  <2>2. Unread' = Unread
    BY <1>3 DEF ForwardValue, ResumeInner, Unread, BytesFrom, innerVars, readVars
  <2>3. Turn' < Turn
    BY <1>3, <2>1 DEF ForwardValue, ResumeInner, Yielded, Resuming, Turn, innerVars
  <2> QED  BY <1>1, <2>2, <2>3, FewerSteps
<1>4. CASE CloseSection
  <2>1. InnerOver
    BY <1>4, StageOf DEF CloseSection
  <2>2. Turn = 2 /\ Turn' = 1 /\ Unread = 0 /\ Unread' = 0
    BY <1>4, <2>1 DEF InnerOver, CloseSection, Turn, Unread
  <2> QED  BY <1>1, <2>2
<1> QED  BY <1>2, <1>3, <1>4 DEF OuterStep

LEMMA ConsumerShortens ==
  ASSUME IInv, IInv', ConsumerStep
  PROVE  StepsLeft' < StepsLeft
<1>1. /\ Unread \in Nat /\ Unread' \in Nat /\ Turn \in 0..8 /\ Turn' \in 0..8
      /\ StepsLeft = 2 * Unread + Turn /\ StepsLeft' = 2 * Unread' + Turn'
  BY StepsCount, StepsCountNext DEF Counts
<1>2. CASE Begin \/ Take \/ Continue
  <2>1. Unstarted \/ Forwarding \/ Holding
    BY <1>2, StageOf DEF Begin, Take, Continue
  <2>2. Unread' = Unread
    BY <1>2 DEF Begin, Take, Continue, Unread, BytesFrom, innerVars, readVars
  <2>3. Turn' < Turn
    BY <1>2, <2>1 DEF Begin, Take, Continue, Unstarted, Forwarding, Holding, Turn, innerVars, outerVars
  <2> QED  BY <1>1, <2>2, <2>3, FewerSteps
<1>3. CASE BodyThrows \/ Finish
  <2>1. Holding \/ OuterOver
    BY <1>3, StageOf DEF BodyThrows, Finish
  <2>2. Turn \in {1, 6}
    BY <2>1 DEF Holding, OuterOver, Turn
  <2>3. /\ at' = "consumer" /\ inner' = "destroyed" /\ consumer' \in {"abandoned", "failed", "ended"}
    BY <1>3, <2>1 DEF BodyThrows, Finish, DestroyFrames, Holding, OuterOver
  <2>4. Turn' = 0 /\ Unread' = 0
    BY <2>3 DEF Turn, Unread
  <2> QED  BY <1>1, <2>2, <2>4
<1> QED  BY <1>2, <1>3 DEF ConsumerStep

LEMMA StepShortens == IInv /\ IInv' /\ [Next]_vars => [StepsLeft' < StepsLeft]_vars
BY InnerShortens, OuterShortens, ConsumerShortens DEF Next

\* The loop over a section takes at most two steps for each of its bytes and
\* five more. That is so for any records and any lengths, those that lead out
\* of the section or past the last address among them: the reader stops with an
\* exception when the cursor is behind the next record, so that the cursor never
\* goes back. The only records left out are those that end in the last three
\* bytes of memory (SectionAssumption); all that is read is taken to be mapped.
THEOREM ReaderStops ==
  Spec => /\ StepsLeft = 2 * section.size + 5
          /\ [](StepsLeft \in Nat)
          /\ [][StepsLeft' < StepsLeft]_vars
<1>1. Init => StepsLeft = 2 * section.size + 5
  BY DEF Init, StepsLeft, Unread, Turn
<1>2. IInv => StepsLeft \in Nat
  BY StepsCount DEF Counts
<1> QED  BY <1>1, <1>2, StepShortens, Inductive, PTL DEF Spec
=============================================================================
