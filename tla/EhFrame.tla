-------------------------------- MODULE EhFrame --------------------------------
(***************************************************************************)
(* How offsets/eh_frame.cpp reads the ranges of functions from the         *)
(* .eh_frame section of a library, and how util/generator.hpp hands them   *)
(* to the code that asked for them.  handle_eh_frame is a coroutine        *)
(* inside get_eh_frame_ranges, which is a coroutine inside its consumer's  *)
(* loop: control goes back and forth between the three.                    *)
(*                                                                         *)
(* A section is a sequence of records, each at its offset, and a size.  A  *)
(* range stands for the record it was read from.  Addresses are counted    *)
(* from the start of the section, and wrap around behind the last one of   *)
(* the process; what is read of a record is taken to be mapped memory.     *)
(***************************************************************************)
EXTENDS Integers, Sequences

CONSTANTS
  Sections,   \* what the section may hold
  Space,      \* how many addresses there are: 2^32 in the program
  Base,       \* where the section lies
  Omit        \* encoding of a pointer that is not there

Letter == {"z", "R", "L", "P", "S"}

\* How a pointer is written: its format, and whether it is relative to its
\* place, the one application that is known.
Written == [format : {"absptr", "leb128", "data2", "data4", "data8", "unknown"},
            relative : BOOLEAN]
Encoding == Written \cup {Omit}

\* Encoding 0.
Absolute == [format |-> "absptr", relative |-> FALSE]

\* A record; what a CIE says counts only if it is one.
Record == [at : Nat, length : 0..(Space - 1), kind : {"cie", "fde", "end", "extended"},
           cie : Nat, version : Nat, augmentation : Seq(Letter),
           pointer : Encoding, personality : Encoding,
           fits : BOOLEAN,   \* the numbers in its head have at most 64 bits
           leb : Nat]        \* bytes of a pointer in LEB128, 0 if it has more than 64 bits

\* The first address from a on that a record may have.
Aligned(a) == a + ((4 - (a % 4)) % 4)

\* Where r ends: its length does not count the length field, and the address
\* may be unaligned.  Nothing keeps the length of a record from leading out of
\* the section, or past the last address.
RecordEnd(r) == r.at + 4 + r.length

\* The first address that does not exist.
Top == Space - Base

\* The bytes of a section as the reader meets them: a record wherever the one
\* before it ends, until four bytes or less are left.  Every section is of
\* this form, but for a record that ends in the last three bytes of all memory,
\* from where the alignment would lead to address 0.  The section starts at an
\* aligned address, and so does what is behind the last one.  That a record
\* lies behind all that come before it follows from the rest.
ASSUME SectionAssumption ==
  /\ Space \in Nat /\ Base \in Nat /\ Top \in Nat /\ Top % 4 = 0
  /\ Omit \notin Written
  /\ \A s \in Sections :
       /\ s.records \in Seq(Record) /\ s.size \in 0..Top
       /\ \A i \in 1..Len(s.records) :
            /\ i = 1 => s.records[i].at = 0
            /\ i < Len(s.records) => s.records[i + 1].at = Aligned(RecordEnd(s.records[i]))
            /\ i = Len(s.records) => s.size <= Aligned(RecordEnd(s.records[i])) + 4
            /\ s.records[i].at + 4 < s.size
            /\ \A j \in 1..(i - 1) : RecordEnd(s.records[j]) <= s.records[i].at
            /\ RecordEnd(s.records[i]) \notin (Top - 3)..(Top - 1)
            /\ (s.records[i].kind = "end") <=> (s.records[i].length = 0)
            /\ (s.records[i].kind = "extended") <=> (s.records[i].length = Space - 1)
       /\ Len(s.records) = 0 => s.size <= 4

VARIABLES
  section,              \* contents of the section, and its size
  at,                   \* who runs: consumer, get_eh_frame_ranges, handle_eh_frame
  data_ptr,             \* fde_data.data_ptr
  next_record_address,
  inner,                \* where handle_eh_frame is
  innerResult,          \* the result in its promise
  outer,                \* where get_eh_frame_ranges is
  outerResult,
  consumer,             \* where the loop over the ranges is
  got                   \* the ranges it has taken

readVars == <<data_ptr, next_record_address>>
innerVars == <<readVars, inner, innerResult>>
outerVars == <<outer, outerResult>>
vars == <<section, at, innerVars, outerVars, consumer, got>>

Index == 1..Len(section.records)
Rec(i) == section.records[i]
Frame == {"none", "running", "checking", "resumed", "yielded", "done", "destroyed"}

\* What a promise holds: nothing, an exception, or the range of a record.
Empty == 0
Exception == -1
Result == {Empty, Exception} \cup Index

TypeOK ==
  /\ section.records \in Seq(Record) /\ section.size \in Nat
  /\ at \in {"consumer", "outer", "inner"}
  /\ data_ptr \in Nat /\ next_record_address \in Int
  /\ inner \in Frame /\ outer \in Frame
  /\ innerResult \in Result /\ outerResult \in Result
  /\ consumer \in {"start", "looping", "holding", "ended", "failed", "abandoned"}
  /\ got \in Seq(Index)

Init ==
  /\ section \in Sections
  /\ at = "consumer"
  /\ data_ptr = 0 /\ next_record_address = 0
  /\ inner = "none" /\ innerResult = Empty
  /\ outer = "none" /\ outerResult = Empty
  /\ consumer = "start"
  /\ got = <<>>

-----------------------------------------------------------------------------
(* handle_cie, and the pointers of data_view.hpp.                          *)

\* read_dwarf_encoded_no_application gives the pointer of r, and does not
\* throw.
Decodes(e, r) ==
  e # Omit /\ e.format # "unknown" /\ (e.format = "leb128" => r.leb # 0)

\* The bytes that it takes.
PointerSize(e, r) ==
  CASE e.format = "leb128" -> r.leb
    [] e.format = "data2"  -> 2
    [] e.format = "data8"  -> 8
    [] OTHER               -> 4

Letters(c) == {c.augmentation[k] : k \in 1..Len(c.augmentation)}
HasData(c) == c.augmentation # <<>> /\ c.augmentation[1] = "z"

\* No CIE, an unknown version, a number of more than 64 bits, a letter that is
\* not handled, or a personality that is announced and omitted or cannot be
\* decoded.
CieThrows(c) ==
  \/ c.kind # "cie" \/ c.version # 1 \/ ~c.fits
  \/ /\ HasData(c)
     /\ ~(Letters(c) \subseteq {"z", "R", "L", "P"}) \/ ("P" \in Letters(c) /\ ~Decodes(c.personality, c))

\* fde_pointer_encoding is 0 unless the augmentation gives one.
PointerEncoding(c) == IF HasData(c) /\ "R" \in Letters(c) THEN c.pointer ELSE Absolute

\* The FDE r has a CIE that can be read, and a pointer that can be decoded
\* and is relative.
Readable(r) ==
  /\ r.cie \in Index /\ ~CieThrows(Rec(r.cie))
  /\ LET e == PointerEncoding(Rec(r.cie))
     IN  Decodes(e, r) /\ e.relative

\* What is read of the FDE r behind its length: the reference to the CIE, the
\* pointer, and the length of the function.
FdeBytes(r) == 4 + PointerSize(PointerEncoding(Rec(r.cie)), r) + 4

-----------------------------------------------------------------------------
(* handle_eh_frame.                                                        *)

\* The coroutine ends, with or without an exception in its promise.
InnerEnds(result) ==
  /\ inner' = "done" /\ innerResult' = result
  /\ at' = "outer"

\* The loop has come to the end of the section, to its last four bytes, or
\* to a length of 0.
ReadEnd ==
  /\ at = "inner" /\ inner = "running"
  /\ \/ data_ptr + 4 >= section.size
     \/ \E i \in Index : Rec(i).at = data_ptr /\ Rec(i).kind = "end"
  /\ InnerEnds(Empty)
  /\ UNCHANGED <<section, readVars, outerVars, consumer, got>>

\* Mutant of NextRecord: the length is counted from its own field.
NextRecordShort(r) == r.at + r.length

\* next_record_address, counted from behind the length.  The sum wraps.
NextRecord(r) == IF RecordEnd(r) < Top THEN RecordEnd(r) ELSE RecordEnd(r) - Space

\* A record at the cursor that is not the end.
AtRecord(r) ==
  /\ at = "inner" /\ inner = "running"
  /\ data_ptr + 4 < section.size /\ r.at = data_ptr /\ r.kind # "end"

\* A CIE is passed over.
ReadCie(r) ==
  /\ AtRecord(r) /\ r.kind = "cie"
  /\ data_ptr' = data_ptr + 8
  /\ next_record_address' = NextRecord(r)
  /\ inner' = "checking"
  /\ UNCHANGED <<section, at, innerResult, outerVars, consumer, got>>

\* The pointer and the length of a function are read from FDE i and yielded.
ReadFde(i) ==
  /\ AtRecord(Rec(i)) /\ Rec(i).kind = "fde" /\ Readable(Rec(i))
  /\ data_ptr' = data_ptr + 4 + FdeBytes(Rec(i))
  /\ next_record_address' = NextRecord(Rec(i))
  /\ inner' = "yielded" /\ innerResult' = i
  /\ at' = "outer"
  /\ UNCHANGED <<section, outerVars, consumer, got>>

\* The extended length, and an FDE that cannot be read.
ReadThrows(r) ==
  /\ AtRecord(r)
  /\ r.kind = "extended" \/ (r.kind = "fde" /\ ~Readable(r))
  /\ InnerEnds(Exception)
  /\ UNCHANGED <<section, readVars, outerVars, consumer, got>>

\* Mutant of Behind: the cursor is not aligned.
BehindUnaligned(a) == a

\* The cursor goes to the next address that is aligned.
Behind(a) == Aligned(a)

\* Mutant of Overflowed: a record may be read to its last byte.
OverflowedLate == data_ptr > next_record_address

\* The cursor is behind the record that was read, or at its end; it also is
\* when the address of the next record has wrapped.
Overflowed == data_ptr >= next_record_address

\* After a record, which may not have been read to its last byte.
CheckRecord ==
  /\ at = "inner" /\ inner = "checking"
  /\ IF Overflowed
     THEN /\ InnerEnds(Exception)
          /\ UNCHANGED data_ptr
     ELSE /\ data_ptr' = Behind(next_record_address)
          /\ inner' = "running"
          /\ UNCHANGED <<at, innerResult>>
  /\ UNCHANGED <<section, next_record_address, outerVars, consumer, got>>

InnerStep ==
  \/ ReadEnd \/ CheckRecord
  \/ \E i \in Index : ReadCie(Rec(i)) \/ ReadFde(i) \/ ReadThrows(Rec(i))

-----------------------------------------------------------------------------
(* get_eh_frame_ranges.                                                    *)

\* It finds the section, makes the inner range and asks for its first value.
OpenSection ==
  /\ at = "outer" /\ inner = "none"
  /\ data_ptr' = 0
  /\ inner' = "running"
  /\ at' = "inner"
  /\ UNCHANGED <<section, next_record_address, innerResult, outerVars, consumer, got>>

\* Mutant of Forwarded: the outer promise keeps its old value.
ForwardedStale == outerResult

\* What the outer coroutine yields: a reference into the inner promise, of
\* which its own promise makes a copy.
Forwarded == innerResult

\* A value of the inner range is yielded again.
ForwardValue ==
  /\ at = "outer" /\ inner = "yielded" /\ outer = "running"
  /\ outer' = "yielded" /\ outerResult' = Forwarded
  /\ at' = "consumer"
  /\ UNCHANGED <<section, innerVars, consumer, got>>

\* Mutant of Passed: done() is tested, but the exception stays where it is.
PassedNothing(result) == Empty

\* equal() rethrows what a coroutine that is done has in its promise.
Passed(result) == IF result = Exception THEN Exception ELSE Empty

\* The inner range is at its end, by return or by exception; its Generator is
\* destroyed, and the outer coroutine ends in the same way.
CloseSection ==
  /\ at = "outer" /\ inner = "done"
  /\ inner' = "destroyed"
  /\ outer' = "done" /\ outerResult' = Passed(innerResult)
  /\ at' = "consumer"
  /\ UNCHANGED <<section, readVars, innerResult, consumer, got>>

\* Resumed by its consumer, it asks the inner range for the next value.
ResumeInner ==
  /\ at = "outer" /\ inner = "yielded" /\ outer = "resumed"
  /\ outer' = "running"
  /\ inner' = "checking"
  /\ at' = "inner"
  /\ UNCHANGED <<section, readVars, innerResult, outerResult, consumer, got>>

OuterStep == OpenSection \/ ForwardValue \/ CloseSection \/ ResumeInner

-----------------------------------------------------------------------------
(* The consumer: init_offsets or get_vtables_from_module.                  *)

\* begin_cursor() resumes the coroutine for its first value.
Begin ==
  /\ at = "consumer" /\ consumer = "start"
  /\ consumer' = "looping"
  /\ outer' = "running"
  /\ at' = "outer"
  /\ UNCHANGED <<section, innerVars, outerResult, got>>

\* read() gives the value to the body of the loop.
Take ==
  /\ at = "consumer" /\ consumer = "looping" /\ outer = "yielded"
  /\ consumer' = "holding"
  /\ got' = Append(got, outerResult)
  /\ UNCHANGED <<section, at, innerVars, outerVars>>

\* next() after the body.
Continue ==
  /\ at = "consumer" /\ consumer = "holding"
  /\ consumer' = "looping"
  /\ outer' = "resumed"
  /\ at' = "outer"
  /\ UNCHANGED <<section, innerVars, outerResult, got>>

\* ~Generator: the frame goes, and with it an inner range that is in it.
DestroyFrames ==
  /\ outer' = "destroyed"
  /\ inner' = IF inner = "none" THEN "none" ELSE "destroyed"

\* The body throws: a range does not fit into the bitmap of add_range.
BodyThrows ==
  /\ at = "consumer" /\ consumer = "holding"
  /\ consumer' = "abandoned"
  /\ DestroyFrames
  /\ UNCHANGED <<section, at, readVars, innerResult, outerResult, got>>

\* equal() at the end: the loop ends or throws.
Finish ==
  /\ at = "consumer" /\ consumer = "looping" /\ outer = "done"
  /\ consumer' = IF Passed(outerResult) = Exception THEN "failed" ELSE "ended"
  /\ DestroyFrames
  /\ UNCHANGED <<section, at, readVars, innerResult, outerResult, got>>

ConsumerStep == Begin \/ Take \/ Continue \/ BodyThrows \/ Finish

-----------------------------------------------------------------------------
Next == InnerStep \/ OuterStep \/ ConsumerStep

\* Straight-line code of one thread.
Spec == Init /\ [][Next]_vars /\ WF_vars(Next)

-----------------------------------------------------------------------------
(* Properties.                                                             *)

\* A record that is read and left behind without an error.
Sound(r) ==
  /\ RecordEnd(r) < Top
  /\ \/ r.kind = "cie" /\ r.length > 4
     \/ r.kind = "fde" /\ Readable(r) /\ r.length > FdeBytes(r)

\* Record i is reached.
Reached(i) == \A j \in 1..(i - 1) : Sound(Rec(j))

Taken(i) == \E k \in 1..Len(got) : got[k] = i

\* Between two records the cursor is at the start of a record that is
\* reached, or behind the last one: alignment and lengths, also those that
\* wrap, never lead into the middle of a record.
CursorOnRecord ==
  inner = "running" =>
    \/ \E i \in Index : data_ptr = Rec(i).at /\ Reached(i)
    \/ data_ptr + 4 >= section.size /\ \A i \in Index : Sound(Rec(i))

\* The consumer gets the ranges of readable FDEs in the order of the section,
\* each once and none left out, although every value passes through two
\* coroutines that keep one result each.
RangesInOrder ==
  \A k \in 1..Len(got) :
    /\ Rec(got[k]).kind = "fde" /\ Readable(Rec(got[k])) /\ Reached(got[k])
    /\ \A j \in 1..(k - 1) : got[j] < got[k]
    /\ \A i \in 1..(got[k] - 1) : Rec(i).kind = "fde" => Taken(i)

\* The loop ends without an exception only if no record up to the end is
\* faulty, and the consumer has all ranges then; it fails only for a record
\* that is faulty, after all ranges before it, and its own if that could be
\* read. An exception is not lost on its way out of two coroutines, which end
\* before anybody asks for it.
Outcome ==
  LET InSection(i) == \A j \in 1..i : Rec(j).kind # "end"
  IN /\ consumer = "ended" =>
          \A i \in Index : InSection(i) =>
            Sound(Rec(i)) /\ (Rec(i).kind = "fde" => Taken(i))
     /\ consumer = "failed" =>
          \E i \in Index :
            /\ InSection(i) /\ Reached(i) /\ ~Sound(Rec(i))
            /\ \A j \in 1..i : Rec(j).kind = "fde" /\ Readable(Rec(j)) => Taken(j)

-----------------------------------------------------------------------------
(* The stream that the consumer sees.                                      *)

\* The ranges that the section has up to its first faulty record, and
\* whether there is one.
Offered == {i \in Index : Rec(i).kind = "fde" /\ Readable(Rec(i)) /\ Reached(i)}
Faulty == \E i \in Index : Reached(i) /\ ~Sound(Rec(i)) /\ Rec(i).kind # "end"

Stream ==
  INSTANCE RangeStream WITH
    offered <- Offered,
    fails   <- Faulty,
    loop    <- IF consumer \in {"ended", "failed", "abandoned"} THEN consumer ELSE "open"

\* Two generators, one inside the other, look like one stream to the
\* consumer: the values of the section in order, then the end or the
\* exception that the section asks for, and the loop is over at some time,
\* since the cursor moves forward.
StreamSpec == Stream!StreamSpec
=============================================================================
