------------------------------ MODULE MCEhFrame ------------------------------
(***************************************************************************)
(* All sections of up to MaxRecords records of some shapes, laid out one   *)
(* behind the other, with and without padding and a rest at the end.  The  *)
(* last record may be cut off by the end of the section, and its length    *)
(* may lead out of the section or out of the address space.                *)
(***************************************************************************)
EXTENDS EhFrame

CONSTANT MaxRecords

Shape(kind, length) ==
  [at |-> 0, kind |-> kind, length |-> length, cie |-> 0, version |-> 1,
   augmentation |-> <<>>, pointer |-> Omit, personality |-> Omit,
   fits |-> TRUE, leb |-> 0]

Cie(length, augmentation, pointer, personality) ==
  [Shape("cie", length) EXCEPT !.augmentation = augmentation, !.pointer = pointer,
                               !.personality = personality]

Encoded(format) == [format |-> format, relative |-> TRUE]
Relative == Encoded("data4")

PlainCie == Cie(16, <<"z", "R">>, Relative, Omit)

Common ==
  {PlainCie, Shape("end", 0)}
  \cup {[Shape("fde", 12) EXCEPT !.cie = c] : c \in 1..2}
  \cup {[Shape("fde", 14) EXCEPT !.cie = c, !.leb = 5] : c \in 1..2}

\* CIEs that are too short, cannot be read, or write pointers in other ways.
\* One of them is in a section at most.
OddCies ==
  {Cie(4, <<"z", "R">>, Relative, Omit), [PlainCie EXCEPT !.version = 3],
   [PlainCie EXCEPT !.fits = FALSE],
   Cie(17, <<"z", "P", "L", "R">>, Relative, Absolute),
   Cie(16, <<"z", "P", "R">>, Relative, Omit),
   Cie(16, <<"z", "R", "S">>, Relative, Omit), Cie(16, <<>>, Relative, Omit)}
  \cup {Cie(16, <<"z", "R">>, e, Omit) : e \in {Absolute, Omit} \cup
          {Encoded(f) : f \in {"data2", "data8", "leb128", "unknown"}}}

Sequences(n) ==
  LET common == [1..n -> Common]
  IN common \cup {[s EXCEPT ![i] = c] : s \in common, i \in 1..n, c \in OddCies}

\* Records behind which nothing can be: the first two lead out of the section,
\* the next two around the address space.
LongShapes ==
  {[PlainCie EXCEPT !.length = 100], [Shape("fde", 102) EXCEPT !.cie = 1],
   [PlainCie EXCEPT !.length = Space - 6], [Shape("fde", Space - 2) EXCEPT !.cie = 1],
   Shape("extended", Space - 1)}

Layout(shapes) ==
  LET start[i \in 1..Len(shapes)] ==
        IF i = 1 THEN 0 ELSE Aligned(start[i - 1] + 4 + shapes[i - 1].length)
  IN [i \in 1..Len(shapes) |-> [shapes[i] EXCEPT !.at = start[i]]]

\* Where a section may end whose last record is r.
Sizes(r) ==
  LET end == RecordEnd(r)
  IN {size \in {end, Aligned(end), Aligned(end) + 4, r.at + 12} :
        r.at + 4 < size /\ size <= Aligned(end) + 4 /\ size <= Top}

SmallSections ==
  {[records |-> <<>>, size |-> size] : size \in {0, 4}} \cup
  UNION {LET r == Layout(shapes)
         IN {[records |-> r, size |-> size] : size \in Sizes(r[Len(r)])} :
           shapes \in UNION {Sequences(n) : n \in 1..MaxRecords}
                        \cup {Append(before, last) : last \in LongShapes,
                                before \in UNION {Sequences(n) : n \in 0..(MaxRecords - 1)}}}
=============================================================================
