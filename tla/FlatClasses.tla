------------------------------ MODULE FlatClasses ------------------------------
(***************************************************************************)
(* What the classes of ClientClasses should be flattened to, as a          *)
(* definition without coroutines: every route from the table of a class    *)
(* down to a value gives the class a name, at the sum of the offsets on    *)
(* the way; of two routes with one name, the later one counts.  l is what  *)
(* the tables hold.                                                        *)
(***************************************************************************)
EXTENDS ClientClasses, SequencesExt

\* No table is in itself, however deep: each has a level, above those of the
\* tables in it. (parse_tbl would never come to the end of such a table.)
ASSUME NestingAssumption ==
  /\ IsFiniteSet(Table)
  /\ \A l \in Layouts : \E level \in [Table -> 1..Cardinality(Table)] :
       \A t \in Table : \A i \in 1..Len(l[t]) :
         l[t][i].sub # NoTable => level[l[t][i].sub] < level[t]

Positions(l) == UNION {{[table |-> t, idx |-> i] : i \in 1..Len(l[t])} : t \in Table}

PropAt(l, p) == l[p.table][p.idx]

\* The ways down from a table to a value.
Routes(l, table) ==
  {r \in SeqOf(Positions(l), Cardinality(Table)) :
     /\ r # <<>> /\ r[1].table = table
     /\ PropAt(l, r[Len(r)]).sub = NoTable
     /\ \A k \in 1..(Len(r) - 1) : PropAt(l, r[k]).sub = r[k + 1].table}

RouteName(l, r) ==
  [k \in 1..Len(r) |->
     IF k < Len(r) THEN TableName[r[k + 1].table] ELSE PropAt(l, r[k]).name]

\* from[k] is the sum of the offsets from the k-th property on.
RouteOffset(l, r) ==
  LET from[k \in 1..Len(r)] ==
        PropAt(l, r[k]).offset + (IF k = Len(r) THEN 0 ELSE from[k + 1])
  IN from[1]

\* r comes before s in their table.
Precedes(r, s) ==
  \E k \in 1..Len(r) :
    /\ k <= Len(s) /\ r[k].idx < s[k].idx
    /\ \A j \in 1..(k - 1) : r[j] = s[j]

\* The routes of the first n classes, their names, and their order.
Found(l, n) == UNION {{<<c, r>> : r \in Routes(l, ClassList[c].table)} : c \in 1..n}
KeyOf(l, f) == <<ClassList[f[1]].name, RouteName(l, f[2])>>
Before(f, g) == f[1] < g[1] \/ (f[1] = g[1] /\ Precedes(f[2], g[2]))

\* f is the last of the routes in D that have its name.
IsLast(l, D, f) == \A g \in D : KeyOf(l, g) = KeyOf(l, f) => g = f \/ Before(g, f)

\* The offsets of the first n classes.
Flat(l, n) ==
  LET found == Found(l, n)
      Final(key) == CHOOSE f \in found : KeyOf(l, f) = key /\ IsLast(l, found, f)
  IN [key \in {KeyOf(l, f) : f \in found} |-> RouteOffset(l, Final(key)[2])]

\* When a class is done with, the map holds what the classes up to it should
\* be flattened to: no value is lost, none gets the name or the offset of
\* another, and names that come twice have the offset of the last.
Flattened == [][class' # class => clientclasses' = Flat(props, class)]_classVars
=============================================================================
