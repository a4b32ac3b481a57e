----------------------------- MODULE RangeStream -----------------------------
(***************************************************************************)
(* What a range over a stream promises the loop that runs over it: the     *)
(* values on offer come one by one and in order, and the loop comes to its *)
(* end, or gets an exception, only after the last of them.  A loop that    *)
(* has taken a value may also give up.  How the values are made, and how   *)
(* many generators pass them on, is not seen.                              *)
(* EhFrame implements this specification (StreamSpec in EhFrame).          *)
(***************************************************************************)
EXTENDS Integers, Sequences

VARIABLES
  offered,   \* the values of the stream
  fails,     \* whether an exception comes behind them
  got,       \* the values taken
  loop       \* "open", "ended", "failed" or "abandoned"

streamVars == <<offered, fails, got, loop>>

StreamInit == offered \subseteq Nat /\ fails \in BOOLEAN /\ got = <<>> /\ loop = "open"

Delivered == {got[k] : k \in 1..Len(got)}

\* The next value is the least that was not taken.
Deliver(v) ==
  /\ loop = "open"
  /\ v \notin Delivered /\ {w \in offered : w < v} \subseteq Delivered
  /\ got' = Append(got, v)
  /\ UNCHANGED <<offered, fails, loop>>

End ==
  /\ loop = "open"
  /\ offered \subseteq Delivered
  /\ loop' = IF fails THEN "failed" ELSE "ended"
  /\ UNCHANGED <<offered, fails, got>>

Abandon ==
  /\ loop = "open"
  /\ got # <<>>
  /\ loop' = "abandoned"
  /\ UNCHANGED <<offered, fails, got>>

StreamNext == (\E v \in offered : Deliver(v)) \/ End \/ Abandon

\* A stream ends: the loop is not left waiting for a value.
StreamEnds == <>(loop # "open")

StreamSpec == StreamInit /\ [][StreamNext]_streamVars /\ StreamEnds
=============================================================================
