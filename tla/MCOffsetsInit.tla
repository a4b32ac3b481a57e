---------------------------- MODULE MCOffsetsInit ----------------------------
(***************************************************************************)
(* Three libraries that are scanned, of which two have one base name, and  *)
(* one that is left out; an offset of every kind.                          *)
(***************************************************************************)
EXTENDS OffsetsInit

SmallBaseName ==
  [l \in Library |-> IF l \in {"game/client", "mod/client"} THEN "client" ELSE l]

SmallDefines ==
  [l \in Library |-> CASE l = "game/client" -> {"CEngine"}
                       [] l = "mod/client"  -> {"CEngine", "CTFCleaver"}
                       [] l = "tier0"       -> {"CTFCleaver"}
                       [] OTHER             -> {}]

SmallList ==
  << [kind |-> "vtable", name |-> "client", class |-> "CEngine"],
     [kind |-> "symbol", name |-> "tier0", class |-> "CEngine"],
     [kind |-> "offset", name |-> "client", class |-> "CEngine"],
     [kind |-> "signature", name |-> "tier0", class |-> "CEngine"] >>
=============================================================================
