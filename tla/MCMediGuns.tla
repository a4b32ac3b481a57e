------------------------------ MODULE MCMediGuns ------------------------------
(***************************************************************************)
(* The medigun's class and another one that shares a table with it; tables *)
(* of up to two properties, in every order, three deep, with names that    *)
(* come twice and tables that are empty.                                   *)
(***************************************************************************)
EXTENDS MediGuns

Tables == {"Medigun", "Local", "Deep"}
Names == {"CWeaponMedigun", "CWeaponDeep", "DT_Local", "DT_Deep", "m_flChargeLevel", "m_iOther"}
TableNames == [t \in Tables |-> CASE t = "Local" -> "DT_Local" [] t = "Deep" -> "DT_Deep" [] OTHER -> "CWeaponMedigun"]
Classes == << [name |-> "CWeaponMedigun", table |-> "Medigun"],
              [name |-> "CWeaponDeep", table |-> "Local"] >>
MedigunCharge == <<"CWeaponMedigun", <<"DT_Local", "m_flChargeLevel">>>>

Value(name, offset) == [name |-> name, offset |-> offset, sub |-> NoTable]
Inside(table, offset) == [name |-> "m_iOther", offset |-> offset, sub |-> table]

UpToTwo(S) == SeqOf(S, 2)

\* "m_flChargeLevel" is in Medigun, Local and Deep at different offsets.
SmallLayouts ==
  {l \in [Tables -> UpToTwo({Value("m_flChargeLevel", 1), Value("m_flChargeLevel", 2),
                             Inside("Local", 1), Inside("Local", 4), Inside("Deep", 2)})] :
     /\ \A i \in 1..Len(l["Deep"]) : l["Deep"][i].sub = NoTable /\ Len(l["Deep"]) < 2
     /\ \A i \in 1..Len(l["Local"]) : l["Local"][i].sub # "Local"
     /\ \A i \in 1..Len(l["Medigun"]) : l["Medigun"][i] # Value("m_flChargeLevel", 2)}
=============================================================================
