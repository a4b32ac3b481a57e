-------------------------------- MODULE MediGuns --------------------------------
(***************************************************************************)
(* The module of modules/mediguns.cpp: it takes the offset of a gun's      *)
(* charge from the classes of the game, and prints the charge before and   *)
(* after each call of FindAndHealTargets.  The charge before is kept in    *)
(* one member until the call returns.                                      *)
(*                                                                         *)
(* Calls may be in progress together: one inside another, or on threads.   *)
(***************************************************************************)
EXTENDS FlatClasses

CONSTANTS
  Gun,
  Charge,      \* values of a charge
  Call,        \* calls that may be in progress together
  ChargeKey,   \* CWeaponMedigun, DT_LocalTFWeaponMedigunData::m_flChargeLevel
  Other,       \* what is in the other fields of a gun
  None

ASSUME MediAssumption ==
  /\ Other \notin Charge /\ 0 \in Charge
  /\ ChargeKey \in Name \X Seq(Name)
  /\ None \notin Int /\ None \notin Gun

VARIABLES
  mod,                 \* the module: none, made, or its constructor threw
  charge_val_offset,
  chargeAt,            \* where the game keeps the charge of a gun
  charge,
  charge_val,
  dump_medigun,
  call,                \* the gun of each call
  before,              \* what its charge was when the call began
  alone                \* no other call was in progress meanwhile

modVars == <<mod, charge_val_offset, chargeAt>>
gameVars == <<charge, dump_medigun>>
callVars == <<call, before, alone>>
vars == <<classVars, modVars, gameVars, charge_val, callVars>>

\* The module reads the charge and not another field.
OffsetFound == mod = "made" => charge_val_offset = chargeAt

ModuleTypeOK ==
  /\ TypeOK /\ OffsetFound
  /\ mod \in {"none", "made", "failed"}
  /\ charge_val_offset \in Int \cup {None} /\ chargeAt \in Int \cup {None}
  /\ charge \in [Gun -> Charge] /\ charge_val \in Charge
  /\ dump_medigun \in BOOLEAN
  /\ call \in [Call -> Gun \cup {None}]
  /\ before \in [Call -> Charge] /\ alone \in [Call -> BOOLEAN]

Init ==
  /\ ClassInit
  /\ mod = "none" /\ charge_val_offset = None
  /\ chargeAt = LET all == Flat(props, Len(ClassList))
                IN IF ChargeKey \in DOMAIN all THEN all[ChargeKey] ELSE None
  /\ charge = [g \in Gun |-> 0] /\ charge_val = 0
  /\ dump_medigun = FALSE
  /\ call = [c \in Call |-> None]
  /\ before = [c \in Call |-> 0] /\ alone = [c \in Call |-> FALSE]

-----------------------------------------------------------------------------
\* The constructor of the class manager, before any module.
BuildClasses == ClassStep /\ UNCHANGED <<modVars, gameVars, charge_val, callVars>>

\* Mutant of OffsetOf: operator[] takes the place of at().
OffsetOrZero(key) == IF key \in DOMAIN clientclasses THEN clientclasses[key] ELSE 0

\* What get_prop_offset returns; at() throws for a name that is not there.
OffsetOf(key) == IF key \in DOMAIN clientclasses THEN clientclasses[key] ELSE None

\* The constructor of the module.
MakeModule ==
  /\ class > Len(ClassList) /\ mod = "none"
  /\ charge_val_offset' = OffsetOf(ChargeKey)
  /\ mod' = IF OffsetOf(ChargeKey) = None THEN "failed" ELSE "made"
  /\ UNCHANGED <<classVars, chargeAt, gameVars, charge_val, callVars>>

\* What is in gun g at the offset of the module.
Field(g) == IF charge_val_offset = chargeAt THEN charge[g] ELSE Other

\* Mutant of Kept: the charge is taken only if the call is to be printed.
KeptIfDumped(g) == IF dump_medigun THEN Field(g) ELSE charge_val

\* The charge that is kept of a gun.
Kept(g) == Field(g)

\* A call for gun g begins.
Enter(c, g) ==
  /\ mod = "made" /\ call[c] = None
  /\ charge_val' = Kept(g)
  /\ call' = [call EXCEPT ![c] = g] /\ before' = [before EXCEPT ![c] = charge[g]]
  /\ alone' = [d \in Call |-> d = c /\ \A e \in Call : call[e] = None]
  /\ UNCHANGED <<classVars, modVars, gameVars>>

\* What is printed at the end of call c: OLD and NEW.
Line(c) == <<charge_val, Field(call[c])>>

\* The call ends, and is printed if that is switched on.
Leave(c) ==
  /\ call[c] # None
  /\ call' = [call EXCEPT ![c] = None] /\ before' = [before EXCEPT ![c] = 0]
  /\ alone' = [alone EXCEPT ![c] = FALSE]
  /\ UNCHANGED <<classVars, modVars, gameVars, charge_val>>

\* The game changes a charge, in a call or outside. (Before the module is
\* there, nobody looks.)
ChargeChanges(g, v) ==
  /\ mod = "made" /\ v # charge[g]
  /\ charge' = [charge EXCEPT ![g] = v]
  /\ UNCHANGED <<classVars, modVars, dump_medigun, charge_val, callVars>>

\* fh_dump_mediguns is set.
SetDump ==
  /\ mod = "made"
  /\ dump_medigun' = ~dump_medigun
  /\ UNCHANGED <<classVars, modVars, charge, charge_val, callVars>>

Next ==
  \/ BuildClasses \/ MakeModule
  \/ \E c \in Call : Leave(c) \/ \E g \in Gun : Enter(c, g)
  \/ \E g \in Gun, v \in Charge : ChargeChanges(g, v)
  \/ SetDump

Spec == Init /\ [][Next]_vars

-----------------------------------------------------------------------------
\* A call that no other one overlaps is printed with the charge that its own
\* gun had when it began and has now, whatever was switched on or off and
\* whichever guns were called for before. (Calls that overlap share the one
\* member, and print each other's.)
PrintsOwnCharge ==
  [][\A c \in Call : Leave(c) /\ dump_medigun /\ alone[c] =>
       Line(c) = <<before[c], charge[call[c]]>>]_vars
=============================================================================
