----------------------------- MODULE MediGunsProofs -----------------------------
(***************************************************************************)
(* Proofs about MediGuns, for any tables that are not in themselves, any   *)
(* list of classes, any number of guns and calls, and any charges.         *)
(***************************************************************************)
EXTENDS MediGuns, ClientClassesProofs

\* The offset of the charge in a map of the classes.
ChargeIn(map) == IF ChargeKey \in DOMAIN map THEN map[ChargeKey] ELSE None

\* The module comes after the classes, whose map is then what they should be
\* flattened to.
OInv ==
  /\ IInv /\ MapRight
  /\ mod \in {"none", "made", "failed"}
  /\ chargeAt = ChargeIn(Flat(props, Len(ClassList)))
  /\ charge_val_offset \in Int \cup {None}
  /\ OffsetFound

LEMMA InitOInv == Init => OInv
<1> SUFFICES ASSUME Init  PROVE OInv
  OBVIOUS
<1>1. IInv /\ MapRight
  BY InitIInv, InitRight DEF Init
<1> QED  BY <1>1 DEF Init, OInv, ChargeIn, OffsetFound

LEMMA MakePreserves == OInv /\ MakeModule => OInv'
<1> SUFFICES ASSUME OInv, MakeModule  PROVE OInv'
  OBVIOUS
<1>1. UNCHANGED <<props, class, frames, control, clientclasses, chargeAt>>
  BY DEF MakeModule, classVars, tableVars
<1>2. UNCHANGED classVars
  BY DEF MakeModule
<1>3. (IInv /\ MapRight)'
  BY <1>2, StepIInv, StepRight DEF OInv
<1>4. frames = <<>> /\ class - 1 = Len(ClassList)
  <2>1. class \in 1..(Len(ClassList) + 1) /\ class > Len(ClassList) /\ Len(ClassList) \in Nat
    BY ClassAssumption DEF OInv, IInv, TypeOK, MakeModule
  <2> QED  BY <2>1 DEF OInv, IInv, Linked
<1>5. clientclasses = Flat(props, Len(ClassList))
  BY <1>4, MapBetween DEF OInv
<1>6. charge_val_offset' = chargeAt
  BY <1>5 DEF OInv, MakeModule, OffsetOf, ChargeIn
<1>7. charge_val_offset' \in Int \cup {None}
  <2>1. \A k \in DOMAIN clientclasses : clientclasses[k] \in Int
    BY DEF OInv, IInv, TypeOK
  <2> QED  BY <2>1 DEF MakeModule, OffsetOf
<1>8. mod' \in {"none", "made", "failed"}
  BY DEF MakeModule
<1>9. chargeAt' = ChargeIn(Flat(props', Len(ClassList)))
  BY <1>1 DEF OInv
<1> QED  BY <1>1, <1>3, <1>6, <1>7, <1>8, <1>9 DEF OInv, OffsetFound

\* The module makes its classes as ClassSpec does, and leaves them alone then.
LEMMA StepIsClassStep == [Next]_vars => [ClassStep]_classVars
<1> SUFFICES ASSUME Next  PROVE ClassStep \/ UNCHANGED classVars
  BY DEF vars
<1> QED
  BY DEF Next, BuildClasses, MakeModule, Leave, Enter, ChargeChanges, SetDump

LEMMA StepOInv == OInv /\ [Next]_vars => OInv'
<1> SUFFICES ASSUME OInv, [Next]_vars  PROVE OInv'
  OBVIOUS
<1>1. CASE MakeModule
  BY <1>1, MakePreserves
<1>2. CASE ~MakeModule
  <2>1. (IInv /\ MapRight)'
    BY StepIsClassStep, StepIInv, StepRight DEF OInv
  <2>2. UNCHANGED modVars
    BY <1>2 DEF Next, BuildClasses, Leave, Enter, ChargeChanges, SetDump, vars
  <2>3. props' = props
    BY StepIsClassStep DEF ClassStep, BeginClass, OpenTable, YieldProp, PassOn, EndTable,
       Insert, Yields, tableVars, classVars
  <2>4. UNCHANGED <<mod, charge_val_offset, chargeAt>>
    BY <2>2 DEF modVars
  <2>5. chargeAt' = ChargeIn(Flat(props', Len(ClassList)))
    BY <2>3, <2>4 DEF OInv
  <2> QED  BY <2>1, <2>4, <2>5 DEF OInv, OffsetFound
<1> QED  BY <1>1, <1>2

-----------------------------------------------------------------------------
\* A call that no other one overlaps is the only one in progress, and the
\* member holds what its gun's charge was.
MInv ==
  /\ call \in [Call -> Gun \cup {None}]
  /\ before \in [Call -> Charge] /\ alone \in [Call -> BOOLEAN]
  /\ charge \in [Gun -> Charge]
  /\ \A c \in Call : call[c] # None => mod = "made"
  /\ \A c \in Call : alone[c] =>
       /\ call[c] # None /\ charge_val = before[c]
       /\ \A d \in Call : d # c => call[d] = None

LEMMA InitMInv == Init => MInv
  BY MediAssumption DEF Init, MInv

LEMMA EnterPreserves ==
  ASSUME MInv, OffsetFound, NEW c \in Call, NEW g \in Gun, Enter(c, g)
  PROVE  MInv'
<1>1. charge_val' = charge[g] /\ mod = "made" /\ call[c] = None /\ UNCHANGED <<mod, charge>>
  BY DEF OffsetFound, Enter, Kept, Field, modVars, gameVars
<1>2. /\ call' \in [Call -> Gun \cup {None}] /\ before' \in [Call -> Charge]
      /\ alone' \in [Call -> BOOLEAN]
  BY DEF MInv, Enter
<1>3. ASSUME NEW d \in Call, alone'[d]
      PROVE  /\ call'[d] # None /\ charge_val' = before'[d]
             /\ \A e \in Call : e # d => call'[e] = None
  <2>1. d = c /\ \A e \in Call : call[e] = None
    BY <1>3 DEF Enter
  <2>2. call'[c] = g /\ before'[c] = charge[g] /\ \A e \in Call : e # c => call'[e] = call[e]
    BY DEF MInv, Enter
  <2> QED  BY <1>1, <2>1, <2>2, MediAssumption
<1> QED  BY <1>1, <1>2, <1>3 DEF MInv

LEMMA LeavePreserves ==
  ASSUME MInv, NEW c \in Call, Leave(c)
  PROVE  MInv'
<1>1. UNCHANGED <<mod, charge, charge_val>> /\ mod = "made" /\ call[c] # None
  BY DEF MInv, Leave, modVars, gameVars
<1>2. /\ call' \in [Call -> Gun \cup {None}] /\ before' \in [Call -> Charge]
      /\ alone' \in [Call -> BOOLEAN]
  BY MediAssumption DEF MInv, Leave
<1>3. \A d \in Call : ~alone'[d]
  <2> SUFFICES ASSUME NEW d \in Call, alone'[d]  PROVE FALSE
    OBVIOUS
  <2>1. d # c /\ alone[d]
    BY DEF MInv, Leave
  <2> QED  BY <1>1, <2>1 DEF MInv
<1> QED  BY <1>1, <1>2, <1>3 DEF MInv

LEMMA StepMInv == MInv /\ OffsetFound /\ [Next]_vars => MInv'
<1> SUFFICES ASSUME MInv, OffsetFound, [Next]_vars  PROVE MInv'
  OBVIOUS
<1>1. CASE BuildClasses
  BY <1>1 DEF BuildClasses, MInv, modVars, gameVars, callVars
<1>2. CASE MakeModule
  <2>1. mod = "none" /\ UNCHANGED <<charge, charge_val, call, before, alone>>
    BY <1>2 DEF MakeModule, gameVars, callVars
  <2>2. \A c \in Call : call[c] = None
    BY <2>1 DEF MInv
  <2> QED  BY <2>1, <2>2 DEF MInv
<1>3. ASSUME NEW c \in Call, Leave(c)  PROVE MInv'
  BY <1>3, LeavePreserves
<1>4. ASSUME NEW c \in Call, NEW g \in Gun, Enter(c, g)  PROVE MInv'
  BY <1>4, EnterPreserves
<1>5. ASSUME NEW g \in Gun, NEW v \in Charge, ChargeChanges(g, v)  PROVE MInv'
  BY <1>5 DEF ChargeChanges, MInv, modVars, callVars
<1>6. CASE SetDump
  BY <1>6 DEF SetDump, MInv, modVars, callVars
<1>7. CASE UNCHANGED vars
  BY <1>7 DEF vars, MInv, modVars, gameVars, callVars
<1> QED  BY <1>1, <1>2, <1>3, <1>4, <1>5, <1>6, <1>7 DEF Next

\* The members that are of a type and nothing more.
TInv == charge_val \in Charge /\ dump_medigun \in BOOLEAN

Inv == OInv /\ MInv /\ TInv

LEMMA InitInv == Init => Inv
  BY InitOInv, InitMInv, MediAssumption DEF Init, Inv, TInv

LEMMA StepInv == Inv /\ [Next]_vars => Inv'
<1> SUFFICES ASSUME Inv, [Next]_vars  PROVE Inv'
  OBVIOUS
<1>1. OInv' /\ MInv'
  BY StepOInv, StepMInv DEF Inv, OInv
<1>2. TInv'
  <2>1. ASSUME NEW c \in Call, NEW g \in Gun, Enter(c, g)  PROVE TInv'
    <3>1. Field(g) \in Charge
      BY <2>1 DEF Inv, OInv, MInv, OffsetFound, Enter, Field
    <3> QED  BY <2>1, <3>1 DEF Enter, Kept, gameVars, Inv, TInv
  <2>2. CASE SetDump
    BY <2>2 DEF SetDump, Inv, TInv
  <2>3. CASE UNCHANGED <<charge_val, dump_medigun>>
    BY <2>3 DEF Inv, TInv
  <2>4. \/ UNCHANGED <<charge_val, dump_medigun>>
        \/ SetDump \/ \E c \in Call, g \in Gun : Enter(c, g)
    BY DEF Next, BuildClasses, MakeModule, Leave, ChargeChanges, vars, gameVars
  <2> QED  BY <2>1, <2>2, <2>3, <2>4
<1> QED  BY <1>1, <1>2 DEF Inv

LEMMA ModuleInductive == Spec => []Inv
  BY InitInv, StepInv, PTL DEF Spec

-----------------------------------------------------------------------------
\* The module reads the charge of a gun where the game keeps it, for any
\* tables that are not in themselves, however deep, and any list of classes.
THEOREM FindsOffset == Spec => []OffsetFound
<1>1. Inv => OffsetFound
  BY DEF Inv, OInv
<1> QED  BY <1>1, ModuleInductive, PTL

\* The offset that the module has is one of the game's classes or missing, and
\* the charge it keeps is a charge.
THEOREM ModuleTypeCorrect == Spec => []ModuleTypeOK
<1>1. Inv => ModuleTypeOK
  <2> SUFFICES ASSUME Inv  PROVE ModuleTypeOK
    OBVIOUS
  <2>1. chargeAt \in Int \cup {None}
    <3>1. props \in Layouts /\ Len(ClassList) \in Int
      BY ClassAssumption DEF Inv, OInv, MapRight
    <3>2. ChargeKey \in DOMAIN Flat(props, Len(ClassList)) => Flat(props, Len(ClassList))[ChargeKey] \in Int
      BY <3>1, FlatType
    <3> QED  BY <3>2 DEF Inv, OInv, ChargeIn
  <2> QED  BY <2>1 DEF Inv, OInv, MInv, TInv, IInv, ModuleTypeOK
<1> QED  BY <1>1, ModuleInductive, PTL

\* Each call that no other one overlaps is printed with its own gun's charge,
\* before and after, for any number of guns and calls in progress.
THEOREM OwnCharge == Spec => PrintsOwnCharge
<1> DEFINE Printed == \A c \in Call : Leave(c) /\ dump_medigun /\ alone[c] =>
                        Line(c) = <<before[c], charge[call[c]]>>
<1>1. Inv => Printed
  <2> SUFFICES ASSUME Inv, NEW c \in Call, Leave(c), alone[c]
               PROVE  Line(c) = <<before[c], charge[call[c]]>>
    OBVIOUS
  <2>1. mod = "made" /\ charge_val = before[c]
    BY DEF Inv, MInv
  <2> QED  BY <2>1 DEF Inv, OInv, OffsetFound, Line, Field
<1>2. Inv => [Printed]_vars
  BY <1>1
<1> QED  BY <1>2, ModuleInductive, PTL DEF PrintsOwnCharge

\* The classes that the module is made from are built as ClassSpec builds
\* them, so that they are flattened right, and nothing changes them later.
THEOREM BuildsClasses == Spec => ClassSpec /\ Flattened
<1>1. Init => ClassInit
  BY DEF Init
<1>2. Spec => ClassSpec
  BY <1>1, StepIsClassStep, PTL DEF Spec, ClassSpec
<1> QED  BY <1>2, FlattensRight, PTL
=============================================================================
