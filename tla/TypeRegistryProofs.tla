------------------------- MODULE TypeRegistryProofs -------------------------
(***************************************************************************)
(* What holds of TypeRegistry for any groups, modules, collections,        *)
(* handles and entries, if no module is dropped while an unlocked drop of  *)
(* one of its entries waits for the lock: the inductive invariant, that    *)
(* every step keeps it, and what follows from it.                          *)
(***************************************************************************)
EXTENDS TypeRegistry, FiniteSetTheorems, TLAPS

\* Which groups of collection c are in its rec_groups, by its state.
Present(c, g) ==
  \E j \in 1..Len(Groups[cmod[c]]) :
    /\ Groups[cmod[c]][j] = g
    /\ CASE cst[c] = "registering" -> j < writer.i
         [] cst[c] = "dropping"    -> j >= writer.i
         [] OTHER                  -> cst[c] = "loaded"

\* The lock holder and the collections agree; only a removal uses the stack.
LockInv ==
  /\ writer.op = "register" => cst[writer.c] = "registering"
  /\ writer.op = "drop" => cst[writer.c] = "dropping"
  /\ writer.op \in {"register", "drop"} => writer.i \in 1..(Len(Groups[cmod[writer.c]]) + 1)
  /\ \A c \in Coll : cst[c] = "registering" => writer.op = "register" /\ writer.c = c
  /\ \A c \in Coll : cst[c] = "dropping" => writer.op = "drop" /\ writer.c = c
  /\ dropStack # {} => writer.op \in {"drop", "unregister"}

RecInv ==
  \A c \in Coll, g \in Group :
    /\ rec[c][g] # NoEntry <=> Present(c, g)
    /\ rec[c][g] # NoEntry => rec[c][g] \in consMap /\ shape[rec[c][g]] = g

\* The slab, the reverse map and the entries' own index lists agree.
EntryInv ==
  /\ slab = DOMAIN revMap
  /\ \A e \in consMap :
       /\ DOMAIN types[e] = 1..Size[shape[e]]
       /\ \A p \in 1..Size[shape[e]] : types[e][p] \in slab /\ revMap[types[e][p]] = e
       /\ DOMAIN refs[e] = DOMAIN CrossRefs[shape[e]]
       /\ \A k \in DOMAIN refs[e] : refs[e][k] \in slab
  /\ \A i \in slab : revMap[i] \in consMap /\ \E p \in 1..Size[shape[revMap[i]]] : types[revMap[i]][p] = i

KeyInv == \A e, f \in consMap : Key(e) = Key(f) => e = f

\* The key of a collection's entry is made from the collection's own entries.
CanonInv ==
  \A c \in Coll, g \in Group :
    cst[c] \in {"registering", "loaded"} /\ rec[c][g] # NoEntry =>
      refs[rec[c][g]] = CanonRefs(c, g)

HandleInv == \A h \in Handle : hst[h] # "none" => hent[h] \in consMap

\* Entry e belongs to a module that is not being dropped.
Kept(e) == \E c \in Coll, g \in Group : rec[c][g] = e /\ cst[c] \in {"registering", "loaded"}

\* Entries without registrations are on their way out, each by one path only;
\* one that was registered again meanwhile belongs to a module that stays.
PendingInv ==
  /\ dropStack \subseteq consMap
  /\ \A e \in consMap : regs[e] = 0 => e \in dropStack \/ \E h \in Handle : hst[h] = "zero" /\ hent[h] = e
  /\ \A h, k \in Handle : hst[h] = "zero" /\ hst[k] = "zero" /\ hent[h] = hent[k] => h = k
  /\ \A h \in Handle : hst[h] = "zero" => hent[h] \notin dropStack
  /\ \A h \in Handle : hst[h] = "zero" /\ regs[hent[h]] # 0 => Kept(hent[h])
  /\ \A e \in dropStack : regs[e] # 0 => Kept(e)

SameGroupSameEntry ==
  \A c, d \in Coll, g \in Group :
    rec[c][g] # NoEntry /\ rec[d][g] # NoEntry => rec[c][g] = rec[d][g]

IInv ==
  /\ TypeOK /\ NeverFails /\ LockInv /\ RecInv /\ EntryInv /\ KeyInv /\ CanonInv
  /\ HandleInv /\ PendingInv /\ CountsExact /\ SameGroupSameEntry

-----------------------------------------------------------------------------
(***************************************************************************)
(* Facts about the holders of an entry.                                    *)
(***************************************************************************)
\* The edge positions of all groups together are finitely many.
LEMMA EdgePosFinite == IsFiniteSet(EdgePos)
<1> DEFINE D == {DOMAIN CrossRefs[g] : g \in Group}
           f == [g \in Group |-> DOMAIN CrossRefs[g]]
<1>1. f \in Surjection(Group, D)
  BY Zenon DEF Surjection
<1>2. IsFiniteSet(D)
  BY <1>1, FS_Surjection, GroupAssumption, Zenon
<1>3. \A T \in D : IsFiniteSet(T)
  <2> SUFFICES ASSUME NEW g \in Group PROVE IsFiniteSet(DOMAIN CrossRefs[g])
    BY Zenon
  <2>1. CrossRefs[g] \in Seq([grp : Group, pos : Nat])
    BY GroupAssumption, Zenon
  <2>2. DOMAIN CrossRefs[g] = 1..Len(CrossRefs[g]) /\ Len(CrossRefs[g]) \in Nat
    BY <2>1
  <2> QED BY <2>2, FS_Interval
<1> QED BY <1>2, <1>3, FS_UNION, Zenon DEF EdgePos

\* An entry has finitely many holders of each kind, so its count is a number.
LEMMA HoldersFinite ==
  ASSUME TypeOK, NEW e
  PROVE  /\ IsFiniteSet(CollHolders(e)) /\ Cardinality(CollHolders(e)) \in Nat
         /\ IsFiniteSet(HandleHolders(e)) /\ Cardinality(HandleHolders(e)) \in Nat
         /\ IsFiniteSet(EdgeHolders(e)) /\ Cardinality(EdgeHolders(e)) \in Nat
<1>1. IsFiniteSet(Coll \X Group)
  BY FS_Product, GroupAssumption, Zenon
<1>2. IsFiniteSet(consMap)
  BY FS_Subset, GroupAssumption, Zenon DEF TypeOK
<1>3. IsFiniteSet(consMap \X EdgePos)
  BY <1>2, EdgePosFinite, FS_Product, Zenon
<1>4. IsFiniteSet(CollHolders(e))
  BY <1>1, FS_Subset, Zenon DEF CollHolders
<1>5. IsFiniteSet(HandleHolders(e))
  BY FS_Subset, GroupAssumption, Zenon DEF HandleHolders
<1>6. IsFiniteSet(EdgeHolders(e))
  BY <1>3, FS_Subset, Zenon DEF EdgeHolders
<1> QED BY <1>4, <1>5, <1>6, FS_CardinalityType, Zenon

\* An entry whose count is zero has no holder of any kind.
LEMMA ZeroHasNoHolder ==
  ASSUME TypeOK, CountsExact, NEW e \in consMap, regs[e] = 0
  PROVE  CollHolders(e) = {} /\ HandleHolders(e) = {} /\ EdgeHolders(e) = {}
<1>1. /\ Cardinality(CollHolders(e)) = 0
      /\ Cardinality(HandleHolders(e)) = 0
      /\ Cardinality(EdgeHolders(e)) = 0
  BY HoldersFinite DEF CountsExact
<1> QED BY <1>1, HoldersFinite, FS_EmptySet, Zenon

\* An entry with a holder in hand has a positive count.
LEMMA HeldIsCounted ==
  ASSUME TypeOK, CountsExact, NEW e \in consMap,
         CollHolders(e) # {} \/ HandleHolders(e) # {} \/ EdgeHolders(e) # {}
  PROVE  regs[e] # 0
BY ZeroHasNoHolder, Zenon

\* An entry of a module that stays is held by that module's collection.
LEMMA KeptIsHeld ==
  ASSUME NEW e, Kept(e)
  PROVE  CollHolders(e) # {}
<1> PICK c \in Coll, g \in Group : rec[c][g] = e
  BY Zenon DEF Kept
<1> <<c, g>> \in CollHolders(e)
  BY Zenon DEF CollHolders
<1> QED BY Zenon

-----------------------------------------------------------------------------
(***************************************************************************)
(* The inductive invariant holds initially.                                *)
(***************************************************************************)
LEMMA InitIInv == Init => IInv
<1> SUFFICES ASSUME Init PROVE IInv
  BY Zenon
<1>1. TypeOK
  BY GroupAssumption, ModuleAssumption DEF Init, TypeOK, States, Idle
<1>2. NeverFails /\ LockInv
  BY Zenon DEF Init, NeverFails, LockInv, Idle
<1>3. RecInv
  BY Zenon DEF Init, RecInv, Present
<1>4. EntryInv /\ KeyInv /\ CountsExact
  BY Zenon DEF Init, EntryInv, KeyInv, CountsExact
<1>5. CanonInv /\ HandleInv /\ PendingInv /\ SameGroupSameEntry
  BY Zenon DEF Init, CanonInv, HandleInv, PendingInv, Kept, SameGroupSameEntry
<1> QED BY <1>1, <1>2, <1>3, <1>4, <1>5, Zenon DEF IInv

-----------------------------------------------------------------------------
(***************************************************************************)
(* Steps that leave entries, counts and rec_groups alone.                  *)
(***************************************************************************)
\* Counts stay exact when neither they nor any holder changes.
LEMMA SameCounts ==
  ASSUME CountsExact,
         UNCHANGED <<consMap, revMap, refs, regs, rec>>,
         \A h \in Handle : (hst[h] = "held" <=> hst'[h] = "held"),
         \A h \in Handle : hst[h] = "held" => hent'[h] = hent[h]
  PROVE  CountsExact'
<1> SUFFICES ASSUME NEW e \in consMap
             PROVE  /\ CollHolders(e)' = CollHolders(e)
                    /\ HandleHolders(e)' = HandleHolders(e)
                    /\ EdgeHolders(e)' = EdgeHolders(e)
  BY Zenon DEF CountsExact
<1> QED BY Zenon DEF CollHolders, HandleHolders, EdgeHolders, RefsTo

LEMMA StepRegisterModuleTypes ==
  ASSUME IInv, NEW c \in Coll, NEW m \in Module, RegisterModuleTypes(c, m)
  PROVE  IInv'
<1> USE DEF IInv, RegisterModuleTypes, regVars, entryVars, hndVars, Idle
<1>1. TypeOK'
  BY Zenon DEF TypeOK, States
<1>2. NeverFails' /\ LockInv'
  BY ModuleAssumption, SMTT(30) DEF NeverFails, LockInv, TypeOK
<1>3. RecInv'
  <2> SUFFICES ASSUME NEW d \in Coll, NEW g \in Group
               PROVE  Present(d, g)' <=> Present(d, g)
    BY Zenon DEF RecInv
  <2>1. /\ cst[c] = "absent" /\ cst'[c] = "registering" /\ writer'.i = 1
        /\ Groups[cmod'[c]] \in Seq(Group)
    BY ModuleAssumption, Zenon DEF TypeOK
  <2>2. d # c => cst'[d] = cst[d] /\ cmod'[d] = cmod[d]
    BY Zenon DEF TypeOK
  <2>3. cst[d] # "registering" /\ cst[d] # "dropping"
    BY DEF LockInv
  <2> HIDE DEF IInv, RegisterModuleTypes
  <2>4. CASE d = c
    BY <2>1, <2>4 DEF Present
  <2>5. CASE d # c
    BY <2>2, <2>3, <2>5 DEF Present
  <2> QED BY <2>4, <2>5, Zenon
<1>4. EntryInv' /\ KeyInv' /\ HandleInv' /\ SameGroupSameEntry'
  BY DEF EntryInv, KeyInv, Key, HandleInv, SameGroupSameEntry
<1>5. CanonInv'
  <2>1. \A d \in Coll, g \in Group : CanonRefs(d, g)' = CanonRefs(d, g)
    BY Zenon DEF CanonRefs
  <2>2. \A g \in Group : rec[c][g] = NoEntry
    BY Zenon DEF RecInv, Present
  <2> QED BY <2>1, <2>2, Zenon DEF CanonInv, TypeOK
<1>6. PendingInv'
  BY DEF PendingInv, Kept, TypeOK
<1>7. CountsExact'
  BY SameCounts, Zenon
<1> QED BY <1>1, <1>2, <1>3, <1>4, <1>5, <1>6, <1>7, Zenon

\* A collection's entries and their keys survive when only states change.
LEMMA SameCanon ==
  ASSUME CanonInv, UNCHANGED <<refs, types, rec>>,
         \A d \in Coll : cst'[d] \in {"registering", "loaded"}
                           => cst[d] \in {"registering", "loaded"}
  PROVE  CanonInv'
<1>1. \A d \in Coll, g \in Group : CanonRefs(d, g)' = CanonRefs(d, g)
  BY Zenon DEF CanonRefs
<1> QED BY <1>1, Zenon DEF CanonInv

LEMMA StepRegisterDone ==
  ASSUME IInv, RegisterDone
  PROVE  IInv'
<1> USE DEF IInv, RegisterDone, regVars, entryVars, hndVars, Idle
<1>1. TypeOK'
  BY Zenon DEF TypeOK, States
<1>2. NeverFails' /\ LockInv'
  BY ModuleAssumption, Zenon DEF NeverFails, LockInv, TypeOK
<1>3. RecInv'
  <2> SUFFICES ASSUME NEW d \in Coll, NEW g \in Group
               PROVE  Present(d, g)' <=> Present(d, g)
    BY Zenon DEF RecInv
  <2>1. CASE d = writer.c
    <3>1. cst[d] = "registering" /\ cst'[d] = "loaded" /\ Groups[cmod[d]] \in Seq(Group)
      BY <2>1, ModuleAssumption DEF LockInv, TypeOK
    <3>2. \A j \in 1..Len(Groups[cmod[d]]) : j < writer.i
      BY <2>1, <3>1 DEF LockInv
    <3> QED BY <3>1, <3>2 DEF Present
  <2>2. CASE d # writer.c
    <3>1. cst'[d] = cst[d] /\ cst[d] # "registering" /\ cst[d] # "dropping"
      BY <2>2 DEF LockInv, TypeOK
    <3> QED BY <3>1 DEF Present
  <2> QED BY <2>1, <2>2, Zenon
<1>4. EntryInv' /\ KeyInv' /\ HandleInv' /\ SameGroupSameEntry'
  BY DEF EntryInv, KeyInv, Key, HandleInv, SameGroupSameEntry
<1>5. CanonInv'
  BY SameCanon, Zenon DEF LockInv, TypeOK
<1>6. PendingInv'
  BY DEF PendingInv, Kept, TypeOK
<1>7. CountsExact'
  BY SameCounts, Zenon
<1> QED BY <1>1, <1>2, <1>3, <1>4, <1>5, <1>6, <1>7, Zenon

LEMMA StepUnregisterDone ==
  ASSUME IInv, UnregisterDone
  PROVE  IInv'
<1> USE DEF IInv, UnregisterDone, regVars, entryVars, hndVars, collVars, Idle
<1>1. TypeOK'
  BY Zenon DEF TypeOK, States
<1>2. NeverFails' /\ LockInv'
  BY ModuleAssumption, Zenon DEF NeverFails, LockInv, TypeOK
<1>3. RecInv'
  <2> SUFFICES ASSUME NEW d \in Coll, NEW g \in Group
               PROVE  Present(d, g)' <=> Present(d, g)
    BY Zenon DEF RecInv
  <2>1. cst' = cst /\ cmod' = cmod
    BY Zenon
  <2>2. cst[d] # "registering" /\ cst[d] # "dropping"
    BY DEF LockInv
  <2> HIDE DEF IInv, UnregisterDone
  <2> QED BY <2>1, <2>2 DEF Present
<1>4. EntryInv' /\ KeyInv' /\ HandleInv' /\ SameGroupSameEntry'
  BY DEF EntryInv, KeyInv, Key, HandleInv, SameGroupSameEntry
<1>5. CanonInv'
  BY SameCanon, Zenon
<1>6. PendingInv'
  BY DEF PendingInv, Kept, TypeOK
<1>7. CountsExact'
  BY SameCounts, Zenon
<1> QED BY <1>1, <1>2, <1>3, <1>4, <1>5, <1>6, <1>7, Zenon

LEMMA StepDropCollectionDone ==
  ASSUME IInv, DropCollectionDone
  PROVE  IInv'
<1> USE DEF IInv, DropCollectionDone, regVars, entryVars, hndVars, Idle
<1>1. TypeOK'
  BY Zenon DEF TypeOK, States
<1>2. NeverFails' /\ LockInv'
  BY ModuleAssumption, Zenon DEF NeverFails, LockInv, TypeOK
<1>3. RecInv'
  <2> SUFFICES ASSUME NEW d \in Coll, NEW g \in Group
               PROVE  Present(d, g)' <=> Present(d, g)
    BY Zenon DEF RecInv
  <2>1. /\ writer.op = "drop" /\ writer.i > Len(Groups[cmod[writer.c]])
        /\ cst[writer.c] = "dropping" /\ cst' = [cst EXCEPT ![writer.c] = "absent"]
        /\ cmod' = cmod /\ cst \in [Coll -> States]
    BY Zenon DEF LockInv, TypeOK
  <2>2. writer.c \in Coll /\ writer.i \in Nat
    BY <2>1 DEF TypeOK
  <2>3. Len(Groups[cmod[writer.c]]) \in Nat
    <3>1. Groups \in [Module -> Seq(Group)] /\ cmod[writer.c] \in Module
      BY <2>2, ModuleAssumption, Zenon DEF TypeOK
    <3> HIDE DEF IInv, DropCollectionDone
    <3>2. Groups[cmod[writer.c]] \in Seq(Group)
      BY <3>1, Zenon
    <3> QED BY <3>2
  <2>4. d # writer.c => cst[d] # "registering" /\ cst[d] # "dropping"
    BY <2>1 DEF LockInv
  <2> HIDE DEF IInv, DropCollectionDone
  <2>5. CASE d = writer.c
    BY <2>1, <2>2, <2>3, <2>5 DEF Present
  <2>6. CASE d # writer.c
    BY <2>1, <2>4, <2>6 DEF Present
  <2> QED BY <2>5, <2>6, Zenon
<1>4. EntryInv' /\ KeyInv' /\ HandleInv' /\ SameGroupSameEntry'
  BY DEF EntryInv, KeyInv, Key, HandleInv, SameGroupSameEntry
<1>5. CanonInv'
  BY SameCanon, Zenon DEF TypeOK
<1>6. PendingInv'
  BY DEF PendingInv, Kept, TypeOK, LockInv
<1>7. CountsExact'
  BY SameCounts, Zenon
<1> QED BY <1>1, <1>2, <1>3, <1>4, <1>5, <1>6, <1>7, Zenon

LEMMA StepDropCollection ==
  ASSUME IInv, ~OverlappingDrops, NEW c \in Coll, DropCollection(c)
  PROVE  IInv'
<1> USE DEF Idle
<1>0. /\ cst[c] = "loaded"
      /\ \/ /\ Groups[cmod[c]] = <<>>
            /\ cst' = [cst EXCEPT ![c] = "absent"] /\ writer' = writer
         \/ /\ writer = Idle
            /\ cst' = [cst EXCEPT ![c] = "dropping"]
            /\ writer' = [op |-> "drop", c |-> c, i |-> 1]
      /\ UNCHANGED <<consMap, revMap, slab, slabLen, dropStack, shape, refs, types, selfs,
                     regs, cmod, rec, hst, hent, failed>>
  BY Zenon DEF DropCollection, regVars, entryVars, hndVars
<1> USE DEF IInv
<1>1. TypeOK'
  <2>1. cst' \in [Coll -> States]
    <3>1. cst \in [Coll -> States] /\ "absent" \in States /\ "dropping" \in States
      BY Zenon DEF TypeOK, States
    <3> QED BY <1>0, <3>1, Zenon
  <2>2. writer' \in {Idle, [op |-> "unregister"]} \cup [op : {"register", "drop"}, c : Coll, i : Nat]
    <3>1. CASE writer' = writer
      BY <3>1, Zenon DEF TypeOK
    <3>2. CASE writer' = [op |-> "drop", c |-> c, i |-> 1]
      BY <3>2, Zenon
    <3> QED BY <1>0, <3>1, <3>2, Zenon
  <2> QED BY <1>0, <2>1, <2>2, Zenon DEF TypeOK
<1>2. NeverFails' /\ LockInv'
  <2>1. NeverFails'
    BY <1>0, Zenon DEF NeverFails
  <2>2. /\ cst \in [Coll -> States] /\ LockInv
        /\ Len(Groups[cmod[c]]) \in Nat
    <3>1. cst \in [Coll -> States] /\ cmod[c] \in Module
      BY Zenon DEF TypeOK
    <3> QED BY <3>1, ModuleAssumption
  <2> HIDE DEF IInv
  <2>3. CASE Groups[cmod[c]] = <<>> /\ cst' = [cst EXCEPT ![c] = "absent"] /\ writer' = writer
    BY <1>0, <2>1, <2>2, <2>3, SMTT(30) DEF LockInv
  <2>4. CASE /\ writer = Idle
             /\ cst' = [cst EXCEPT ![c] = "dropping"]
             /\ writer' = [op |-> "drop", c |-> c, i |-> 1]
    BY <1>0, <2>1, <2>2, <2>4, SMTT(30) DEF LockInv
  <2> QED BY <1>0, <2>1, <2>3, <2>4, Zenon
<1>3. RecInv'
  <2> SUFFICES ASSUME NEW d \in Coll, NEW g \in Group
               PROVE  Present(d, g)' <=> Present(d, g)
    BY <1>0, Zenon DEF RecInv
  <2>0. /\ cst \in [Coll -> States] /\ LockInv
        /\ Groups[cmod[c]] \in Seq(Group)
    <3>1. cst \in [Coll -> States] /\ cmod[c] \in Module
      BY Zenon DEF TypeOK
    <3> QED BY <3>1, ModuleAssumption
  <2> HIDE DEF IInv
  <2>1. CASE d = c
    <3>1. CASE Groups[cmod[c]] = <<>>
      BY <1>0, <2>0, <2>1, <3>1 DEF Present
    <3>2. CASE Groups[cmod[c]] # <<>>
      <4>1. cst'[c] = "dropping" /\ writer'.i = 1
        BY <1>0, <2>0, <3>2
      <4> QED BY <1>0, <2>0, <2>1, <4>1 DEF Present
    <3> QED BY <3>1, <3>2
  <2>2. CASE d # c
    <3>1. cst'[d] = cst[d] /\ (writer' = writer \/ writer = Idle)
      BY <1>0, <2>0, <2>2
    <3>2. writer = Idle => cst[d] # "registering" /\ cst[d] # "dropping"
      BY <2>0 DEF LockInv
    <3> QED BY <1>0, <3>1, <3>2 DEF Present
  <2> QED BY <2>1, <2>2, Zenon
<1>4. EntryInv' /\ KeyInv' /\ HandleInv' /\ SameGroupSameEntry'
  BY <1>0 DEF EntryInv, KeyInv, Key, HandleInv, SameGroupSameEntry
<1>5. CanonInv'
  BY <1>0, SameCanon, Zenon DEF TypeOK
<1>6. PendingInv'
  <2>1. \A h \in Handle, g \in Group : ~(hst[h] = "zero" /\ rec[c][g] = hent[h])
    BY Zenon DEF Pending, DropCollection
  <2>2. \A d \in Coll : cst[d] \in {"registering", "loaded"} =>
          d = c \/ cst'[d] \in {"registering", "loaded"}
    BY <1>0, Zenon DEF TypeOK
  <2>3. \A e \in dropStack, g \in Group : rec[c][g] # e
    <3>1. CASE Groups[cmod[c]] = <<>>
      <4>1. 1..Len(Groups[cmod[c]]) = {}
        BY <3>1
      <4>2. \A g \in Group : rec[c][g] = NoEntry
        BY <4>1, Zenon DEF RecInv, Present
      <4> QED BY <4>2, GroupAssumption, Zenon DEF TypeOK
    <3>2. CASE writer = Idle
      BY <3>2, Zenon DEF LockInv
    <3> QED BY <1>0, <3>1, <3>2, Zenon
  <2>4. \A h \in Handle : hst[h] = "zero" /\ Kept(hent[h]) => Kept(hent[h])'
    BY <1>0, <2>1, <2>2 DEF Kept
  <2>5. \A e \in dropStack : Kept(e) => Kept(e)'
    BY <1>0, <2>2, <2>3, Zenon DEF Kept
  <2> QED BY <1>0, <2>4, <2>5, Zenon DEF PendingInv
<1>7. CountsExact'
  BY <1>0, SameCounts, Zenon
<1> QED BY <1>1, <1>2, <1>3, <1>4, <1>5, <1>6, <1>7, Zenon

LEMMA StepResurrected ==
  ASSUME IInv, NEW e \in Entry, Resurrected(e)
  PROVE  IInv'
<1> USE DEF IInv, Resurrected, StillZero, entryVars, hndVars, collVars
<1>1. TypeOK'
  BY Zenon DEF TypeOK
<1>2. NeverFails' /\ LockInv'
  BY Zenon DEF NeverFails, LockInv
<1>3. RecInv'
  BY DEF RecInv, Present
<1>4. EntryInv' /\ KeyInv' /\ HandleInv' /\ SameGroupSameEntry'
  BY DEF EntryInv, KeyInv, Key, HandleInv, SameGroupSameEntry
<1>5. CanonInv'
  BY SameCanon, Zenon
<1>6. PendingInv'
  BY DEF PendingInv, Kept, TypeOK
<1>7. CountsExact'
  BY SameCounts, Zenon
<1> QED BY <1>1, <1>2, <1>3, <1>4, <1>5, <1>6, <1>7, Zenon

LEMMA StepDropHandleLocked ==
  ASSUME IInv, NEW h \in Handle, DropHandleLocked(h)
  PROVE  IInv'
<1> USE DEF IInv, DropHandleLocked, entryVars, collVars, Idle
<1>0. hent[h] \in consMap
  BY Zenon DEF HandleInv
<1>1. TypeOK'
  BY <1>0, Zenon DEF TypeOK
<1>2. NeverFails' /\ LockInv'
  BY Zenon DEF NeverFails, LockInv
<1>3. RecInv'
  BY DEF RecInv, Present, LockInv
<1>4. EntryInv' /\ KeyInv' /\ SameGroupSameEntry'
  BY DEF EntryInv, KeyInv, Key, SameGroupSameEntry
<1>5. CanonInv'
  BY SameCanon, Zenon
<1>6. HandleInv'
  BY Zenon DEF HandleInv, TypeOK
<1>7. PendingInv'
  <2>1. dropStack = {} /\ dropStack' = {hent[h]}
    BY Zenon DEF LockInv
  <2>2. \A k \in Handle : hst'[k] = "zero" => k # h /\ hst[k] = "zero" /\ hent'[k] = hent[k]
    BY Zenon DEF TypeOK
  <2>3. \A k \in Handle : k # h => hst'[k] = hst[k] /\ hent'[k] = hent[k]
    BY Zenon DEF TypeOK
  <2> QED BY <1>0, <2>1, <2>2, <2>3 DEF PendingInv, Kept
<1>8. CountsExact'
  BY SameCounts, Zenon DEF TypeOK
<1> QED BY <1>1, <1>2, <1>3, <1>4, <1>5, <1>6, <1>7, <1>8, Zenon

-----------------------------------------------------------------------------
(***************************************************************************)
(* Steps of handles: one registration more or less.                        *)
(***************************************************************************)
\* Everything a step of a handle leaves alone keeps its invariants.
LEMMA HandleFrame ==
  ASSUME IInv, UNCHANGED <<regVars, entryVars, collVars, writer, failed>>
  PROVE  /\ NeverFails' /\ LockInv' /\ RecInv' /\ EntryInv' /\ KeyInv'
         /\ CanonInv' /\ SameGroupSameEntry' /\ \A e : Kept(e)' <=> Kept(e)
<1> USE DEF IInv, regVars, entryVars, collVars
<1>1. NeverFails' /\ LockInv' /\ RecInv'
  BY DEF NeverFails, LockInv, RecInv, Present
<1>2. EntryInv' /\ KeyInv' /\ SameGroupSameEntry' /\ \A e : Kept(e)' <=> Kept(e)
  BY DEF EntryInv, KeyInv, Key, SameGroupSameEntry, Kept
<1>3. CanonInv'
  BY SameCanon, Zenon
<1> QED BY <1>1, <1>2, <1>3, Zenon

\* Counts stay exact when a handle becomes a holder of e.
LEMMA HandleAdded ==
  ASSUME TypeOK, CountsExact, NEW h \in Handle, NEW e \in consMap, hst[h] # "held",
         hst' = [hst EXCEPT ![h] = "held"], hent' = [hent EXCEPT ![h] = e],
         regs' = [regs EXCEPT ![e] = @ + 1], UNCHANGED <<consMap, revMap, refs, rec>>
  PROVE  CountsExact'
<1> SUFFICES ASSUME NEW o \in consMap
             PROVE  regs'[o] = Cardinality(CollHolders(o))' + Cardinality(HandleHolders(o))'
                                 + Cardinality(EdgeHolders(o))'
  BY Zenon DEF CountsExact
<1>1. CollHolders(o)' = CollHolders(o) /\ EdgeHolders(o)' = EdgeHolders(o)
  BY Zenon DEF CollHolders, EdgeHolders, RefsTo
<1>2. o \in Entry /\ regs[o] \in Nat
  BY Zenon DEF TypeOK
<1>3. regs[o] = Cardinality(CollHolders(o)) + Cardinality(HandleHolders(o)) + Cardinality(EdgeHolders(o))
  BY Zenon DEF CountsExact
<1>4. CASE o = e
  <2>1. HandleHolders(o)' = HandleHolders(o) \cup {h} /\ h \notin HandleHolders(o)
    BY <1>4 DEF HandleHolders, TypeOK
  <2>2. Cardinality(HandleHolders(o))' = Cardinality(HandleHolders(o)) + 1
    BY <2>1, HoldersFinite, FS_AddElement, Zenon
  <2>3. regs'[o] = regs[o] + 1
    BY <1>2, <1>4, Zenon DEF TypeOK
  <2> QED BY <1>1, <1>3, <2>2, <2>3, HoldersFinite
<1>5. CASE o # e
  <2>1. HandleHolders(o)' = HandleHolders(o)
    BY <1>5, Zenon DEF HandleHolders, TypeOK
  <2>2. regs'[o] = regs[o]
    BY <1>2, <1>5, Zenon DEF TypeOK
  <2> QED BY <1>1, <1>3, <2>1, <2>2, Zenon
<1> QED BY <1>4, <1>5, Zenon

\* Counts stay exact when a handle stops being a holder of its entry.
LEMMA HandleRemoved ==
  ASSUME TypeOK, CountsExact, NEW h \in Handle, hst[h] = "held", hent[h] \in consMap,
         NEW s \in {"none", "zero"}, hst' = [hst EXCEPT ![h] = s],
         \A k \in Handle : k # h => hent'[k] = hent[k],
         regs' = [regs EXCEPT ![hent[h]] = @ - 1], UNCHANGED <<consMap, revMap, refs, rec>>
  PROVE  CountsExact'
<1> SUFFICES ASSUME NEW o \in consMap
             PROVE  regs'[o] = Cardinality(CollHolders(o))' + Cardinality(HandleHolders(o))'
                                 + Cardinality(EdgeHolders(o))'
  BY Zenon DEF CountsExact
<1>1. CollHolders(o)' = CollHolders(o) /\ EdgeHolders(o)' = EdgeHolders(o)
  BY Zenon DEF CollHolders, EdgeHolders, RefsTo
<1>2. o \in Entry /\ regs[o] \in Nat
  BY Zenon DEF TypeOK
<1>3. regs[o] = Cardinality(CollHolders(o)) + Cardinality(HandleHolders(o)) + Cardinality(EdgeHolders(o))
  BY Zenon DEF CountsExact
<1>4. CASE o = hent[h]
  <2>1. HandleHolders(o)' = HandleHolders(o) \ {h} /\ h \in HandleHolders(o)
    BY <1>4, Zenon DEF HandleHolders, TypeOK
  <2>2. Cardinality(HandleHolders(o))' = Cardinality(HandleHolders(o)) - 1
    BY <2>1, HoldersFinite, FS_RemoveElement, Zenon
  <2>3. regs'[o] = regs[o] - 1
    BY <1>2, <1>4, Zenon DEF TypeOK
  <2> QED BY <1>1, <1>3, <2>2, <2>3, HoldersFinite
<1>5. CASE o # hent[h]
  <2>1. HandleHolders(o)' = HandleHolders(o)
    BY <1>5, Zenon DEF HandleHolders, TypeOK
  <2>2. regs'[o] = regs[o]
    BY <1>2, <1>5, Zenon DEF TypeOK
  <2> QED BY <1>1, <1>3, <2>1, <2>2, Zenon
<1> QED BY <1>4, <1>5, Zenon

\* One more registration of e, by handle h, keeps the invariant if e was held
\* already or belongs to a module that stays.
LEMMA HandleTakes ==
  ASSUME IInv, NEW h \in Handle, NEW e \in consMap, hst[h] = "none",
         Kept(e) \/ regs[e] # 0,
         hst' = [hst EXCEPT ![h] = "held"], hent' = [hent EXCEPT ![h] = e],
         regs' = [regs EXCEPT ![e] = @ + 1],
         UNCHANGED <<regVars, entryVars, collVars, writer, failed>>
  PROVE  IInv'
<1> USE DEF IInv, regVars, entryVars, collVars
<1>1. TypeOK'
  BY DEF TypeOK
<1>2. HandleInv'
  BY Zenon DEF HandleInv, TypeOK
<1>3. CountsExact'
  BY HandleAdded, Zenon
<1>4. PendingInv'
  <2>1. \A k \in Handle : hst'[k] = "zero" => hst[k] = "zero" /\ hent'[k] = hent[k]
    BY Zenon DEF TypeOK
  <2>2. \A o \in consMap : regs'[o] = 0 => regs[o] = 0
    BY DEF TypeOK
  <2>3. \A k \in Handle : hst[k] = "zero" => hst'[k] = "zero" /\ hent'[k] = hent[k]
    BY Zenon DEF TypeOK
  <2>4. \A o \in consMap : regs'[o] # 0 /\ o # e => regs[o] # 0
    BY Zenon DEF TypeOK
  <2> QED BY <2>1, <2>2, <2>3, <2>4, HandleFrame DEF PendingInv, HandleInv
<1> QED BY <1>1, <1>2, <1>3, <1>4, HandleFrame, Zenon

LEMMA StepGetType ==
  ASSUME IInv, NEW h \in Handle, NEW c \in Coll, NEW g \in Group, NEW p \in 1..Size[g],
         GetType(h, c, g, p)
  PROVE  IInv'
<1> DEFINE e  == rec[c][g]
           id == types[e][p]
<1>1. e \in consMap /\ shape[e] = g /\ cst[c] = "loaded" /\ hst[h] = "none"
  BY Zenon DEF IInv, GetType, RecInv
<1>2. id \in slab /\ id \in DOMAIN revMap /\ revMap[id] = e
  BY <1>1, Zenon DEF IInv, EntryInv
<1>3. /\ regs' = [regs EXCEPT ![e] = @ + 1]
      /\ hst' = [hst EXCEPT ![h] = "held"] /\ hent' = [hent EXCEPT ![h] = e]
      /\ UNCHANGED <<regVars, entryVars, collVars, writer, failed>>
  BY <1>2, Zenon DEF GetType
<1>4. Kept(e)
  BY <1>1, Zenon DEF Kept
<1> HIDE DEF e, id
<1> QED BY <1>1, <1>3, <1>4, HandleTakes, Zenon

LEMMA StepClone ==
  ASSUME IInv, NEW h \in Handle, NEW new \in Handle, Clone(h, new)
  PROVE  IInv'
<1> DEFINE e == hent[h]
<1>1. e \in consMap
  BY Zenon DEF IInv, Clone, HandleInv
<1>2. h \in HandleHolders(e)
  BY Zenon DEF Clone, HandleHolders
<1>3. regs[e] # 0
  BY <1>1, <1>2, HeldIsCounted, Zenon DEF IInv
<1>4. /\ regs' = [regs EXCEPT ![e] = @ + 1] /\ hst[new] = "none"
      /\ hst' = [hst EXCEPT ![new] = "held"] /\ hent' = [hent EXCEPT ![new] = e]
      /\ UNCHANGED <<regVars, entryVars, collVars, writer, failed>>
  BY Zenon DEF Clone
<1> HIDE DEF e
<1> QED BY <1>1, <1>3, <1>4, HandleTakes, Zenon

\* The drop that brings the count to zero is the only one on its way: a module
\* that keeps the entry would still be counted.
LEMMA StepDropHandle ==
  ASSUME IInv, NEW h \in Handle, DropHandle(h)
  PROVE  IInv'
<1> DEFINE e == hent[h]
           s == IF regs[e] = 1 THEN "zero" ELSE "none"
<1> USE DEF HitsZero
<1>1. e \in consMap /\ e \in Entry /\ regs[e] \in Nat
  BY Zenon DEF IInv, DropHandle, HandleInv, TypeOK
<1>2. h \in HandleHolders(e)
  BY Zenon DEF DropHandle, HandleHolders
<1>3. regs[e] # 0
  BY <1>1, <1>2, HeldIsCounted, Zenon DEF IInv
<1>4. /\ regs' = [regs EXCEPT ![e] = @ - 1] /\ hst[h] = "held"
      /\ hst' = [hst EXCEPT ![h] = s]
      /\ hent' = [hent EXCEPT ![h] = IF regs[e] = 1 THEN e ELSE NoEntry]
      /\ UNCHANGED <<regVars, entryVars, collVars, writer, failed>>
  BY <1>3, Zenon DEF DropHandle
<1>5. \A k \in Handle : k # h => hst'[k] = hst[k] /\ hent'[k] = hent[k]
  BY <1>4, Zenon DEF IInv, TypeOK
<1>6. /\ hst'[h] = s /\ (regs[e] = 1 => hent'[h] = e)
      /\ \A o \in Entry : regs'[o] = IF o = e THEN regs[o] - 1 ELSE regs[o]
  BY <1>4, Zenon DEF IInv, TypeOK
<1>7. Kept(e) => regs[e] > 1
  <2> SUFFICES ASSUME Kept(e) PROVE regs[e] > 1
    BY Zenon
  <2>1. CollHolders(e) # {}
    BY KeptIsHeld, Zenon
  <2>2. Cardinality(CollHolders(e)) # 0 /\ Cardinality(HandleHolders(e)) # 0
    BY <1>2, <2>1, HoldersFinite, FS_EmptySet, Zenon DEF IInv
  <2> HIDE DEF e
  <2> QED BY <1>1, <2>2, HoldersFinite DEF IInv, CountsExact
<1>8. TypeOK'
  BY <1>1, <1>3, <1>4 DEF IInv, TypeOK, regVars, entryVars, collVars
<1>9. HandleInv'
  BY <1>1, <1>4, <1>5, <1>6 DEF IInv, HandleInv, regVars
<1>10. CountsExact'
  <2>1. s \in {"none", "zero"}
    BY Zenon
  <2> HIDE DEF s
  <2> QED BY <1>1, <1>4, <1>5, <2>1, HandleRemoved, Zenon DEF IInv, regVars, entryVars, collVars
<1>11. PendingInv'
  <2>1. \A o : Kept(o)' <=> Kept(o)
    BY <1>4, HandleFrame, Zenon
  <2>2. /\ consMap' = consMap /\ dropStack' = dropStack
        /\ consMap \subseteq Entry /\ dropStack \subseteq consMap
    BY <1>4, Zenon DEF IInv, regVars, TypeOK, PendingInv
  <2>3. \A k \in Handle : hst[k] = "zero" => hent[k] \in consMap
    BY Zenon DEF IInv, HandleInv
  <2>4. regs[e] = 1 => e \notin dropStack /\ \A k \in Handle : hst[k] = "zero" => hent[k] # e
    BY <1>3, <1>7 DEF IInv, PendingInv
  <2> QED BY <1>1, <1>3, <1>5, <1>6, <1>7, <2>1, <2>2, <2>3, <2>4 DEF IInv, PendingInv
<1> HIDE DEF e, s
<1> QED BY <1>4, <1>8, <1>9, <1>10, <1>11, HandleFrame, Zenon DEF IInv

-----------------------------------------------------------------------------
(***************************************************************************)
(* Steps of collections: one group registered or given up.                 *)
(***************************************************************************)
\* Holders of an entry when one place of one collection changes.
LEMMA PlaceChanged ==
  ASSUME NEW c \in Coll, NEW g \in Group, NEW e, NEW o,
         \A d \in Coll, f \in Group : rec'[d][f] = IF d = c /\ f = g THEN e ELSE rec[d][f]
  PROVE  CollHolders(o)' = IF o = e THEN CollHolders(o) \cup {<<c, g>>}
                                    ELSE CollHolders(o) \ {<<c, g>>}
<1>1. \A x \in Coll \X Group : x = <<c, g>> <=> x[1] = c /\ x[2] = g
  OBVIOUS
<1> QED BY <1>1 DEF CollHolders

\* Counts stay exact when a collection becomes a holder of e in an empty place.
LEMMA CollAdded ==
  ASSUME TypeOK, CountsExact, NEW c \in Coll, NEW g \in Group, NEW e \in consMap,
         rec[c][g] = NoEntry, rec' = [rec EXCEPT ![c][g] = e],
         regs' = [regs EXCEPT ![e] = @ + 1], UNCHANGED <<consMap, revMap, refs, hst, hent>>
  PROVE  CountsExact'
<1> SUFFICES ASSUME NEW o \in consMap
             PROVE  regs'[o] = Cardinality(CollHolders(o))' + Cardinality(HandleHolders(o))'
                                 + Cardinality(EdgeHolders(o))'
  BY Zenon DEF CountsExact
<1>1. HandleHolders(o)' = HandleHolders(o) /\ EdgeHolders(o)' = EdgeHolders(o)
  BY Zenon DEF HandleHolders, EdgeHolders, RefsTo
<1>2. o \in Entry /\ e \in Entry /\ regs[o] \in Nat
  BY Zenon DEF TypeOK
<1>3. regs[o] = Cardinality(CollHolders(o)) + Cardinality(HandleHolders(o)) + Cardinality(EdgeHolders(o))
  BY Zenon DEF CountsExact
<1>4. <<c, g>> \notin CollHolders(o)
  BY <1>2, GroupAssumption, Zenon DEF CollHolders
<1>7. \A d \in Coll, f \in Group : rec'[d][f] = IF d = c /\ f = g THEN e ELSE rec[d][f]
  BY Zenon DEF TypeOK
<1>8. CollHolders(o)' = IF o = e THEN CollHolders(o) \cup {<<c, g>>}
                                 ELSE CollHolders(o) \ {<<c, g>>}
  BY <1>7, PlaceChanged, Zenon
<1>5. CASE o = e
  <2>1. CollHolders(o)' = CollHolders(o) \cup {<<c, g>>}
    BY <1>5, <1>8, Zenon
  <2>2. Cardinality(CollHolders(o))' = Cardinality(CollHolders(o)) + 1
    BY <1>4, <2>1, HoldersFinite, FS_AddElement, Zenon
  <2>3. regs'[o] = regs[o] + 1
    BY <1>2, <1>5, Zenon DEF TypeOK
  <2> QED BY <1>1, <1>3, <2>2, <2>3, HoldersFinite
<1>6. CASE o # e
  <2>1. CollHolders(o)' = CollHolders(o)
    BY <1>4, <1>6, <1>8, Zenon
  <2>2. regs'[o] = regs[o]
    BY <1>2, <1>6, Zenon DEF TypeOK
  <2> QED BY <1>1, <1>3, <2>1, <2>2, Zenon
<1> QED BY <1>5, <1>6, Zenon

\* Counts stay exact when a collection gives up the entry of one place.
LEMMA CollRemoved ==
  ASSUME TypeOK, CountsExact, NEW c \in Coll, NEW g \in Group, rec[c][g] \in consMap,
         rec' = [rec EXCEPT ![c][g] = NoEntry],
         regs' = [regs EXCEPT ![rec[c][g]] = @ - 1], UNCHANGED <<consMap, revMap, refs, hst, hent>>
  PROVE  CountsExact'
<1> SUFFICES ASSUME NEW o \in consMap
             PROVE  regs'[o] = Cardinality(CollHolders(o))' + Cardinality(HandleHolders(o))'
                                 + Cardinality(EdgeHolders(o))'
  BY Zenon DEF CountsExact
<1>1. HandleHolders(o)' = HandleHolders(o) /\ EdgeHolders(o)' = EdgeHolders(o)
  BY Zenon DEF HandleHolders, EdgeHolders, RefsTo
<1>2. o \in Entry /\ o # NoEntry /\ regs[o] \in Nat
  BY GroupAssumption, Zenon DEF TypeOK
<1>3. regs[o] = Cardinality(CollHolders(o)) + Cardinality(HandleHolders(o)) + Cardinality(EdgeHolders(o))
  BY Zenon DEF CountsExact
<1>0. \A d \in Coll, f \in Group : rec'[d][f] = IF d = c /\ f = g THEN NoEntry ELSE rec[d][f]
  BY Zenon DEF TypeOK
<1>4. CollHolders(o)' = CollHolders(o) \ {<<c, g>>}
  BY <1>0, <1>2, PlaceChanged, Zenon
<1>5. <<c, g>> \in CollHolders(o) <=> o = rec[c][g]
  BY Zenon DEF CollHolders
<1>6. regs'[o] = IF o = rec[c][g] THEN regs[o] - 1 ELSE regs[o]
  BY <1>2, Zenon DEF TypeOK
<1>7. Cardinality(CollHolders(o))' = IF o = rec[c][g] THEN Cardinality(CollHolders(o)) - 1
                                                      ELSE Cardinality(CollHolders(o))
  BY <1>4, <1>5, HoldersFinite, FS_RemoveElement, Zenon
<1> QED BY <1>1, <1>3, <1>6, <1>7, HoldersFinite

\* An element of a sequence belongs to the set the sequence is over.
LEMMA ElementOf ==
  ASSUME NEW S, NEW s \in Seq(S), NEW k \in DOMAIN s
  PROVE  k \in 1..Len(s) /\ s[k] \in S
OBVIOUS

-----------------------------------------------------------------------------
(***************************************************************************)
(* Registering a group.                                                    *)
(***************************************************************************)
\* What the registering writer is at: a place of its collection that is empty
\* although everything the group refers to is in place already.
LEMMA AtGroup ==
  ASSUME IInv, Registering
  PROVE  /\ writer.c \in Coll /\ cst[writer.c] = "registering"
         /\ writer.i \in 1..Len(Groups[cmod[writer.c]])
         /\ writer' = [writer EXCEPT !.i = @ + 1] =>
              writer'.op = "register" /\ writer'.c = writer.c /\ writer'.i = writer.i + 1
                /\ writer' \in [op : {"register", "drop"}, c : Coll, i : Nat]
         /\ CurGroup \in Group /\ rec[writer.c][CurGroup] = NoEntry
         /\ dropStack = {}
<1> USE DEF IInv, Registering
<1>1. writer \in [op : {"register", "drop"}, c : Coll, i : Nat]
  BY DEF TypeOK, Idle
<1>2. writer.c \in Coll /\ cst[writer.c] = "registering" /\ dropStack = {}
  BY <1>1, Zenon DEF LockInv
<1>3. writer.i \in 1..Len(Groups[cmod[writer.c]])
  BY <1>1 DEF LockInv
<1>4. Groups[cmod[writer.c]] \in Seq(Group)
  BY <1>2, ModuleAssumption, Zenon DEF TypeOK
<1>5. CurGroup \in Group
  BY <1>3, <1>4 DEF CurGroup
<1>6. ~Present(writer.c, CurGroup)
  <2>1. cmod[writer.c] \in Module
    BY <1>2, Zenon DEF TypeOK
  <2>2. \A j \in 1..Len(Groups[cmod[writer.c]]) :
          Groups[cmod[writer.c]][j] = CurGroup => j = writer.i
    BY <1>3, <2>1, ModuleAssumption, Zenon DEF CurGroup
  <2> QED BY <1>2, <1>3, <2>2 DEF Present
<1>7. writer' = [writer EXCEPT !.i = @ + 1] =>
              writer'.op = "register" /\ writer'.c = writer.c /\ writer'.i = writer.i + 1
                /\ writer' \in [op : {"register", "drop"}, c : Coll, i : Nat]
  BY <1>1
<1> QED BY <1>2, <1>3, <1>5, <1>6, <1>7, Zenon DEF RecInv

\* The groups that a group of a module refers to come before it.
LEMMA RefsPresent ==
  ASSUME IInv, NEW c \in Coll, cst[c] \in {"registering", "loaded"}, NEW g \in Group,
         rec[c][g] # NoEntry \/ (Registering /\ c = writer.c /\ g = CurGroup),
         NEW k \in DOMAIN CrossRefs[g]
  PROVE  LET r == CrossRefs[g][k]
         IN  r.grp \in Group /\ r.pos \in 1..Size[r.grp] /\ rec[c][r.grp] # NoEntry
<1> DEFINE m == cmod[c]
           r == CrossRefs[g][k]
<1>1. m \in Module /\ Groups[m] \in Seq(Group)
  BY ModuleAssumption, Zenon DEF IInv, TypeOK
<1>2. k \in 1..Len(CrossRefs[g]) /\ r.grp \in Group
  <2>1. CrossRefs[g] \in Seq([grp : Group, pos : Nat])
    BY GroupAssumption, Zenon
  <2>2. k \in 1..Len(CrossRefs[g]) /\ CrossRefs[g][k] \in [grp : Group, pos : Nat]
    BY <2>1, ElementOf, Zenon
  <2> QED BY <2>2, Zenon
<1>3. PICK j \in 1..Len(Groups[m]) :
        Groups[m][j] = g /\ (cst[c] = "registering" => j <= writer.i)
  <2>1. CASE rec[c][g] # NoEntry
    <3>1. Present(c, g)
      BY <2>1, Zenon DEF IInv, RecInv
    <3>2. cst[c] = "registering" => writer.i \in Nat
      BY <1>1 DEF IInv, LockInv
    <3> QED BY <3>1, <3>2 DEF Present
  <2>2. CASE Registering /\ c = writer.c /\ g = CurGroup
    BY <2>2, AtGroup, SMTT(30) DEF CurGroup
  <2> QED BY <2>1, <2>2, Zenon
<1>4. r.pos \in 1..Size[r.grp] /\ \E i \in 1..(j-1) : Groups[m][i] = r.grp
  <2>1. k \in 1..Len(CrossRefs[Groups[m][j]])
    BY <1>2, <1>3, Zenon
  <2>2. /\ CrossRefs[Groups[m][j]][k].pos \in 1..Size[CrossRefs[Groups[m][j]][k].grp]
        /\ CrossRefs[Groups[m][j]][k].grp \in {Groups[m][i] : i \in 1..(j-1)}
    BY <1>1, <2>1, ModuleAssumption, Zenon
  <2> QED BY <1>3, <2>2, Zenon
<1>5. PICK i \in 1..(j-1) : Groups[m][i] = r.grp
  BY <1>4, Zenon
<1>6. Present(c, r.grp)
  <2>1. i \in 1..Len(Groups[m]) /\ i < j
    BY <1>1
  <2>2. cst[c] = "registering" => i < writer.i
    BY <1>3, <2>1, <1>1 DEF IInv, LockInv
  <2> QED BY <1>5, <2>1, <2>2, Zenon DEF Present
<1> QED BY <1>2, <1>4, <1>6, Zenon DEF IInv, RecInv

\* Filling the writer's place does not change what any group's key is made of.
LEMMA CanonKept ==
  ASSUME IInv, Registering, NEW e,
         \A d \in Coll, f \in Group :
           rec'[d][f] = IF d = writer.c /\ f = CurGroup THEN e ELSE rec[d][f],
         \A o \in consMap : types'[o] = types[o],
         NEW d \in Coll, cst[d] \in {"registering", "loaded"}, NEW f \in Group,
         rec[d][f] # NoEntry \/ (d = writer.c /\ f = CurGroup)
  PROVE  CanonRefs(d, f)' = CanonRefs(d, f)
<1> SUFFICES ASSUME NEW k \in DOMAIN CrossRefs[f]
             PROVE  LET r == CrossRefs[f][k]
                    IN  types'[rec'[d][r.grp]] = types[rec[d][r.grp]]
  BY Zenon DEF CanonRefs
<1> DEFINE r == CrossRefs[f][k]
<1>1. r.grp \in Group /\ rec[d][r.grp] # NoEntry
  BY RefsPresent, Zenon
<1>2. rec[d][r.grp] \in consMap
  BY <1>1, Zenon DEF IInv, RecInv
<1>3. rec'[d][r.grp] = rec[d][r.grp]
  BY <1>1, AtGroup, Zenon
<1>4. types'[rec[d][r.grp]] = types[rec[d][r.grp]]
  BY <1>2, Zenon
<1> QED BY <1>3, <1>4, Zenon

\* A module that has the group already has it under the key being looked up.
LEMMA OthersFound ==
  ASSUME IInv, Registering, NEW d \in Coll, rec[d][CurGroup] # NoEntry
  PROVE  rec[d][CurGroup] \in Lookup(<<CurGroup, CanonRefs(writer.c, CurGroup)>>)
<1> DEFINE c == writer.c
           g == CurGroup
           e == rec[d][g]
<1>1. c \in Coll /\ cst[c] = "registering" /\ g \in Group /\ rec[c][g] = NoEntry
  BY AtGroup, Zenon
<1>2. d # c /\ Present(d, g) /\ e \in consMap /\ shape[e] = g
  BY <1>1, Zenon DEF IInv, RecInv
<1>3. cst[d] = "loaded"
  <2>1. cst[d] # "registering" /\ cst[d] # "dropping"
    BY <1>2, Zenon DEF IInv, LockInv, Registering
  <2> QED BY <1>2, <2>1, Zenon DEF Present
<1>4. refs[e] = CanonRefs(d, g)
  BY <1>1, <1>3, Zenon DEF IInv, CanonInv
<1>5. CanonRefs(d, g) = CanonRefs(c, g)
  <2> SUFFICES ASSUME NEW k \in DOMAIN CrossRefs[g]
               PROVE  rec[d][CrossRefs[g][k].grp] = rec[c][CrossRefs[g][k].grp]
    BY Zenon DEF CanonRefs
  <2> DEFINE r == CrossRefs[g][k]
  <2>1. r.grp \in Group /\ rec[d][r.grp] # NoEntry
    BY <1>1, <1>3, RefsPresent, Zenon
  <2>2. rec[c][r.grp] # NoEntry
    BY <1>1, RefsPresent, Zenon
  <2> QED BY <1>1, <2>1, <2>2, Zenon DEF IInv, SameGroupSameEntry
<1> QED BY <1>2, <1>4, <1>5, Zenon DEF Lookup, Key

\* What both ways of registering a group do to the collection and the writer.
LEMMA PlaceFilled ==
  ASSUME IInv, Registering, NEW e \in Entry, Pushed(e), UNCHANGED <<cst, cmod>>
  PROVE  /\ \A d \in Coll, f \in Group :
              rec'[d][f] = IF d = writer.c /\ f = CurGroup THEN e ELSE rec[d][f]
         /\ rec' \in [Coll -> [Group -> Entry \cup {NoEntry}]]
         /\ writer' \in [op : {"register", "drop"}, c : Coll, i : Nat]
         /\ dropStack' = dropStack => LockInv'
         /\ \A d \in Coll, f \in Group : rec'[d][f] # NoEntry <=> Present(d, f)'
         /\ Kept(e)' /\ \A o \in Entry : Kept(o) => Kept(o)'
<1>0. PICK c \in Coll : c = writer.c
  BY AtGroup, Zenon
<1>1. /\ c \in Coll /\ cst[c] = "registering" /\ CurGroup \in Group /\ rec[c][CurGroup] = NoEntry
      /\ writer.i \in 1..Len(Groups[cmod[c]]) /\ dropStack = {}
  BY <1>0, AtGroup, Zenon
<1>2. /\ writer'.op = "register" /\ writer'.c = c /\ writer'.i = writer.i + 1
      /\ writer' \in [op : {"register", "drop"}, c : Coll, i : Nat]
  BY <1>0, AtGroup, Zenon DEF Pushed
<1>3. /\ \A d \in Coll, f \in Group : rec'[d][f] = IF d = c /\ f = CurGroup THEN e ELSE rec[d][f]
      /\ rec' \in [Coll -> [Group -> Entry \cup {NoEntry}]]
  BY <1>0, <1>1, Zenon DEF IInv, TypeOK, Pushed
<1>4. dropStack' = dropStack => LockInv'
  BY <1>0, <1>1, <1>2 DEF IInv, LockInv, Registering
<1>5. \A d \in Coll, f \in Group : rec'[d][f] # NoEntry <=> Present(d, f)'
  <2> SUFFICES ASSUME NEW d \in Coll, NEW f \in Group
               PROVE  rec'[d][f] # NoEntry <=> Present(d, f)'
    BY Zenon
  <2>1. rec[d][f] # NoEntry <=> Present(d, f)
    BY Zenon DEF IInv, RecInv
  <2>2. CASE d = c
    <3>1. Present(c, f)' <=> (Present(c, f) \/ f = CurGroup)
      BY <1>0, <1>1, <1>2 DEF Present, CurGroup
    <3>2. rec'[c][f] = IF f = CurGroup THEN e ELSE rec[c][f]
      BY <1>1, <1>3, Zenon
    <3>3. e # NoEntry
      BY GroupAssumption, Zenon
    <3> QED BY <2>1, <2>2, <3>1, <3>2, <3>3, Zenon
  <2>3. CASE d # c
    <3>1. cst[d] # "registering" /\ cst[d] # "dropping"
      BY <1>0, <2>3, Zenon DEF IInv, LockInv, Registering
    <3>2. Present(d, f)' <=> Present(d, f)
      BY <3>1, Zenon DEF Present
    <3> QED BY <1>3, <2>1, <2>3, <3>2, Zenon
  <2> QED BY <2>2, <2>3, Zenon
<1>6. Kept(e)'
  <2>1. rec'[c][CurGroup] = e /\ cst'[c] = "registering"
    BY <1>1, <1>3, Zenon
  <2> QED BY <1>1, <2>1, Zenon DEF Kept
<1>7. \A o \in Entry : Kept(o) => Kept(o)'
  BY <1>1, <1>3, GroupAssumption, ZenonT(60) DEF Kept
<1> QED BY <1>0, <1>2, <1>3, <1>4, <1>5, <1>6, <1>7, Zenon

LEMMA StepRegisterKnown ==
  ASSUME IInv, NEW e \in Entry, RegisterKnown(e)
  PROVE  IInv'
<1>0. PICK c \in Coll, g \in Group : c = writer.c /\ g = CurGroup
  BY AtGroup, Zenon DEF RegisterKnown
<1>1. /\ Registering /\ cst[c] = "registering" /\ rec[c][g] = NoEntry /\ dropStack = {}
      /\ e \in consMap /\ shape[e] = g /\ refs[e] = CanonRefs(c, g)
  BY <1>0, AtGroup, Zenon DEF RegisterKnown, Lookup, Key
<1>2. /\ Pushed(e) /\ regs' = [regs EXCEPT ![e] = @ + 1]
      /\ UNCHANGED <<consMap, revMap, slab, slabLen, dropStack, shape, refs, types, selfs,
                     cst, cmod, hst, hent, failed>>
  BY Zenon DEF RegisterKnown, regVars, entryVars, hndVars
<1>3. \A d \in Coll, f \in Group : rec'[d][f] = IF d = c /\ f = g THEN e ELSE rec[d][f]
  BY <1>0, <1>1, <1>2, PlaceFilled
<1>4. TypeOK'
  <2>1. regs' \in [Entry -> Nat]
    BY <1>2 DEF IInv, TypeOK
  <2>2. /\ rec' \in [Coll -> [Group -> Entry \cup {NoEntry}]]
        /\ writer' \in [op : {"register", "drop"}, c : Coll, i : Nat]
    BY <1>1, <1>2, PlaceFilled, Zenon
  <2> QED BY <1>2, <2>1, <2>2, Zenon DEF IInv, TypeOK
<1>5. NeverFails' /\ LockInv'
  BY <1>1, <1>2, PlaceFilled, Zenon DEF IInv, NeverFails
<1>6. RecInv'
  BY <1>1, <1>2, <1>3, PlaceFilled DEF IInv, RecInv
<1>7. EntryInv' /\ KeyInv' /\ HandleInv'
  BY <1>2, Zenon DEF IInv, EntryInv, KeyInv, Key, HandleInv
<1>8. SameGroupSameEntry'
  <2>1. \A d \in Coll : rec[d][g] # NoEntry => rec[d][g] = e
    BY <1>0, <1>1, OthersFound, Zenon DEF IInv, KeyInv, Lookup, RegisterKnown
  <2> QED BY <1>3, <2>1 DEF IInv, SameGroupSameEntry
<1>9. CanonInv'
  <2> SUFFICES ASSUME NEW d \in Coll, NEW f \in Group,
                      cst[d] \in {"registering", "loaded"}, rec'[d][f] # NoEntry
               PROVE  refs[rec'[d][f]] = CanonRefs(d, f)'
    BY <1>2, Zenon DEF CanonInv
  <2>1. CanonRefs(d, f)' = CanonRefs(d, f)
    <3>1. \A b \in Coll, h \in Group :
            rec'[b][h] = IF b = writer.c /\ h = CurGroup THEN e ELSE rec[b][h]
      BY <1>0, <1>3, Zenon
    <3>2. \A o \in consMap : types'[o] = types[o]
      BY <1>2, Zenon
    <3>3. rec[d][f] # NoEntry \/ (d = writer.c /\ f = CurGroup)
      BY <1>0, <1>3, Zenon
    <3> QED BY <1>1, <3>1, <3>2, <3>3, CanonKept, SMTT(30)
  <2> QED BY <1>1, <1>3, <2>1, SMTT(30) DEF IInv, CanonInv
<1>10. CountsExact'
  <2>1. rec' = [rec EXCEPT ![c][g] = e]
    BY <1>0, <1>2, Zenon DEF Pushed
  <2> QED BY <1>1, <1>2, <2>1, CollAdded, Zenon DEF IInv
<1>11. PendingInv'
  <2>1. \A o \in Entry : regs'[o] = IF o = e THEN regs[o] + 1 ELSE regs[o]
    BY <1>2, Zenon DEF IInv, TypeOK
  <2>2. Kept(e)' /\ \A o \in Entry : Kept(o) => Kept(o)'
    BY <1>1, <1>2, PlaceFilled, Zenon
  <2>3. regs[e] \in Nat /\ consMap \subseteq Entry
    BY Zenon DEF IInv, TypeOK
  <2>4. \A h \in Handle : hst[h] = "zero" => hent[h] \in consMap
    BY Zenon DEF IInv, HandleInv
  <2> QED BY <1>1, <1>2, <2>1, <2>2, <2>3, <2>4, SMTT(30) DEF IInv, PendingInv
<1> QED BY <1>4, <1>5, <1>6, <1>7, <1>8, <1>9, <1>10, <1>11, Zenon DEF IInv

-----------------------------------------------------------------------------
(***************************************************************************)
(* A new entry.                                                            *)
(***************************************************************************)
\* The slab hands out vacant ids below its new length.
LEMMA SlabGrows ==
  ASSUME slabLen \in Nat, NEW n \in Nat, NEW ids \in SlabAlloc(n)
  PROVE  LET new == {ids[p] : p \in 1..n}
             len == slabLen + Cardinality({i \in new : i >= slabLen})
         IN  /\ ids \in [1..n -> Nat] /\ new \cap slab = {}
             /\ len \in Nat /\ len >= slabLen /\ \A i \in new : i \in 0..(len-1)
<1> DEFINE new == {ids[p] : p \in 1..n}
           G   == {i \in new : i >= slabLen}
<1>1. ids \in [1..n -> 0..(slabLen+n-1)] /\ new \cap slab = {}
  BY DEF SlabAlloc
<1>2. G \subseteq 0..(slabLen+n-1) /\ new \subseteq Nat
  BY <1>1
<1>3. IsFiniteSet(G) /\ Cardinality(G) \in Nat
  <2>1. IsFiniteSet(0..(slabLen+n-1))
    BY FS_Interval
  <2> QED BY <1>2, <2>1, FS_Subset, FS_CardinalityType, Zenon
<1>4. ASSUME NEW i \in new, i >= slabLen
      PROVE  i <= slabLen + Cardinality(G) - 1
  <2>1. \A x \in slabLen..i : x \in G
    <3>1. PICK p \in 1..n : ids[p] = i
      BY Zenon
    <3>2. \A x \in slabLen..(i-1) : \E q \in 1..(p-1) : ids[q] = x
      BY <1>4, <3>1, Zenon DEF SlabAlloc
    <3>3. \A x \in slabLen..(i-1) : x \in new
      BY <3>2
    <3> QED BY <1>2, <1>4, <3>3
  <2>2. i \in Nat /\ slabLen..i \in SUBSET G
    BY <1>2, <2>1, Zenon
  <2>3. Cardinality(slabLen..i) <= Cardinality(G)
    BY <1>3, <2>2, FS_Subset, Zenon
  <2>4. Cardinality(slabLen..i) = i - slabLen + 1
    BY <1>4, <2>2, FS_Interval
  <2> QED BY <1>3, <2>2, <2>3, <2>4
<1>5. \A i \in new : i \in Nat /\ (i < slabLen \/ i <= slabLen + Cardinality(G) - 1)
  <2> SUFFICES ASSUME NEW i \in new
               PROVE  i \in Nat /\ (i < slabLen \/ i <= slabLen + Cardinality(G) - 1)
    BY Zenon
  <2>1. i \in Nat
    BY <1>2, Zenon
  <2>2. i >= slabLen => i <= slabLen + Cardinality(G) - 1
    BY <1>4, Zenon
  <2> HIDE DEF G, new
  <2> QED BY <2>1, <2>2
<1>6. ids \in [1..n -> Nat]
  BY <1>1
<1> DEFINE len == slabLen + Cardinality(G)
<1>7. len \in Nat /\ len >= slabLen /\ \A i \in new : i \in 0..(len-1)
  <2> HIDE DEF G, new
  <2> QED BY <1>3, <1>5
<1> QED BY <1>1, <1>6, <1>7, Zenon

\* What the new entry refers to: types of entries its own module keeps.
LEMMA NewRefs ==
  ASSUME IInv, Registering, NEW c \in Coll, NEW g \in Group, c = writer.c, g = CurGroup
  PROVE  LET canon == CanonRefs(c, g)
         IN  /\ DOMAIN canon = DOMAIN CrossRefs[g] /\ DOMAIN canon \subseteq EdgePos
             /\ canon \in Seq(Nat)
             /\ \A k \in DOMAIN canon : canon[k] \in slab /\ Kept(revMap[canon[k]])
<1> DEFINE canon == CanonRefs(c, g)
<1>1. DOMAIN canon = DOMAIN CrossRefs[g] /\ DOMAIN canon \subseteq EdgePos
  BY Zenon DEF CanonRefs, EdgePos
<1>2. ASSUME NEW k \in DOMAIN canon
      PROVE  canon[k] \in slab /\ Kept(revMap[canon[k]])
  <2> DEFINE r == CrossRefs[g][k]
             o == rec[c][r.grp]
  <2>0. cst[c] = "registering" /\ cst[c] \in {"registering", "loaded"}
        /\ k \in DOMAIN CrossRefs[g] /\ (Registering /\ c = writer.c /\ g = CurGroup)
    BY <1>1, AtGroup, Zenon
  <2>1. r.grp \in Group /\ r.pos \in 1..Size[r.grp] /\ o # NoEntry
    <3> HIDE DEF canon
    <3> QED BY <2>0, RefsPresent, Zenon
  <2>2. o \in consMap /\ shape[o] = r.grp
    BY <2>1, Zenon DEF IInv, RecInv
  <2>3. canon[k] = types[o][r.pos]
    BY <1>1, Zenon DEF CanonRefs
  <2>4. canon[k] \in slab /\ revMap[canon[k]] = o
    <3>1. r.pos \in 1..Size[shape[o]]
      BY <2>1, <2>2, Zenon
    <3> HIDE DEF canon, o, r
    <3> QED BY <2>2, <2>3, <3>1 DEF IInv, EntryInv
  <2> QED BY <2>0, <2>1, <2>4, Zenon DEF Kept
<1>3. canon \in Seq(Nat)
  <2>1. CrossRefs[g] \in Seq([grp : Group, pos : Nat])
    BY GroupAssumption, Zenon
  <2>2. DOMAIN canon = 1..Len(CrossRefs[g]) /\ Len(CrossRefs[g]) \in Nat
    BY <1>1, <2>1
  <2>3. \A k \in DOMAIN canon : canon[k] \in Nat
    BY <1>2 DEF IInv, TypeOK
  <2>4. canon \in [1..Len(CrossRefs[g]) -> Nat]
    BY <2>2, <2>3, Zenon DEF CanonRefs
  <2> QED BY <2>2, <2>4
<1> QED BY <1>1, <1>2, <1>3, Zenon

LEMMA StepRegisterNew ==
  ASSUME IInv, NEW e \in Entry, RegisterNew(e)
  PROVE  IInv'
<1>0. PICK c \in Coll, g \in Group : c = writer.c /\ g = CurGroup
  BY AtGroup, Zenon DEF RegisterNew
<1>00. PICK canon : canon = CanonRefs(c, g)
  BY Zenon
<1>1. /\ Registering /\ cst[c] = "registering" /\ rec[c][g] = NoEntry /\ dropStack = {}
      /\ e \notin consMap /\ Lookup(<<g, canon>>) = {}
  <2>1. Registering /\ e \in Entry \ Allocated /\ Lookup(<<g, canon>>) = {}
    BY <1>0, <1>00, Zenon DEF RegisterNew
  <2> QED BY <1>0, <2>1, AtGroup DEF Allocated
<1>2. /\ DOMAIN canon = DOMAIN CrossRefs[g] /\ DOMAIN canon \subseteq EdgePos
      /\ canon \in Seq(Nat)
      /\ \A k \in DOMAIN canon : canon[k] \in slab /\ Kept(revMap[canon[k]])
  BY <1>0, <1>00, <1>1, NewRefs, Zenon
<1>3. PICK ids \in SlabAlloc(Size[g]) : InsertTypes(e, g, canon, ids)
  BY <1>0, <1>00, Zenon DEF RegisterNew
<1>4. PICK new : new = {ids[p] : p \in 1..Size[g]}
  BY Zenon
<1>5. Size[g] \in Nat /\ slabLen \in Nat /\ slab = DOMAIN revMap
  BY GroupAssumption DEF IInv, TypeOK, EntryInv
<1>6. /\ ids \in [1..Size[g] -> Nat] /\ new \cap slab = {}
      /\ slabLen' \in Nat /\ slabLen' >= slabLen /\ \A i \in new : i \in 0..(slabLen'-1)
  BY <1>3, <1>4, <1>5, SlabGrows, Zenon DEF InsertTypes
<1>7. /\ types' = [types EXCEPT ![e] = ids] /\ slab' = slab \cup new
      /\ revMap' = [i \in slab \cup new |-> IF i \in new THEN e ELSE revMap[i]]
      /\ failed' = RegisterCheck(canon, new)
  BY <1>3, <1>4, <1>5, Zenon DEF InsertTypes
<1>77. failed' = failed
  <2>1. RegisterCheck(canon, new) = failed
    BY <1>2, <1>5, <1>6, Zenon DEF RegisterCheck
  <2> QED BY <1>7, <2>1, Zenon
<1>8. /\ Pushed(e) /\ consMap' = consMap \cup {e}
      /\ shape' = [shape EXCEPT ![e] = g] /\ refs' = [refs EXCEPT ![e] = canon]
      /\ regs' = [o \in Entry |-> IF o = e THEN 1 ELSE regs[o] + AddedRefs(canon, o)]
      /\ UNCHANGED <<dropStack, cst, cmod, hst, hent>>
  BY <1>0, <1>00, Zenon DEF RegisterNew, hndVars
<1>9. \A d \in Coll, f \in Group : rec'[d][f] = IF d = c /\ f = g THEN e ELSE rec[d][f]
  BY <1>0, <1>1, <1>8, PlaceFilled
<1>10. \A o \in consMap : /\ o # e /\ o \in Entry /\ o \in consMap'
                          /\ types'[o] = types[o] /\ shape'[o] = shape[o] /\ refs'[o] = refs[o]
  BY <1>1, <1>7, <1>8, Zenon DEF IInv, TypeOK
<1>11. types'[e] = ids /\ shape'[e] = g /\ refs'[e] = canon /\ e \in consMap'
  BY <1>7, <1>8, Zenon DEF IInv, TypeOK
<1>12. \A o \in Entry : AddedRefs(canon, o) \in Nat
  <2>1. ASSUME NEW o \in Entry PROVE IsFiniteSet(RefsTo(canon, o))
    BY <1>2, EdgePosFinite, FS_Subset, Zenon DEF RefsTo
  <2> QED BY <2>1, FS_CardinalityType, Zenon DEF AddedRefs
<1>13. TypeOK'
  <2>1. slab' \subseteq 0..(slabLen'-1)
    BY <1>6, <1>7 DEF IInv, TypeOK
  <2>2. DOMAIN revMap' \subseteq Nat /\ revMap' \in [DOMAIN revMap' -> Entry]
    BY <1>5, <1>6, <1>7 DEF IInv, TypeOK
  <2>3. types' \in [Entry -> Seq(Nat)] /\ refs' \in [Entry -> Seq(Nat)]
    <3>1. ids \in Seq(Nat)
      BY <1>5, <1>6
    <3> QED BY <1>2, <1>7, <1>8, <3>1, Zenon DEF IInv, TypeOK
  <2>4. regs' \in [Entry -> Nat]
    BY <1>8, <1>12 DEF IInv, TypeOK
  <2>5. rec' \in [Coll -> [Group -> Entry \cup {NoEntry}]]
        /\ writer' \in [op : {"register", "drop"}, c : Coll, i : Nat]
    BY <1>1, <1>8, PlaceFilled, Zenon
  <2> QED BY <1>6, <1>8, <2>1, <2>2, <2>3, <2>4, <2>5, Zenon DEF IInv, TypeOK
<1>14. NeverFails' /\ LockInv'
  BY <1>1, <1>77, <1>8, PlaceFilled, Zenon DEF IInv, NeverFails
<1>15. RecInv'
  <2>1. \A d \in Coll, f \in Group : rec'[d][f] # NoEntry <=> Present(d, f)'
    BY <1>1, <1>8, PlaceFilled, Zenon
  <2>2. ASSUME NEW d \in Coll, NEW f \in Group, rec'[d][f] # NoEntry
        PROVE  rec'[d][f] \in consMap' /\ shape'[rec'[d][f]] = f
    <3>1. CASE d = c /\ f = g
      BY <1>9, <1>11, <3>1, Zenon
    <3>2. CASE ~(d = c /\ f = g)
      <4>1. rec'[d][f] = rec[d][f]
        BY <1>9, <3>2, Zenon
      <4>2. rec[d][f] \in consMap /\ shape[rec[d][f]] = f
        BY <2>2, <4>1, Zenon DEF IInv, RecInv
      <4> QED BY <1>10, <4>1, <4>2, Zenon
    <3> QED BY <3>1, <3>2, Zenon
  <2> QED BY <2>1, <2>2, Zenon DEF RecInv
<1>16. EntryInv'
  <2>1. slab' = DOMAIN revMap' /\ \A i \in new : revMap'[i] = e
    BY <1>7, Zenon
  <2>2. \A i \in slab : revMap'[i] = revMap[i]
    BY <1>6, <1>7, Zenon
  <2>3. \A o \in consMap :
          /\ DOMAIN types[o] = 1..Size[shape[o]]
          /\ \A p \in 1..Size[shape[o]] : types[o][p] \in slab /\ revMap[types[o][p]] = o
          /\ DOMAIN refs[o] = DOMAIN CrossRefs[shape[o]]
          /\ \A k \in DOMAIN refs[o] : refs[o][k] \in slab
    BY Zenon DEF IInv, EntryInv
  <2>4. \A o \in consMap' :
          /\ DOMAIN types'[o] = 1..Size[shape'[o]]
          /\ \A p \in 1..Size[shape'[o]] : types'[o][p] \in slab' /\ revMap'[types'[o][p]] = o
          /\ DOMAIN refs'[o] = DOMAIN CrossRefs[shape'[o]]
          /\ \A k \in DOMAIN refs'[o] : refs'[o][k] \in slab'
    <3> SUFFICES ASSUME NEW o \in consMap'
                 PROVE  /\ DOMAIN types'[o] = 1..Size[shape'[o]]
                        /\ \A p \in 1..Size[shape'[o]] : types'[o][p] \in slab' /\ revMap'[types'[o][p]] = o
                        /\ DOMAIN refs'[o] = DOMAIN CrossRefs[shape'[o]]
                        /\ \A k \in DOMAIN refs'[o] : refs'[o][k] \in slab'
      BY SMTT(60)
    <3>1. CASE o \in consMap
      <4>1. types'[o] = types[o] /\ shape'[o] = shape[o] /\ refs'[o] = refs[o]
        BY <1>10, <3>1, Zenon
      <4>2. \A i \in slab : i \in slab' /\ revMap'[i] = revMap[i]
        BY <1>7, <2>2, Zenon
      <4>3. \A p \in 1..Size[shape[o]] : types[o][p] \in slab' /\ revMap'[types[o][p]] = o
        BY <2>3, <3>1, <4>2, Zenon
      <4>4. \A k \in DOMAIN refs[o] : refs[o][k] \in slab'
        BY <2>3, <3>1, <4>2, Zenon
      <4>5. DOMAIN types[o] = 1..Size[shape[o]] /\ DOMAIN refs[o] = DOMAIN CrossRefs[shape[o]]
        BY <2>3, <3>1, Zenon
      <4> QED BY <4>1, <4>3, <4>4, <4>5, Zenon
    <3>2. CASE o = e
      <4>1. types'[o] = ids /\ shape'[o] = g /\ refs'[o] = canon
        BY <1>11, <3>2, Zenon
      <4>2. \A p \in 1..Size[g] : ids[p] \in new
        BY <1>4, Zenon
      <4>3. \A p \in 1..Size[g] : ids[p] \in slab' /\ revMap'[ids[p]] = o
        BY <1>7, <2>1, <3>2, <4>2, Zenon
      <4>4. DOMAIN ids = 1..Size[g] /\ \A k \in DOMAIN canon : canon[k] \in slab'
        BY <1>2, <1>6, <1>7, Zenon
      <4> QED BY <1>2, <4>1, <4>3, <4>4, Zenon
    <3> QED BY <1>8, <3>1, <3>2, Zenon
  <2>5. \A i \in slab : revMap[i] \in consMap /\ \E p \in 1..Size[shape[revMap[i]]] : types[revMap[i]][p] = i
    BY Zenon DEF IInv, EntryInv
  <2>6. \A i \in slab' : revMap'[i] \in consMap'
                         /\ \E p \in 1..Size[shape'[revMap'[i]]] : types'[revMap'[i]][p] = i
    <3> SUFFICES ASSUME NEW i \in slab'
                 PROVE  revMap'[i] \in consMap'
                         /\ \E p \in 1..Size[shape'[revMap'[i]]] : types'[revMap'[i]][p] = i
      BY Zenon
    <3>1. CASE i \in slab
      <4>1. PICK o \in consMap : o = revMap[i] /\ revMap'[i] = o
        BY <2>2, <2>5, <3>1, Zenon
      <4>2. PICK p \in 1..Size[shape[o]] : types[o][p] = i
        BY <2>5, <3>1, <4>1, Zenon
      <4> QED BY <1>10, <4>1, <4>2, Zenon
    <3>2. CASE i \in new
      BY <1>4, <1>11, <2>1, <3>2, Zenon
    <3> QED BY <1>7, <3>1, <3>2, Zenon
  <2> QED BY <2>1, <2>4, <2>6, Zenon DEF EntryInv
<1>17. KeyInv'
  <2>1. \A o \in consMap : Key(o)' = Key(o) /\ Key(o) # <<g, canon>>
    BY <1>1, <1>10, Zenon DEF Key, Lookup
  <2>2. Key(e)' = <<g, canon>>
    BY <1>11, Zenon DEF Key
  <2> QED BY <1>8, <2>1, <2>2 DEF IInv, KeyInv
<1>18. CanonInv'
  <2> SUFFICES ASSUME NEW d \in Coll, NEW f \in Group,
                      cst[d] \in {"registering", "loaded"}, rec'[d][f] # NoEntry
               PROVE  refs'[rec'[d][f]] = CanonRefs(d, f)'
    BY <1>8, Zenon DEF CanonInv
  <2>1. CanonRefs(d, f)' = CanonRefs(d, f)
    BY <1>0, <1>1, <1>9, <1>10, CanonKept
  <2>2. CASE d = c /\ f = g
    BY <1>00, <1>9, <1>11, <2>1, <2>2, Zenon
  <2>3. CASE ~(d = c /\ f = g)
    <3>1. rec'[d][f] = rec[d][f] /\ rec[d][f] \in consMap
      BY <1>9, <2>3, Zenon DEF IInv, RecInv
    <3> QED BY <1>10, <2>1, <3>1, Zenon DEF IInv, CanonInv
  <2> QED BY <2>2, <2>3, Zenon
<1>19. HandleInv'
  BY <1>8, Zenon DEF IInv, HandleInv
<1>20. SameGroupSameEntry'
  <2>1. \A d \in Coll : rec[d][g] = NoEntry
    BY <1>0, <1>00, <1>1, OthersFound, Zenon
  <2> QED BY <1>9, <2>1 DEF IInv, SameGroupSameEntry
<1>21. PendingInv'
  <2>1. \A o \in consMap : regs'[o] = regs[o] + AddedRefs(canon, o) /\ regs[o] \in Nat
    BY <1>8, <1>10, Zenon DEF IInv, TypeOK
  <2>2. \A o \in Entry : Kept(o) => Kept(o)'
    BY <1>1, <1>8, PlaceFilled, Zenon
  <2>3. \A o \in consMap : AddedRefs(canon, o) # 0 => Kept(o)
    <3> SUFFICES ASSUME NEW o \in consMap, AddedRefs(canon, o) # 0 PROVE Kept(o)
      BY Zenon
    <3>1. RefsTo(canon, o) # {}
      BY FS_EmptySet, Zenon DEF AddedRefs
    <3> QED BY <1>2, <3>1, Zenon DEF RefsTo
  <2>4. regs'[e] = 1
    BY <1>8, Zenon
  <2>5. \A h \in Handle : hst[h] = "zero" => hent[h] \in consMap
    BY Zenon DEF IInv, HandleInv
  <2> QED BY <1>1, <1>8, <1>10, <1>12, <2>1, <2>2, <2>3, <2>4, <2>5, SMTT(30) DEF IInv, PendingInv
<1>22. CountsExact'
  <2>1. /\ \A o \in consMap : \A k \in DOMAIN refs[o] : refs[o][k] \in slab
        /\ \A i \in slab : revMap[i] \in consMap /\ revMap'[i] = revMap[i] /\ i \in DOMAIN revMap'
    BY <1>6, <1>7, Zenon DEF IInv, EntryInv
  <2>2. \A x \in consMap, o \in consMap : RefsTo(refs[x], o)' = RefsTo(refs[x], o)
    BY <1>5, <1>10, <2>1 DEF RefsTo
  <2>3. \A o \in consMap : RefsTo(refs[e], o)' = RefsTo(canon, o)
    BY <1>2, <1>5, <1>11, <2>1, Zenon DEF RefsTo
  <2>4. \A x \in consMap' : RefsTo(refs[x], e)' = {}
    <3>1. \A i \in slab : revMap'[i] # e
      BY <1>1, <2>1, Zenon
    <3>2. \A x \in consMap' : \A k \in DOMAIN refs'[x] : refs'[x][k] \in slab
      BY <1>2, <1>8, <1>10, <1>11, <2>1
    <3> QED BY <3>1, <3>2, Zenon DEF RefsTo
  <2>5. ASSUME NEW o \in consMap
        PROVE  regs'[o] = Cardinality(CollHolders(o))' + Cardinality(HandleHolders(o))'
                            + Cardinality(EdgeHolders(o))'
    <3>1. HandleHolders(o)' = HandleHolders(o)
      BY <1>8, Zenon DEF HandleHolders
    <3>2. CollHolders(o)' = CollHolders(o)
      <4>1. <<c, g>> \notin CollHolders(o)
        BY <1>1, <1>10, GroupAssumption, Zenon DEF CollHolders
      <4>2. CollHolders(o)' = IF o = e THEN CollHolders(o) \cup {<<c, g>>}
                                       ELSE CollHolders(o) \ {<<c, g>>}
        BY <1>9, PlaceChanged, Zenon
      <4> QED BY <1>10, <4>1, <4>2, Zenon
    <3>3. EdgeHolders(o)' = EdgeHolders(o) \cup ({e} \X RefsTo(canon, o))
      <4> DEFINE Old == {x \in consMap \X EdgePos : x[2] \in RefsTo(refs[x[1]], o)}
                 New == {x \in (consMap \cup {e}) \X EdgePos : x[2] \in RefsTo(refs[x[1]], o)'}
      <4>1. EdgeHolders(o) = Old /\ EdgeHolders(o)' = New
        BY <1>8, Zenon DEF EdgeHolders
      <4>2. RefsTo(canon, o) \subseteq EdgePos
        BY <1>2, Zenon DEF RefsTo
      <4>3. \A x \in consMap, k \in EdgePos : <<x, k>> \in New <=> <<x, k>> \in Old
        BY <2>2, Zenon
      <4>4. \A k \in EdgePos : <<e, k>> \in New <=> k \in RefsTo(canon, o)
        BY <2>3, Zenon
      <4>5. New = Old \cup ({e} \X RefsTo(canon, o))
        BY <1>10, <4>2, <4>3, <4>4, Zenon
      <4> QED BY <4>1, <4>5, Zenon
    <3>4. EdgeHolders(o) \cap ({e} \X RefsTo(canon, o)) = {}
      BY <1>1, Zenon DEF EdgeHolders
    <3>5. IsFiniteSet(RefsTo(canon, o))
      BY <1>2, EdgePosFinite, FS_Subset, Zenon DEF RefsTo
    <3>6. IsFiniteSet({e} \X RefsTo(canon, o))
          /\ Cardinality({e} \X RefsTo(canon, o)) = AddedRefs(canon, o)
      <4>1. IsFiniteSet({e}) /\ Cardinality({e}) = 1
        BY FS_Singleton, Zenon
      <4>2. Cardinality({e} \X RefsTo(canon, o)) = 1 * AddedRefs(canon, o)
        BY <3>5, <4>1, FS_Product, Zenon DEF AddedRefs
      <4> QED BY <1>10, <1>12, <3>5, <4>1, <4>2, FS_Product
    <3>7. Cardinality(EdgeHolders(o))' = Cardinality(EdgeHolders(o)) + AddedRefs(canon, o)
      <4>1. IsFiniteSet(EdgeHolders(o)) /\ Cardinality(EdgeHolders(o)) \in Nat
        BY HoldersFinite, Zenon DEF IInv
      <4>2. Cardinality({}) = 0 /\ AddedRefs(canon, o) \in Nat
        BY <1>10, <1>12, FS_EmptySet, Zenon
      <4>3. Cardinality(EdgeHolders(o) \cup ({e} \X RefsTo(canon, o)))
              = Cardinality(EdgeHolders(o)) + Cardinality({e} \X RefsTo(canon, o))
                  - Cardinality(EdgeHolders(o) \cap ({e} \X RefsTo(canon, o)))
        BY <3>6, <4>1, FS_Union, Zenon
      <4>4. Cardinality(EdgeHolders(o) \cap ({e} \X RefsTo(canon, o))) = 0
        BY <3>4, <4>2, Zenon
      <4>5. Cardinality(EdgeHolders(o))' = Cardinality(EdgeHolders(o) \cup ({e} \X RefsTo(canon, o)))
        BY <3>3, Zenon
      <4> HIDE DEF EdgeHolders
      <4> QED BY <3>6, <4>1, <4>2, <4>3, <4>4, <4>5
    <3>8. regs'[o] = regs[o] + AddedRefs(canon, o)
      BY <1>8, <1>10, Zenon
    <3> QED BY <1>10, <1>12, <3>1, <3>2, <3>7, <3>8, HoldersFinite DEF IInv, CountsExact
  <2>6. 1 = Cardinality(CollHolders(e))' + Cardinality(HandleHolders(e))' + Cardinality(EdgeHolders(e))'
    <3>1. HandleHolders(e)' = {}
      BY <1>1, <1>8, Zenon DEF HandleHolders, IInv, HandleInv
    <3>2. CollHolders(e)' = {<<c, g>>}
      <4>1. CollHolders(e) = {}
        BY <1>1, GroupAssumption DEF CollHolders, IInv, RecInv
      <4>2. CollHolders(e)' = IF e = e THEN CollHolders(e) \cup {<<c, g>>}
                                       ELSE CollHolders(e) \ {<<c, g>>}
        BY <1>9, PlaceChanged, Zenon
      <4> QED BY <4>1, <4>2, Zenon
    <3>3. EdgeHolders(e)' = {}
      BY <2>4, Zenon DEF EdgeHolders
    <3>4. Cardinality({}) = 0 /\ Cardinality({<<c, g>>}) = 1
      BY FS_EmptySet, FS_Singleton, Zenon
    <3> QED BY <3>1, <3>2, <3>3, <3>4
  <2> QED BY <1>8, <2>5, <2>6, Zenon DEF CountsExact
<1> QED BY <1>13, <1>14, <1>15, <1>16, <1>17, <1>18, <1>19, <1>20, <1>21, <1>22, Zenon DEF IInv

-----------------------------------------------------------------------------
(***************************************************************************)
(* A module gives up a group.                                              *)
(***************************************************************************)
LEMMA StepDropGroup ==
  ASSUME IInv, DropGroup
  PROVE  IInv'
<1>0. /\ writer.op = "drop" /\ dropStack = {} /\ writer.i <= Len(Groups[cmod[writer.c]])
      /\ writer \in [op : {"register", "drop"}, c : Coll, i : Nat]
  <2>1. writer.op = "drop" /\ dropStack = {} /\ writer.i <= Len(Groups[cmod[writer.c]])
    BY Zenon DEF DropGroup
  <2>2. writer \in {Idle, [op |-> "unregister"]} \cup [op : {"register", "drop"}, c : Coll, i : Nat]
    BY Zenon DEF IInv, TypeOK
  <2> QED BY <2>1, <2>2 DEF Idle
<1>1. PICK c \in Coll : c = writer.c
  BY <1>0, Zenon
<1>2. cst[c] = "dropping" /\ writer.i \in 1..Len(Groups[cmod[c]])
  BY <1>0, <1>1 DEF IInv, LockInv
<1>3. PICK g \in Group : g = CurGroup
  <2>1. Groups[cmod[c]] \in Seq(Group)
    BY ModuleAssumption, Zenon DEF IInv, TypeOK
  <2>2. Groups[cmod[c]][writer.i] \in Group
    BY <1>2, <2>1, ElementOf
  <2> QED BY <1>1, <2>2, Zenon DEF CurGroup
<1>4. PICK e : e = rec[c][g]
  BY Zenon
<1>5. e # NoEntry /\ e \in consMap /\ e \in Entry
  <2>1. Present(c, g)
    BY <1>1, <1>2, <1>3 DEF Present, CurGroup
  <2> QED BY <1>4, <2>1, Zenon DEF IInv, RecInv, TypeOK
<1>6. <<c, g>> \in CollHolders(e)
  BY <1>4, Zenon DEF CollHolders
<1>7. regs[e] \in Nat /\ regs[e] # 0
  BY <1>5, <1>6, HeldIsCounted, Zenon DEF IInv, TypeOK
<1>8. /\ regs' = [regs EXCEPT ![e] = @ - 1]
      /\ dropStack' = IF regs[e] = 1 THEN {e} ELSE {}
      /\ rec' = [rec EXCEPT ![c][g] = NoEntry]
      /\ writer' = [writer EXCEPT !.i = @ + 1]
      /\ UNCHANGED <<consMap, revMap, slab, slabLen, shape, refs, types, selfs,
                     cst, cmod, hst, hent, failed>>
  BY <1>1, <1>3, <1>4, <1>7, Zenon DEF DropGroup, HitsZero, Pushed, entryVars, hndVars
<1>9. /\ writer'.op = "drop" /\ writer'.c = c /\ writer'.i = writer.i + 1
      /\ writer' \in [op : {"register", "drop"}, c : Coll, i : Nat]
  BY <1>0, <1>1, <1>8
<1>10. /\ \A d \in Coll, f \in Group : rec'[d][f] = IF d = c /\ f = g THEN NoEntry ELSE rec[d][f]
       /\ rec' \in [Coll -> [Group -> Entry \cup {NoEntry}]]
  BY <1>8, Zenon DEF IInv, TypeOK
<1>11. TypeOK'
  <2>1. regs' \in [Entry -> Nat]
    BY <1>5, <1>7, <1>8 DEF IInv, TypeOK
  <2>2. dropStack' \subseteq Entry
    BY <1>5, <1>8, Zenon
  <2> QED BY <1>8, <1>9, <1>10, <2>1, <2>2, Zenon DEF IInv, TypeOK
<1>12. NeverFails' /\ LockInv'
  BY <1>0, <1>1, <1>2, <1>8, <1>9 DEF IInv, NeverFails, LockInv
<1>13. RecInv'
  <2> SUFFICES ASSUME NEW d \in Coll, NEW f \in Group
               PROVE  rec'[d][f] # NoEntry <=> Present(d, f)'
    BY <1>8, <1>10 DEF IInv, RecInv
  <2>1. rec[d][f] # NoEntry <=> Present(d, f)
    BY Zenon DEF IInv, RecInv
  <2>2. CASE d = c
    <3>1. \A i, j \in 1..Len(Groups[cmod[c]]) : Groups[cmod[c]][i] = Groups[cmod[c]][j] => i = j
      BY ModuleAssumption, Zenon DEF IInv, TypeOK
    <3>2. Present(c, f)' <=> (Present(c, f) /\ f # g)
      BY <1>1, <1>2, <1>3, <1>8, <1>9, <3>1 DEF Present, CurGroup
    <3>3. rec'[c][f] = IF f = g THEN NoEntry ELSE rec[c][f]
      BY <1>10, Zenon
    <3> QED BY <2>1, <2>2, <3>2, <3>3, Zenon
  <2>3. CASE d # c
    <3>1. cst[d] # "registering" /\ cst[d] # "dropping"
      BY <1>0, <1>1, <2>3, Zenon DEF IInv, LockInv
    <3>2. Present(d, f)' <=> Present(d, f)
      BY <1>8, <3>1, Zenon DEF Present
    <3> QED BY <1>10, <2>1, <2>3, <3>2, Zenon
  <2> QED BY <2>2, <2>3, Zenon
<1>14. EntryInv' /\ KeyInv' /\ HandleInv' /\ SameGroupSameEntry'
  <2>1. EntryInv' /\ KeyInv' /\ HandleInv'
    BY <1>8, Zenon DEF IInv, EntryInv, KeyInv, Key, HandleInv
  <2> QED BY <1>10, <2>1 DEF IInv, SameGroupSameEntry
<1>15. CanonInv'
  <2> SUFFICES ASSUME NEW d \in Coll, NEW f \in Group,
                      cst[d] \in {"registering", "loaded"}, rec'[d][f] # NoEntry
               PROVE  refs[rec'[d][f]] = CanonRefs(d, f)'
    BY <1>8, Zenon DEF CanonInv
  <2>1. rec'[d] = rec[d]
    BY <1>2, <1>8, Zenon DEF IInv, TypeOK
  <2>2. CanonRefs(d, f)' = CanonRefs(d, f)
    <3> SUFFICES ASSUME NEW k \in DOMAIN CrossRefs[f]
                 PROVE  types'[rec'[d][CrossRefs[f][k].grp]] = types[rec[d][CrossRefs[f][k].grp]]
      BY Zenon DEF CanonRefs
    <3> QED BY <1>8, <2>1, Zenon
  <2> QED BY <2>1, <2>2, Zenon DEF IInv, CanonInv
<1>16. CountsExact'
  BY <1>4, <1>5, <1>8, CollRemoved, Zenon DEF IInv
<1>17. PendingInv'
  <2>1. \A o \in Entry : Kept(o)' <=> Kept(o)
    BY <1>2, <1>8, <1>10, GroupAssumption, Zenon DEF Kept
  <2>2. Kept(e) => regs[e] > 1
    <3> SUFFICES ASSUME Kept(e) PROVE regs[e] > 1
      BY Zenon
    <3>1. PICK d \in Coll, f \in Group : rec[d][f] = e /\ d # c
      BY <1>2, Zenon DEF Kept
    <3>2. <<d, f>> \in CollHolders(e) \ {<<c, g>>}
      BY <3>1, Zenon DEF CollHolders
    <3>3. IsFiniteSet(CollHolders(e)) /\ Cardinality(CollHolders(e)) \in Nat
      BY HoldersFinite, Zenon DEF IInv
    <3>4. /\ IsFiniteSet(CollHolders(e) \ {<<c, g>>})
          /\ Cardinality(CollHolders(e) \ {<<c, g>>}) = Cardinality(CollHolders(e)) - 1
      BY <1>6, <3>3, FS_RemoveElement, Zenon
    <3>5. Cardinality(CollHolders(e) \ {<<c, g>>}) # 0
      BY <3>2, <3>4, FS_EmptySet, Zenon
    <3>6. Cardinality(CollHolders(e)) > 1
      BY <1>6, <3>3, <3>4, <3>5, FS_EmptySet
    <3> QED BY <1>5, <1>7, <3>6, HoldersFinite DEF IInv, CountsExact
  <2>3. \A o \in Entry : regs'[o] = IF o = e THEN regs[o] - 1 ELSE regs[o]
    BY <1>8, Zenon DEF IInv, TypeOK
  <2>4. regs[e] = 1 => \A h \in Handle : hst[h] = "zero" => hent[h] # e
    BY <1>7, <2>2 DEF IInv, PendingInv
  <2>5. consMap \subseteq Entry /\ \A h \in Handle : hst[h] = "zero" => hent[h] \in consMap
    BY Zenon DEF IInv, TypeOK, HandleInv
  <2> QED BY <1>0, <1>5, <1>7, <1>8, <2>1, <2>2, <2>3, <2>4, <2>5 DEF IInv, PendingInv
<1> QED BY <1>11, <1>12, <1>13, <1>14, <1>15, <1>16, <1>17, Zenon DEF IInv

-----------------------------------------------------------------------------
(***************************************************************************)
(* An entry is removed.                                                    *)
(***************************************************************************)
\* What an entry about to be removed has registered is counted where it points.
LEMMA ReleasedIsCounted ==
  ASSUME IInv, NEW e \in consMap
  PROVE  \A o \in Entry :
           /\ IsFiniteSet(RefsTo(refs[e], o)) /\ ReleasedRefs(refs[e], o) \in Nat
           /\ RefsTo(refs[e], o) \subseteq EdgePos
           /\ RefsTo(refs[e], o) # {} => o \in consMap /\ ReleasedRefs(refs[e], o) # 0
           /\ RefsTo(refs[e], o) = {} => ReleasedRefs(refs[e], o) = 0
           /\ o \in consMap => /\ {e} \X RefsTo(refs[e], o) \subseteq EdgeHolders(o)
                               /\ ReleasedRefs(refs[e], o) <= Cardinality(EdgeHolders(o))
<1> SUFFICES ASSUME NEW o \in Entry
             PROVE  /\ IsFiniteSet(RefsTo(refs[e], o)) /\ ReleasedRefs(refs[e], o) \in Nat
                    /\ RefsTo(refs[e], o) \subseteq EdgePos
                    /\ RefsTo(refs[e], o) # {} => o \in consMap /\ ReleasedRefs(refs[e], o) # 0
                    /\ RefsTo(refs[e], o) = {} => ReleasedRefs(refs[e], o) = 0
                    /\ o \in consMap => /\ {e} \X RefsTo(refs[e], o) \subseteq EdgeHolders(o)
                                        /\ ReleasedRefs(refs[e], o) <= Cardinality(EdgeHolders(o))
  BY Zenon
<1>1. PICK R : R = RefsTo(refs[e], o)
  BY Zenon
<1>2. R \subseteq EdgePos
  <2>1. DOMAIN refs[e] = DOMAIN CrossRefs[shape[e]] /\ shape[e] \in Group
    BY Zenon DEF IInv, EntryInv, TypeOK
  <2> QED BY <1>1, <2>1, Zenon DEF RefsTo, EdgePos
<1>3. IsFiniteSet(R) /\ Cardinality(R) \in Nat /\ ReleasedRefs(refs[e], o) = Cardinality(R)
  BY <1>1, <1>2, EdgePosFinite, FS_Subset, FS_CardinalityType, Zenon DEF ReleasedRefs
<1>4. R = {} <=> Cardinality(R) = 0
  BY <1>3, FS_EmptySet, Zenon
<1>5. R # {} => o \in consMap
  BY <1>1 DEF RefsTo, IInv, EntryInv
<1>6. {e} \X R \subseteq EdgeHolders(o)
  BY <1>1, <1>2, Zenon DEF EdgeHolders
<1>7. Cardinality(R) <= Cardinality(EdgeHolders(o))
  <2>1. IsFiniteSet({e}) /\ Cardinality({e}) = 1
    BY FS_Singleton, Zenon
  <2>2. Cardinality({e} \X R) = Cardinality({e}) * Cardinality(R)
    BY <1>3, <2>1, FS_Product, Zenon
  <2>3. IsFiniteSet(EdgeHolders(o)) /\ Cardinality(EdgeHolders(o)) \in Nat
    BY HoldersFinite, Zenon DEF IInv
  <2>4. Cardinality({e} \X R) <= Cardinality(EdgeHolders(o))
    BY <1>6, <2>3, FS_Subset, Zenon
  <2>5. Cardinality({e} \X R) = Cardinality(R)
    BY <1>3, <2>1, <2>2
  <2> QED BY <2>4, <2>5, Zenon
<1> QED BY <1>1, <1>2, <1>3, <1>4, <1>5, <1>6, <1>7, Zenon

LEMMA StepUnregister ==
  ASSUME IInv, NEW e \in Entry, Unregister(e)
  PROVE  IInv'
<1>1. e \in dropStack /\ e \in consMap /\ regs[e] = 0
  BY Zenon DEF Unregister, StillZero, IInv, PendingInv
<1>2. CollHolders(e) = {} /\ HandleHolders(e) = {} /\ EdgeHolders(e) = {}
  BY <1>1, ZeroHasNoHolder, Zenon DEF IInv
<1>3. PICK ids : ids = TypeIds(e)
  BY Zenon
<1>4. /\ regs' = [o \in Entry |-> regs[o] - ReleasedRefs(refs[e], o)]
      /\ dropStack' = (dropStack \ {e}) \cup Cascade(e)
      /\ consMap' = {x \in consMap : Key(x) # Key(e)}
      /\ revMap' = [i \in DOMAIN revMap \ ids |-> revMap[i]]
      /\ slab' = slab \ ids
      /\ failed' = UnregisterCheck(e)
      /\ UNCHANGED <<slabLen, shape, refs, types, selfs, cst, cmod, rec, hst, hent, writer>>
  BY <1>3, Zenon DEF Unregister, entryVars, collVars, hndVars
<1>5. consMap' = consMap \ {e}
  BY <1>1, <1>4, Zenon DEF IInv, KeyInv
<1>6. slab = DOMAIN revMap /\ ids \subseteq slab /\ \A i \in slab : i \in ids <=> revMap[i] = e
  <2>1. /\ DOMAIN types[e] = 1..Size[shape[e]]
        /\ \A p \in 1..Size[shape[e]] : types[e][p] \in slab /\ revMap[types[e][p]] = e
    BY <1>1, Zenon DEF IInv, EntryInv
  <2>2. ids = {types[e][p] : p \in 1..Size[shape[e]]}
    BY <1>3, <2>1, Zenon DEF TypeIds
  <2>3. \A i \in slab : revMap[i] = e => \E p \in 1..Size[shape[e]] : types[e][p] = i
    BY Zenon DEF IInv, EntryInv
  <2>4. slab = DOMAIN revMap
    BY Zenon DEF IInv, EntryInv
  <2> QED BY <2>1, <2>2, <2>3, <2>4
<1>7. \A i \in slab' : i \in slab /\ revMap'[i] = revMap[i] /\ revMap[i] # e
  BY <1>4, <1>6, Zenon
<1>8. \A x \in consMap : \A k \in DOMAIN refs[x] : refs[x][k] \in slab /\ revMap[refs[x][k]] # e
  <2> SUFFICES ASSUME NEW x \in consMap, NEW k \in DOMAIN refs[x]
               PROVE  refs[x][k] \in slab /\ revMap[refs[x][k]] # e
    BY Zenon
  <2>1. DOMAIN refs[x] = DOMAIN CrossRefs[shape[x]] /\ refs[x][k] \in slab /\ shape[x] \in Group
    BY Zenon DEF IInv, EntryInv, TypeOK
  <2>2. k \in EdgePos
    BY <2>1, Zenon DEF EdgePos
  <2>3. <<x, k>> \notin EdgeHolders(e)
    BY <1>2, Zenon
  <2> QED BY <1>6, <2>1, <2>2, <2>3, Zenon DEF EdgeHolders, RefsTo
<1>9. \A o \in Entry : regs[o] \in Nat /\ ReleasedRefs(refs[e], o) \in Nat
                       /\ ReleasedRefs(refs[e], o) <= regs[o]
                       /\ regs'[o] = regs[o] - ReleasedRefs(refs[e], o)
  <2> SUFFICES ASSUME NEW o \in Entry PROVE ReleasedRefs(refs[e], o) <= regs[o]
    BY <1>1, <1>4, ReleasedIsCounted, Zenon DEF IInv, TypeOK
  <2>1. regs[o] \in Nat /\ ReleasedRefs(refs[e], o) \in Nat
    BY <1>1, ReleasedIsCounted, Zenon DEF IInv, TypeOK
  <2>2. CASE o \in consMap
    <3>1. regs[o] = Cardinality(CollHolders(o)) + Cardinality(HandleHolders(o)) + Cardinality(EdgeHolders(o))
      BY <2>2, Zenon DEF IInv, CountsExact
    <3> QED BY <1>1, <2>1, <2>2, <3>1, ReleasedIsCounted, HoldersFinite DEF IInv
  <2>3. CASE o \notin consMap
    BY <1>1, <2>1, <2>3, ReleasedIsCounted
  <2> QED BY <2>2, <2>3, Zenon
<1>10. failed' = failed
  <2>1. \A k \in DOMAIN refs[e] : refs[e][k] \in DOMAIN revMap
    BY <1>1, <1>6, <1>8, Zenon
  <2>2. \A o \in Entry : ~(regs[o] < ReleasedRefs(refs[e], o))
    BY <1>9
  <2>3. \A i \in TypeIds(e) : i \in DOMAIN revMap /\ i \in slab /\ revMap[i] = e
    BY <1>3, <1>6, Zenon
  <2>4. \A i \in TypeIds(e) : Key(revMap[i]) = Key(e)
    BY <2>3, Zenon
  <2>5. UnregisterCheck(e) = failed
    BY <2>1, <2>2, <2>3, <2>4, Zenon DEF UnregisterCheck
  <2> QED BY <1>4, <2>5, Zenon
<1>11. \A o \in Cascade(e) : /\ o \in Entry /\ o \in consMap /\ o # e /\ regs[o] # 0
                             /\ regs[o] = ReleasedRefs(refs[e], o) /\ ~Kept(o)
  <2> SUFFICES ASSUME NEW o \in Cascade(e)
               PROVE  /\ o \in Entry /\ o \in consMap /\ o # e /\ regs[o] # 0
                      /\ regs[o] = ReleasedRefs(refs[e], o) /\ ~Kept(o)
    BY Zenon
  <2>1. o \in Entry /\ RefsTo(refs[e], o) # {} /\ regs[o] = ReleasedRefs(refs[e], o)
    BY Zenon DEF Cascade
  <2>2. o \in consMap /\ ReleasedRefs(refs[e], o) # 0 /\ ReleasedRefs(refs[e], o) <= Cardinality(EdgeHolders(o))
    BY <1>1, <2>1, ReleasedIsCounted, Zenon
  <2>3. ~Kept(o)
    <3> SUFFICES ASSUME Kept(o) PROVE FALSE
      BY Zenon
    <3>1. Cardinality(CollHolders(o)) # 0
      BY KeptIsHeld, HoldersFinite, FS_EmptySet, Zenon DEF IInv
    <3>2. regs[o] = Cardinality(CollHolders(o)) + Cardinality(HandleHolders(o)) + Cardinality(EdgeHolders(o))
      BY <2>2, Zenon DEF IInv, CountsExact
    <3>3. /\ Cardinality(CollHolders(o)) \in Nat /\ Cardinality(HandleHolders(o)) \in Nat
          /\ Cardinality(EdgeHolders(o)) \in Nat
      BY HoldersFinite, Zenon DEF IInv
    <3>4. regs[o] <= Cardinality(EdgeHolders(o))
      BY <2>1, <2>2, Zenon
    <3> QED BY <3>1, <3>2, <3>3, <3>4
  <2> QED BY <1>1, <2>1, <2>2, <2>3, Zenon
<1>12. TypeOK'
  <2>1. regs' \in [Entry -> Nat]
    BY <1>4, <1>9, SMTT(30)
  <2>2. DOMAIN revMap' \subseteq Nat /\ revMap' \in [DOMAIN revMap' -> Entry]
    BY <1>4, Zenon DEF IInv, TypeOK
  <2>3. dropStack' \subseteq Entry
    BY <1>4, <1>11, Zenon DEF IInv, TypeOK
  <2> QED BY <1>4, <1>5, <2>1, <2>2, <2>3, Zenon DEF IInv, TypeOK
<1>13. NeverFails' /\ LockInv'
  BY <1>1, <1>4, <1>10, Zenon DEF IInv, NeverFails, LockInv
<1>14. RecInv'
  <2>1. \A c \in Coll, g \in Group : rec[c][g] # e
    <3> SUFFICES ASSUME NEW c \in Coll, NEW g \in Group, rec[c][g] = e PROVE FALSE
      BY Zenon
    <3>1. <<c, g>> \in CollHolders(e)
      BY Zenon DEF CollHolders
    <3> QED BY <1>2, <3>1, Zenon
  <2>2. \A c \in Coll, g \in Group : Present(c, g)' <=> Present(c, g)
    BY <1>4, Zenon DEF Present
  <2> QED BY <1>4, <1>5, <2>1, <2>2, Zenon DEF IInv, RecInv
<1>15. EntryInv'
  <2>1. slab' = DOMAIN revMap'
    BY <1>4, <1>6, Zenon
  <2>2. \A o \in consMap' :
          /\ DOMAIN types[o] = 1..Size[shape[o]]
          /\ \A p \in 1..Size[shape[o]] : types[o][p] \in slab' /\ revMap'[types[o][p]] = o
          /\ DOMAIN refs[o] = DOMAIN CrossRefs[shape[o]]
          /\ \A k \in DOMAIN refs[o] : refs[o][k] \in slab'
    <3> SUFFICES ASSUME NEW o \in consMap'
                 PROVE  /\ DOMAIN types[o] = 1..Size[shape[o]]
                        /\ \A p \in 1..Size[shape[o]] : types[o][p] \in slab' /\ revMap'[types[o][p]] = o
                        /\ DOMAIN refs[o] = DOMAIN CrossRefs[shape[o]]
                        /\ \A k \in DOMAIN refs[o] : refs[o][k] \in slab'
      BY Zenon
    <3>1. o \in consMap /\ o # e
      BY <1>5, Zenon
    <3>2. /\ DOMAIN types[o] = 1..Size[shape[o]]
          /\ \A p \in 1..Size[shape[o]] : types[o][p] \in slab /\ revMap[types[o][p]] = o
          /\ DOMAIN refs[o] = DOMAIN CrossRefs[shape[o]]
      BY <3>1, Zenon DEF IInv, EntryInv
    <3>3. \A p \in 1..Size[shape[o]] : types[o][p] \in slab' /\ revMap'[types[o][p]] = o
      BY <1>4, <1>6, <1>7, <3>1, <3>2, Zenon
    <3>4. \A k \in DOMAIN refs[o] : refs[o][k] \in slab'
      BY <1>4, <1>6, <1>8, <3>1, Zenon
    <3> QED BY <3>2, <3>3, <3>4, Zenon
  <2>3. \A i \in slab' : revMap'[i] \in consMap'
                         /\ \E p \in 1..Size[shape[revMap'[i]]] : types[revMap'[i]][p] = i
    BY <1>5, <1>7, Zenon DEF IInv, EntryInv
  <2>4. types' = types /\ refs' = refs /\ shape' = shape
    BY <1>4, Zenon
  <2> QED BY <2>1, <2>2, <2>3, <2>4, Zenon DEF EntryInv
<1>16. KeyInv' /\ SameGroupSameEntry'
  BY <1>4, <1>5, SMTT(30) DEF IInv, KeyInv, Key, SameGroupSameEntry
<1>17. CanonInv'
  BY <1>4, SameCanon, Zenon DEF IInv
<1>18. HandleInv'
  <2> SUFFICES ASSUME NEW h \in Handle, hst[h] # "none", hent[h] = e PROVE FALSE
    BY <1>4, <1>5, Zenon DEF IInv, HandleInv
  <2>1. hst[h] # "held"
    BY <1>2, Zenon DEF HandleHolders
  <2>2. hst[h] # "zero"
    BY <1>1, Zenon DEF IInv, PendingInv
  <2> QED BY <2>1, <2>2, Zenon DEF IInv, TypeOK
<1>19. PendingInv'
  <2>1. \A o \in Entry : Kept(o)' <=> Kept(o)
    BY <1>4, Zenon DEF Kept
  <2>2. dropStack' \subseteq consMap'
    BY <1>4, <1>5, <1>11, Zenon DEF IInv, PendingInv
  <2>3. \A o \in consMap' : regs'[o] = 0 => \/ o \in dropStack'
                                            \/ \E h \in Handle : hst[h] = "zero" /\ hent[h] = o
    <3> SUFFICES ASSUME NEW o \in consMap', regs'[o] = 0
                 PROVE  o \in dropStack' \/ \E h \in Handle : hst[h] = "zero" /\ hent[h] = o
      BY Zenon
    <3>1. o \in consMap /\ o # e /\ o \in Entry
      BY <1>5, Zenon DEF IInv, TypeOK
    <3>2. CASE regs[o] = 0
      BY <1>4, <3>1, <3>2, Zenon DEF IInv, PendingInv
    <3>3. CASE regs[o] # 0
      <4>1. regs[o] = ReleasedRefs(refs[e], o)
        BY <1>9, <3>1
      <4>2. RefsTo(refs[e], o) # {}
        BY <1>1, <3>1, <3>3, <4>1, ReleasedIsCounted, Zenon
      <4> QED BY <1>4, <3>1, <4>1, <4>2, Zenon DEF Cascade
    <3> QED BY <3>2, <3>3, Zenon
  <2>4. \A h \in Handle : hst[h] = "zero" => hent[h] \notin dropStack'
    BY <1>4, <1>11, Zenon DEF IInv, PendingInv
  <2>5. \A o \in Entry : regs'[o] # 0 => regs[o] # 0
    BY <1>9
  <2>6. \A h \in Handle : hst[h] = "zero" /\ regs'[hent[h]] # 0 => Kept(hent[h])'
    <3>1. \A h \in Handle : hst[h] = "zero" => hent[h] \in Entry
      BY Zenon DEF IInv, HandleInv, TypeOK
    <3>2. \A h \in Handle : hst[h] = "zero" /\ regs[hent[h]] # 0 => Kept(hent[h])
      BY Zenon DEF IInv, PendingInv
    <3>3. hent' = hent /\ rec' = rec /\ cst' = cst
      BY <1>4, Zenon
    <3> QED BY <2>5, <3>1, <3>2, <3>3 DEF Kept
  <2>7. \A o \in dropStack' : regs'[o] # 0 => Kept(o)'
    <3> SUFFICES ASSUME NEW o \in dropStack', regs'[o] # 0 PROVE Kept(o)'
      BY Zenon
    <3>1. o \notin Cascade(e)
      BY <1>9, <1>11
    <3>2. o \in dropStack /\ o \in Entry
      BY <1>4, <3>1, Zenon DEF IInv, TypeOK
    <3> QED BY <2>1, <2>5, <3>2, Zenon DEF IInv, PendingInv
  <2>8. \A h, k \in Handle : hst[h] = "zero" /\ hst[k] = "zero" /\ hent[h] = hent[k] => h = k
    BY Zenon DEF IInv, PendingInv
  <2> QED BY <1>4, <2>2, <2>3, <2>4, <2>6, <2>7, <2>8, Zenon DEF PendingInv
<1>20. CountsExact'
  <2> SUFFICES ASSUME NEW o \in consMap'
               PROVE  regs'[o] = Cardinality(CollHolders(o))' + Cardinality(HandleHolders(o))'
                                   + Cardinality(EdgeHolders(o))'
    BY Zenon DEF CountsExact
  <2>1. o \in consMap /\ o # e /\ o \in Entry
    BY <1>5, Zenon DEF IInv, TypeOK
  <2>2. CollHolders(o)' = CollHolders(o) /\ HandleHolders(o)' = HandleHolders(o)
    BY <1>4, Zenon DEF CollHolders, HandleHolders
  <2>3. PICK R : R = {e} \X RefsTo(refs[e], o)
    BY Zenon
  <2>4. EdgeHolders(o)' = EdgeHolders(o) \ R
    <3>1. \A x \in consMap' : RefsTo(refs[x], o)' = RefsTo(refs[x], o)
      <4> SUFFICES ASSUME NEW x \in consMap' PROVE RefsTo(refs[x], o)' = RefsTo(refs[x], o)
        BY Zenon
      <4>1. \A k \in DOMAIN refs[x] : refs[x][k] \in slab' /\ refs[x][k] \in slab
        BY <1>4, <1>5, <1>6, <1>8, Zenon
      <4>2. DOMAIN revMap' = slab' /\ DOMAIN revMap = slab
        BY <1>4, <1>6, Zenon
      <4> QED BY <1>4, <1>7, <4>1, <4>2, Zenon DEF RefsTo
    <3> DEFINE Old == {x \in consMap \X EdgePos : x[2] \in RefsTo(refs[x[1]], o)}
               New == {x \in (consMap \ {e}) \X EdgePos : x[2] \in RefsTo(refs[x[1]], o)'}
    <3>2. EdgeHolders(o) = Old /\ EdgeHolders(o)' = New
      BY <1>5, Zenon DEF EdgeHolders
    <3>3. \A x \in consMap \ {e}, k \in EdgePos : <<x, k>> \in New <=> <<x, k>> \in Old
      BY <1>5, <3>1, Zenon
    <3>4. \A k \in EdgePos : <<e, k>> \in Old <=> <<e, k>> \in R
      BY <1>1, <2>3, Zenon
    <3>5. \A x \in R : x[1] = e
      BY <2>3, Zenon
    <3>6. New = Old \ R
      BY <3>3, <3>4, <3>5
    <3> QED BY <3>2, <3>6, Zenon
  <2>5. R \subseteq EdgeHolders(o) /\ IsFiniteSet(EdgeHolders(o)) /\ Cardinality(EdgeHolders(o)) \in Nat
    BY <1>1, <2>1, <2>3, ReleasedIsCounted, HoldersFinite, Zenon DEF IInv
  <2>6. Cardinality(R) = ReleasedRefs(refs[e], o)
    <3>1. IsFiniteSet({e}) /\ Cardinality({e}) = 1
      BY FS_Singleton, Zenon
    <3>2. IsFiniteSet(RefsTo(refs[e], o))
      BY <1>1, <2>1, ReleasedIsCounted, Zenon
    <3>3. Cardinality({e} \X RefsTo(refs[e], o)) = 1 * Cardinality(RefsTo(refs[e], o))
      BY <3>1, <3>2, FS_Product, Zenon
    <3>4. Cardinality(RefsTo(refs[e], o)) \in Nat
      BY <3>2, FS_CardinalityType, Zenon
    <3> QED BY <2>3, <3>3, <3>4 DEF ReleasedRefs
  <2>7. Cardinality(EdgeHolders(o) \ R) = Cardinality(EdgeHolders(o)) - Cardinality(R)
    <3>1. EdgeHolders(o) \cap R = R
      BY <2>5, Zenon
    <3>2. Cardinality(EdgeHolders(o) \ R) = Cardinality(EdgeHolders(o)) - Cardinality(EdgeHolders(o) \cap R)
      BY <2>5, FS_Difference, Zenon
    <3> QED BY <3>1, <3>2, Zenon
  <2>8. regs[o] = Cardinality(CollHolders(o)) + Cardinality(HandleHolders(o)) + Cardinality(EdgeHolders(o))
    BY <2>1, Zenon DEF IInv, CountsExact
  <2>9. regs'[o] = regs[o] - ReleasedRefs(refs[e], o) /\ ReleasedRefs(refs[e], o) \in Nat
    BY <1>9, <2>1, Zenon
  <2>10. Cardinality(EdgeHolders(o))' = Cardinality(EdgeHolders(o)) - ReleasedRefs(refs[e], o)
    BY <2>4, <2>6, <2>7, Zenon
  <2> QED BY <2>2, <2>8, <2>9, <2>10, HoldersFinite DEF IInv
<1> QED BY <1>12, <1>13, <1>14, <1>15, <1>16, <1>17, <1>18, <1>19, <1>20, Zenon DEF IInv

-----------------------------------------------------------------------------
(***************************************************************************)
(* The theorems.                                                           *)
(***************************************************************************)
\* Every step preserves the inductive invariant.
LEMMA NextIInv ==
  ASSUME ~OverlappingDrops, IInv, [Next]_vars
  PROVE  IInv'
<1>1. CASE UNCHANGED vars
  <2> USE <1>1 DEF vars, regVars, entryVars, collVars, hndVars, IInv
  <2>1. TypeOK' /\ NeverFails' /\ LockInv' /\ HandleInv' /\ SameGroupSameEntry'
    BY SMTT(30) DEF TypeOK, NeverFails, LockInv, HandleInv, SameGroupSameEntry
  <2>2. RecInv' /\ EntryInv' /\ KeyInv' /\ PendingInv'
    BY DEF RecInv, Present, EntryInv, KeyInv, Key, PendingInv, Kept
  <2>3. CanonInv' /\ CountsExact'
    BY SameCanon, SameCounts, Zenon
  <2> QED BY <2>1, <2>2, <2>3, Zenon
<1>2. CASE \E c \in Coll, m \in Module : RegisterModuleTypes(c, m)
  BY <1>2, StepRegisterModuleTypes, Zenon
<1>3. CASE \E h \in Handle, c \in Coll, g \in Group : \E p \in 1..Size[g] : GetType(h, c, g, p)
  BY <1>3, StepGetType, Zenon
<1>4. CASE \E h, new \in Handle : Clone(h, new)
  BY <1>4, StepClone, Zenon
<1>5. CASE \E h \in Handle : DropHandle(h)
  BY <1>5, StepDropHandle, Zenon
<1>6. CASE \E h \in Handle : DropHandleLocked(h)
  BY <1>6, StepDropHandleLocked, Zenon
<1>7. CASE \E c \in Coll : DropCollection(c)
  BY <1>7, StepDropCollection, Zenon
<1>8. CASE LockedStep
  BY SMTT(60), <1>8, StepRegisterKnown, StepResurrected, StepUnregister, StepRegisterNew,
     StepRegisterDone, StepDropGroup, StepDropCollectionDone, StepUnregisterDone DEF LockedStep
<1> QED BY <1>1, <1>2, <1>3, <1>4, <1>5, <1>6, <1>7, <1>8, Zenon DEF Next

\* IInv is an invariant: see its conjuncts above.
THEOREM Invariance ==
  ASSUME ~OverlappingDrops
  PROVE  Spec => []IInv
<1>1. IInv /\ [Next]_vars => IInv'
  BY NextIInv, Zenon
<1> QED BY InitIInv, <1>1, PTL DEF Spec

\* Type correctness of the registry's state.
THEOREM TypeCorrect ==
  ASSUME ~OverlappingDrops
  PROVE  Spec => []TypeOK
<1>1. IInv => TypeOK
  BY Zenon DEF IInv
<1> QED BY Invariance, <1>1, PTL

\* No unwrap, assertion or dealloc of type_registry.rs fails.
THEOREM RegistryNeverFails ==
  ASSUME ~OverlappingDrops
  PROVE  Spec => []NeverFails
<1>1. IInv => NeverFails
  BY Zenon DEF IInv
<1> QED BY Invariance, <1>1, PTL

\* The registration count of an entry is the number of its holders.
THEOREM CountsAreExact ==
  ASSUME ~OverlappingDrops
  PROVE  Spec => []CountsExact
<1>1. IInv => CountsExact
  BY Zenon DEF IInv
<1> QED BY Invariance, <1>1, PTL

\* The types of a loaded module, of a handle and of an entry that another entry
\* refers to stay registered under their indices.
THEOREM HeldTypesResolve ==
  ASSUME ~OverlappingDrops
  PROVE  Spec => []HeldResolves
<1>1. IInv => HeldResolves
  <2> SUFFICES ASSUME IInv PROVE HeldResolves
    BY Zenon
  <2>1. ASSUME NEW e \in consMap PROVE Resolves(e)
    BY Zenon DEF IInv, EntryInv, Resolves
  <2>2. \A c \in Coll, g \in Group : rec[c][g] # NoEntry => rec[c][g] \in consMap
    BY Zenon DEF IInv, RecInv
  <2>3. \A h \in Handle : hst[h] = "held" => hent[h] \in consMap
    BY Zenon DEF IInv, HandleInv
  <2>4. \A e \in consMap : \A k \in DOMAIN refs[e] :
          refs[e][k] \in DOMAIN revMap /\ revMap[refs[e][k]] \in consMap
    BY Zenon DEF IInv, EntryInv
  <2> QED BY <2>1, <2>2, <2>3, <2>4, Zenon DEF HeldResolves
<1> QED BY Invariance, <1>1, PTL

\* Modules that contain the same group share its entry, and different groups
\* have no type index in common.
THEOREM IndicesAreCanonical ==
  ASSUME ~OverlappingDrops
  PROVE  Spec => []Canonical
<1>1. IInv => Canonical
  <2> SUFFICES ASSUME IInv, NEW c \in Coll, NEW d \in Coll, NEW f \in Group, NEW g \in Group,
                      rec[c][f] # NoEntry, rec[d][g] # NoEntry
               PROVE  /\ f = g => rec[c][f] = rec[d][g]
                      /\ f # g => \A p \in 1..Size[f], q \in 1..Size[g] :
                                    types[rec[c][f]][p] # types[rec[d][g]][q]
    BY DEF Canonical
  <2>1. f = g => rec[c][f] = rec[d][g]
    BY DEF IInv, SameGroupSameEntry
  <2>2. /\ rec[c][f] \in consMap /\ shape[rec[c][f]] = f
        /\ rec[d][g] \in consMap /\ shape[rec[d][g]] = g
    BY Zenon DEF IInv, RecInv
  <2>3. \A p \in 1..Size[f] : revMap[types[rec[c][f]][p]] = rec[c][f]
    BY <2>2, Zenon DEF IInv, EntryInv
  <2>4. \A q \in 1..Size[g] : revMap[types[rec[d][g]][q]] = rec[d][g]
    BY <2>2, Zenon DEF IInv, EntryInv
  <2> QED BY <2>1, <2>2, <2>3, <2>4, Zenon
<1> QED BY Invariance, <1>1, PTL

-----------------------------------------------------------------------------
(***************************************************************************)
(* Nothing is left behind.  Counting alone does not show it: entries that  *)
(* refer to each other in a circle would keep each other registered.       *)
(***************************************************************************)
\* There are no circles: among any registered entries there is one to which none
\* of them refers.
RootInv ==
  \A S \in SUBSET consMap : S # {} => \E e \in S : \A d \in S : RefsTo(refs[d], e) = {}

\* Removing entries, and all steps that leave the references alone, make no circle.
LEMMA RootsKept ==
  ASSUME IInv, RootInv, consMap' \subseteq consMap,
         \A d, e \in consMap' : RefsTo(refs[d], e)' = RefsTo(refs[d], e)
  PROVE  RootInv'
<1> SUFFICES ASSUME NEW S \in SUBSET consMap', S # {}
             PROVE  \E e \in S : \A d \in S : RefsTo(refs[d], e)' = {}
  BY Zenon DEF RootInv
<1>1. PICK e \in S : \A d \in S : RefsTo(refs[d], e) = {}
  BY Zenon DEF RootInv
<1> QED BY <1>1, Zenon

\* Every step keeps the entries free of circles: register_rec_group makes an entry
\* to which nothing refers yet, unregister_entry removes one to which nothing refers.
LEMMA NextRootInv ==
  ASSUME IInv, RootInv, [Next]_vars
  PROVE  RootInv'
<1>1. ASSUME UNCHANGED <<consMap, revMap, refs>> PROVE RootInv'
  BY <1>1, RootsKept, Zenon DEF RefsTo
<1>2. ASSUME NEW e \in Entry, Unregister(e) PROVE RootInv'
  <2>1. e \in consMap /\ regs[e] = 0
    BY <1>2, Zenon DEF Unregister, StillZero, IInv, PendingInv
  <2>2. EdgeHolders(e) = {}
    BY <2>1, ZeroHasNoHolder, Zenon DEF IInv
  <2>3. PICK ids : ids = TypeIds(e)
    BY Zenon
  <2>4. /\ consMap' \subseteq consMap /\ refs' = refs
        /\ revMap' = [i \in DOMAIN revMap \ ids |-> revMap[i]]
    BY <1>2, <2>3, Zenon DEF Unregister, entryVars
  <2>5. \A i \in ids : i \in DOMAIN revMap /\ revMap[i] = e
    <3>1. ids = {types[e][p] : p \in 1..Size[shape[e]]}
      BY <2>1, <2>3, Zenon DEF TypeIds, IInv, EntryInv
    <3>2. \A p \in 1..Size[shape[e]] : types[e][p] \in slab /\ revMap[types[e][p]] = e
      BY <2>1, Zenon DEF IInv, EntryInv
    <3>3. slab = DOMAIN revMap
      BY Zenon DEF IInv, EntryInv
    <3> QED BY <3>1, <3>2, <3>3, Zenon
  <2>6. ASSUME NEW d \in consMap', NEW k \in DOMAIN refs[d] PROVE refs[d][k] \notin ids
    <3>1. k \in EdgePos
      <4>1. DOMAIN refs[d] = DOMAIN CrossRefs[shape[d]] /\ shape[d] \in Group
        BY <2>4, Zenon DEF IInv, EntryInv, TypeOK
      <4> QED BY <4>1, Zenon DEF EdgePos
    <3>2. <<d, k>> \notin EdgeHolders(e)
      BY <2>2, Zenon
    <3>3. k \notin RefsTo(refs[d], e)
      BY <2>4, <3>1, <3>2, Zenon DEF EdgeHolders
    <3> QED BY <2>5, <3>3, Zenon DEF RefsTo
  <2>7. \A d, o \in consMap' : RefsTo(refs[d], o)' = RefsTo(refs[d], o)
    BY <2>4, <2>6, Zenon DEF RefsTo
  <2> QED BY <2>4, <2>7, RootsKept, Zenon
<1>3. ASSUME NEW e \in Entry, RegisterNew(e) PROVE RootInv'
  <2>1. PICK c \in Coll, g \in Group : c = writer.c /\ g = CurGroup
    BY <1>3, AtGroup, Zenon DEF RegisterNew
  <2>2. PICK canon : canon = CanonRefs(c, g)
    BY Zenon
  <2>3. \A k \in DOMAIN canon : canon[k] \in slab
    BY <1>3, <2>1, <2>2, NewRefs, Zenon DEF RegisterNew
  <2>4. PICK ids \in SlabAlloc(Size[g]) : InsertTypes(e, g, canon, ids)
    BY <1>3, <2>1, <2>2, Zenon DEF RegisterNew
  <2>5. PICK new : new = {ids[p] : p \in 1..Size[g]}
    BY Zenon
  <2>6. Size[g] \in Nat /\ slabLen \in Nat /\ slab = DOMAIN revMap
    BY GroupAssumption DEF IInv, TypeOK, EntryInv
  <2>6a. new \cap slab = {}
    BY <2>4, <2>5, <2>6, SlabGrows, Zenon DEF InsertTypes
  <2>7a. revMap' = [i \in slab \cup new |-> IF i \in new THEN e ELSE revMap[i]]
    BY <2>4, <2>5, <2>6, Zenon DEF InsertTypes
  <2>7. consMap' = consMap \cup {e} /\ refs' = [refs EXCEPT ![e] = canon] /\ e \notin consMap
    <3>1. e \notin Allocated
      BY <1>3, Zenon DEF RegisterNew
    <3>2. consMap' = consMap \cup {e} /\ refs' = [refs EXCEPT ![e] = canon]
      BY <1>3, <2>1, <2>2, Zenon DEF RegisterNew
    <3> QED BY <3>1, <3>2 DEF Allocated
  <2>8. \A d \in consMap : refs'[d] = refs[d] /\ \A k \in DOMAIN refs[d] : refs[d][k] \in slab
    BY <2>7, Zenon DEF IInv, TypeOK, EntryInv
  <2>9. refs'[e] = canon
    BY <2>7, Zenon DEF IInv, TypeOK
  <2>10. \A i \in slab : i \in DOMAIN revMap' /\ revMap'[i] = revMap[i] /\ revMap[i] \in consMap
    BY <2>6, <2>6a, <2>7a, Zenon DEF IInv, EntryInv
  <2>11. \A d \in consMap' : RefsTo(refs[d], e)' = {}
    <3>1. \A d \in consMap' : \A k \in DOMAIN refs'[d] : refs'[d][k] \in slab
      BY <2>3, <2>7, <2>8, <2>9
    <3>2. \A i \in slab : revMap'[i] # e
      BY <2>7, <2>10, Zenon
    <3> QED BY <3>1, <3>2, Zenon DEF RefsTo
  <2>12. \A d, o \in consMap : RefsTo(refs[d], o)' = RefsTo(refs[d], o)
    <3> SUFFICES ASSUME NEW d \in consMap, NEW o \in consMap
                 PROVE  RefsTo(refs[d], o)' = RefsTo(refs[d], o)
      BY Zenon
    <3> QED BY <2>6, <2>8, <2>10 DEF RefsTo
  <2> SUFFICES ASSUME NEW S \in SUBSET consMap', S # {}
               PROVE  \E o \in S : \A d \in S : RefsTo(refs[d], o)' = {}
    BY Zenon DEF RootInv
  <2>13. CASE e \in S
    BY <2>11, <2>13, Zenon
  <2>14. CASE e \notin S
    <3>1. S \in SUBSET consMap
      BY <2>7, <2>14, Zenon
    <3>2. PICK o \in S : \A d \in S : RefsTo(refs[d], o) = {}
      BY <3>1, Zenon DEF RootInv
    <3> QED BY <2>12, <3>1, <3>2, Zenon
  <2> QED BY <2>13, <2>14, Zenon
<1>4. CASE LockedStep
  <2>1. CASE \E e \in Entry : RegisterKnown(e) \/ Resurrected(e)
    <3>1. UNCHANGED <<consMap, revMap, refs>>
      BY <2>1, Zenon DEF RegisterKnown, Resurrected, regVars, entryVars
    <3> QED BY <1>1, <3>1, Zenon
  <2>2. CASE RegisterDone \/ DropGroup \/ DropCollectionDone \/ UnregisterDone
    BY <1>1, <2>2, Zenon DEF RegisterDone, DropGroup, DropCollectionDone, UnregisterDone,
                             regVars, entryVars
  <2> QED BY <1>2, <1>3, <1>4, <2>1, <2>2, Zenon DEF LockedStep
<1>5. CASE \E h, new \in Handle : Clone(h, new) \/ DropHandle(h) \/ DropHandleLocked(h)
  BY <1>1, <1>5, Zenon DEF Clone, DropHandle, DropHandleLocked, regVars, entryVars
<1>6. CASE \E h \in Handle, c \in Coll, g \in Group : \E p \in 1..Size[g] : GetType(h, c, g, p)
  <2>1. PICK h, c, g, p : GetType(h, c, g, p)
    BY <1>6, Zenon
  <2>2. UNCHANGED <<regVars, entryVars>>
    BY <2>1, Zenon DEF GetType
  <2> QED BY <1>1, <2>2, Zenon DEF regVars, entryVars
<1>7. CASE \E c \in Coll : DropCollection(c) \/ \E m \in Module : RegisterModuleTypes(c, m)
  BY <1>1, <1>7, Zenon DEF DropCollection, RegisterModuleTypes, regVars, entryVars
<1>8. CASE UNCHANGED vars
  BY <1>1, <1>8, Zenon DEF vars, regVars, entryVars
<1> QED BY <1>4, <1>5, <1>6, <1>7, <1>8, Zenon DEF Next

\* The assertions of the registry's debug Drop hold: without modules and handles,
\* and with nobody at work, every map is empty.
THEOREM UnusedIsEmpty ==
  ASSUME ~OverlappingDrops
  PROVE  Spec => []EmptyWhenUnused
<1>1. Init => RootInv
  BY Zenon DEF Init, RootInv
<1>2. IInv /\ RootInv /\ [Next]_vars => RootInv'
  BY NextRootInv, Zenon
<1>3. IInv /\ RootInv => EmptyWhenUnused
  <2> SUFFICES ASSUME IInv, RootInv, Unused
               PROVE  consMap = {} /\ slab = {} /\ DOMAIN revMap = {} /\ dropStack = {}
    BY Zenon DEF EmptyWhenUnused
  <2>1. dropStack = {}
    BY DEF Unused, IInv, LockInv, Idle
  <2>2. consMap = {}
    <3> SUFFICES ASSUME consMap # {} PROVE FALSE
      BY Zenon
    <3>1. PICK e \in consMap : \A d \in consMap : RefsTo(refs[d], e) = {}
      BY Zenon DEF RootInv
    <3>2. EdgeHolders(e) = {}
      BY <3>1, Zenon DEF EdgeHolders
    <3>3. HandleHolders(e) = {}
      BY Zenon DEF HandleHolders, Unused
    <3>4. CollHolders(e) = {}
      <4>1. \A c \in Coll, g \in Group : ~ Present(c, g)
        BY DEF Present, Unused
      <4>2. \A c \in Coll, g \in Group : rec[c][g] = NoEntry
        BY <4>1, Zenon DEF IInv, RecInv
      <4>3. e # NoEntry
        BY GroupAssumption, Zenon DEF IInv, TypeOK
      <4> QED BY <4>2, <4>3, Zenon DEF CollHolders
    <3>5. regs[e] = 0
      <4>1. Cardinality({}) = 0
        BY FS_EmptySet, Zenon
      <4>2. regs[e] = 0 + 0 + 0
        BY <3>2, <3>3, <3>4, <4>1, Zenon DEF IInv, CountsExact
      <4> QED BY <4>2
    <3> QED BY <2>1, <3>5, Zenon DEF IInv, PendingInv, Unused
  <2> QED BY <2>1, <2>2, Zenon DEF IInv, EntryInv
<1> QED BY Invariance, <1>1, <1>2, <1>3, PTL DEF Spec
=============================================================================
