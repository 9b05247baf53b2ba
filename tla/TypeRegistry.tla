---------------------------- MODULE TypeRegistry ----------------------------
(***************************************************************************)
(* The engine-wide type registry of src/src/type_registry.rs.              *)
(*                                                                         *)
(* Every module hands its recursion groups to the registry, which hash-    *)
(* conses them: equal groups share one entry and hence one set of engine   *)
(* type indices.  An entry counts its registrations (collections of loaded *)
(* modules, RegisteredType handles, references from other entries) and is  *)
(* removed when the count has dropped to zero.                             *)
(*                                                                         *)
(* Registration, lookup and removal run under one RwLock.  Cloning and     *)
(* dropping a RegisteredType touch the atomic count WITHOUT the lock; a    *)
(* drop that reaches zero takes the lock only afterwards, and that window  *)
(* is where threads interleave.  A write-locked section is a sequence of   *)
(* actions here (one per recursion group or removed entry), so unlocked    *)
(* steps of other threads also fall in the middle of it.                   *)
(***************************************************************************)
EXTENDS Naturals, FiniteSets, Sequences

CONSTANTS
  Group,            \* shapes of recursion groups a module can contain
  Size,             \* Size[g]: number of types in group g
  CrossRefs,        \* CrossRefs[g]: sequence of [grp, pos], one per edge to another group
  SelfRefs,         \* SelfRefs[g]: positions the group's types refer to inside the group
  Module,           \* modules that can be loaded
  Groups,           \* Groups[m]: the module's recursion groups, in index order
  Coll,             \* identities of RuntimeTypeCollections
  Handle,           \* identities of RegisteredTypes
  Entry,            \* identities of RecGroupEntry allocations
  NoEntry,
  OverlappingDrops  \* may a module be dropped while an unlocked drop of one of
                    \* its entries is still waiting for the lock?

ASSUME GroupAssumption ==
  /\ Group # {} /\ Module # {}
  /\ IsFiniteSet(Group) /\ IsFiniteSet(Coll)
  /\ IsFiniteSet(Handle) /\ IsFiniteSet(Entry)
  /\ Size \in [Group -> Nat \ {0}]
  /\ CrossRefs \in [Group -> Seq([grp : Group, pos : Nat])]
  /\ SelfRefs \in [Group -> SUBSET Nat]
  /\ NoEntry \notin Entry
  /\ OverlappingDrops \in BOOLEAN

\* Inside a group a type refers to earlier ones only: the conversion of a type that
\* refers to itself or to a later one ends in a todo!() (lookup_heap_type), before
\* anything is registered.
ASSUME SelfRefAssumption ==
  \A g \in Group : SelfRefs[g] \subseteq 1 .. Size[g] - 1

\* What validation and the interning of ModuleTypes guarantee: the groups of a
\* module are distinct and refer only to types of groups that precede them.
ASSUME ModuleAssumption ==
  /\ Groups \in [Module -> Seq(Group)]
  /\ \A m \in Module : \A i, j \in 1..Len(Groups[m]) :
        Groups[m][i] = Groups[m][j] => i = j
  /\ \A m \in Module : \A i \in 1..Len(Groups[m]) :
        \A k \in 1..Len(CrossRefs[Groups[m][i]]) :
          /\ CrossRefs[Groups[m][i]][k].pos \in 1..Size[CrossRefs[Groups[m][i]][k].grp]
          /\ CrossRefs[Groups[m][i]][k].grp \in {Groups[m][j] : j \in 1..(i-1)}

VARIABLES
  consMap,    \* hash_consing_map: the registered entries
  revMap,     \* type_to_rec_group: engine type indices that have an entry -> entry
  slab,       \* occupied ids of the slab `types`
  slabLen,    \* length of the slab's backing vector
  dropStack,  \* drop_stack, as a set: the order of removal is not observable
  shape,      \* per entry: the group it was built from ...
  refs,       \* ... with it the hash-consing key: engine indices of its cross references
  types,      \* ... shared_type_indices
  selfs,      \* ... engine indices its types use for references inside the group
  regs,       \* ... registrations
  cst,        \* per collection: absent, registering, loaded or dropping
  cmod,       \* ... the module it belongs to
  rec,        \* ... rec_groups, as group -> entry or NoEntry
  hst,        \* per handle: none, held, or zero (dropped to zero, lock not yet taken)
  hent,       \* ... its entry
  writer,     \* the section that holds the write lock
  failed      \* the assertion or unwrap that failed, if any

entryVars == <<shape, refs, types, selfs>>
regVars   == <<consMap, revMap, slab, slabLen, dropStack>>
collVars  == <<cst, cmod, rec>>
hndVars   == <<hst, hent>>
vars == <<regVars, entryVars, regs, collVars, hndVars, writer, failed>>

Idle       == [op |-> "idle"]
NoFailure  == "none"

\* A panicking thread ends the execution.
Running == failed = NoFailure

Key(e) == <<shape[e], refs[e]>>

\* Entries some Rust value still points to; the allocation of any other is reusable.
Allocated ==
  consMap \cup dropStack
    \cup {hent[h] : h \in {x \in Handle : hst[x] # "none"}}
    \cup {rec[c][g] : c \in Coll, g \in Group}

\* The unlocked drops of e that have seen zero and wait for the lock.
Pending(e) == {h \in Handle : hst[h] = "zero" /\ hent[h] = e}

(***************************************************************************)
(* The slab (crate wasmtime_slab): vacant ids are reused before the        *)
(* backing vector grows.  The order of reuse is left open.                 *)
(***************************************************************************)
Vacant == (0..(slabLen-1)) \ slab

SlabAlloc(n) ==
  {s \in [1..n -> 0..(slabLen+n-1)] :
     /\ \A p, q \in 1..n : s[p] = s[q] => p = q
     /\ \A p \in 1..n :
          /\ s[p] \notin slab
          /\ s[p] >= slabLen =>
               /\ \A v \in Vacant : \E q \in 1..(p-1) : s[q] = v
               /\ \A x \in slabLen..(s[p]-1) : \E q \in 1..(p-1) : s[q] = x}

(***************************************************************************)
(* References between entries.                                             *)
(***************************************************************************)
EdgePos == UNION {DOMAIN CrossRefs[g] : g \in Group}

\* The positions at which a list of engine indices names a type of entry o.
RefsTo(ids, o) == {k \in DOMAIN ids : ids[k] \in DOMAIN revMap /\ revMap[ids[k]] = o}

\* Mutant: each referenced entry is registered once.
AddedRefs_OncePerEntry(ids, o) == IF RefsTo(ids, o) = {} THEN 0 ELSE 1

\* Registrations a new entry adds to o, and a removed one takes back: one per edge.
AddedRefs(ids, o)    == Cardinality(RefsTo(ids, o))
ReleasedRefs(ids, o) == Cardinality(RefsTo(ids, o))

\* Mutants: the result of the decrement is off by one; the count is not checked again.
HitsZero_OffByOne(e) == regs[e] = 0
StillZero_Unchecked(e) == TRUE

\* decr_ref_count returns true; unregister_entry finds no registration.
HitsZero(e)  == regs[e] = 1
StillZero(e) == regs[e] = 0

\* Mutant: entries are hashed by address, so that no equal one is ever found.
Lookup_ByAddress(key) == {}

\* hash_consing_map.get
Lookup(key) == {x \in consMap : Key(x) = key}

\* canonicalize_for_hash_consing: the engine index of each type that group g
\* of the module being registered refers to outside itself.
CanonRefs(c, g) ==
  [k \in DOMAIN CrossRefs[g] |->
     types[rec[c][CrossRefs[g][k].grp]][CrossRefs[g][k].pos]]

\* Module-local index of the first type of the module's i-th group.
GroupStart(m, i) ==
  Cardinality(UNION {{<<j, p>> : p \in 1..Size[Groups[m][j]]} : j \in 1..(i-1)})

\* canonicalize_for_runtime_usage, as called by register_rec_group: the engine
\* index written for a reference to position p of the group itself.
RuntimeIndex(start, p) == Cardinality(slab) + ((start + p - 1) + start)

-----------------------------------------------------------------------------
Init ==
  /\ consMap = {} /\ slab = {} /\ slabLen = 0 /\ dropStack = {}
  /\ revMap = [i \in {} |-> NoEntry]
  /\ shape = [e \in Entry |-> CHOOSE g \in Group : TRUE]
  /\ refs = [e \in Entry |-> <<>>]
  /\ types = [e \in Entry |-> <<>>]
  /\ selfs = [e \in Entry |-> <<>>]
  /\ regs = [e \in Entry |-> 0]
  /\ cst = [c \in Coll |-> "absent"]
  /\ cmod = [c \in Coll |-> CHOOSE m \in Module : TRUE]
  /\ rec = [c \in Coll |-> [g \in Group |-> NoEntry]]
  /\ hst = [h \in Handle |-> "none"]
  /\ hent = [h \in Handle |-> NoEntry]
  /\ writer = Idle
  /\ failed = NoFailure

-----------------------------------------------------------------------------
(***************************************************************************)
(* Loading a module: register_module_types holds the write lock and        *)
(* registers one recursion group after the other.                          *)
(***************************************************************************)
RegisterModuleTypes(c, m) ==
  /\ Running
  /\ writer = Idle
  /\ cst[c] = "absent"
  /\ cst' = [cst EXCEPT ![c] = "registering"]
  /\ cmod' = [cmod EXCEPT ![c] = m]
  /\ writer' = [op |-> "register", c |-> c, i |-> 1]
  /\ UNCHANGED <<regVars, entryVars, regs, rec, hndVars, failed>>

\* The group the registering writer is at.
Registering == writer.op = "register" /\ writer.i <= Len(Groups[cmod[writer.c]])
CurGroup    == Groups[cmod[writer.c]][writer.i]

Pushed(e) ==
  /\ rec' = [rec EXCEPT ![writer.c][CurGroup] = e]
  /\ writer' = [writer EXCEPT !.i = @ + 1]

\* register_rec_group finds an equal group: one more registration of its entry,
\* also when an unlocked drop has just brought its count to zero.
RegisterKnown(e) ==
  /\ Running
  /\ Registering
  /\ e \in Lookup(<<CurGroup, CanonRefs(writer.c, CurGroup)>>)
  /\ regs' = [regs EXCEPT ![e] = @ + 1]
  /\ Pushed(e)
  /\ UNCHANGED <<regVars, entryVars, cst, cmod, hndVars, failed>>

\* The unwrap and the assertion on the way.
RegisterCheck(canon, new) ==
  CASE \E k \in DOMAIN canon : canon[k] \notin DOMAIN revMap -> "referenced type has no entry"
    [] \E i \in new : i \in DOMAIN revMap -> "new type already has an entry"
    [] OTHER -> failed

\* insert_one_type for every type of the group: a slab index, then a place in the
\* reverse map.
InsertTypes(e, g, canon, ids) ==
  LET new == {ids[p] : p \in 1..Size[g]}
  IN  /\ types' = [types EXCEPT ![e] = ids]
      /\ slab' = slab \cup new
      /\ slabLen' = slabLen + Cardinality({i \in new : i >= slabLen})
      /\ revMap' = [i \in DOMAIN revMap \cup new |-> IF i \in new THEN e ELSE revMap[i]]
      /\ failed' = RegisterCheck(canon, new)

\* register_rec_group makes a new entry: it registers every entry the group
\* refers to once per edge, allocates the types, and inserts the entry.
RegisterNew(e) ==
  /\ Running
  /\ Registering
  /\ e \in Entry \ Allocated
  /\ LET g     == CurGroup
         canon == CanonRefs(writer.c, g)
         start == GroupStart(cmod[writer.c], writer.i)
     IN  /\ Lookup(<<g, canon>>) = {}
         /\ regs' = [o \in Entry |-> IF o = e THEN 1 ELSE regs[o] + AddedRefs(canon, o)]
         /\ shape' = [shape EXCEPT ![e] = g]
         /\ refs' = [refs EXCEPT ![e] = canon]
         /\ selfs' = [selfs EXCEPT ![e] = [p \in SelfRefs[g] |-> RuntimeIndex(start, p)]]
         /\ consMap' = consMap \cup {e}
         /\ \E ids \in SlabAlloc(Size[g]) : InsertTypes(e, g, canon, ids)
  /\ Pushed(e)
  /\ UNCHANGED <<dropStack, cst, cmod, hndVars>>

RegisterDone ==
  /\ Running
  /\ writer.op = "register"
  /\ writer.i > Len(Groups[cmod[writer.c]])
  /\ cst' = [cst EXCEPT ![writer.c] = "loaded"]
  /\ writer' = Idle
  /\ UNCHANGED <<regVars, entryVars, regs, cmod, rec, hndVars, failed>>

-----------------------------------------------------------------------------
(***************************************************************************)
(* RegisteredType handles.  Only get_type takes the lock, for reading.     *)
(***************************************************************************)
\* Func::ty asks for the type of a function of a loaded module.
GetType(h, c, g, p) ==
  /\ Running
  /\ writer = Idle
  /\ hst[h] = "none"
  /\ cst[c] = "loaded" /\ rec[c][g] # NoEntry /\ p \in 1..Size[g]
  /\ LET id    == types[rec[c][g]][p]
         known == id \in slab /\ id \in DOMAIN revMap
         e     == IF known THEN revMap[id] ELSE rec[c][g]
     IN  /\ regs' = [regs EXCEPT ![e] = @ + 1]
         /\ hst' = [hst EXCEPT ![h] = "held"]
         /\ hent' = [hent EXCEPT ![h] = e]
         /\ failed' = IF known THEN failed ELSE "index of a loaded module has no type"
  /\ UNCHANGED <<regVars, entryVars, collVars, writer>>

Clone(h, new) ==
  /\ Running
  /\ hst[h] = "held" /\ hst[new] = "none"
  /\ regs' = [regs EXCEPT ![hent[h]] = @ + 1]
  /\ hst' = [hst EXCEPT ![new] = "held"]
  /\ hent' = [hent EXCEPT ![new] = hent[h]]
  /\ UNCHANGED <<regVars, entryVars, collVars, writer, failed>>

\* Mutant: the handle gives up its entry before it has the lock.
DropHandle_Forgets(h) ==
  /\ Running
  /\ hst[h] = "held"
  /\ regs' = [regs EXCEPT ![hent[h]] = @ - 1]
  /\ hst' = [hst EXCEPT ![h] = IF HitsZero(hent[h]) THEN "zero" ELSE "none"]
  /\ hent' = [hent EXCEPT ![h] = NoEntry]
  /\ UNCHANGED <<regVars, entryVars, collVars, writer, failed>>

\* RegisteredType::drop up to the decrement.
DropHandle(h) ==
  /\ Running
  /\ hst[h] = "held"
  /\ regs' = [regs EXCEPT ![hent[h]] = @ - 1]
  /\ hst' = [hst EXCEPT ![h] = IF HitsZero(hent[h]) THEN "zero" ELSE "none"]
  /\ hent' = [hent EXCEPT ![h] = IF HitsZero(hent[h]) THEN @ ELSE NoEntry]
  /\ failed' = IF regs[hent[h]] = 0 THEN "count below zero" ELSE failed
  /\ UNCHANGED <<regVars, entryVars, collVars, writer>>

\* Mutant: the removal can run a second time for the same handle.
DropHandleLocked_Again(h) ==
  /\ Running
  /\ writer = Idle
  /\ hst[h] = "zero"
  /\ dropStack' = {hent[h]}
  /\ writer' = [op |-> "unregister"]
  /\ UNCHANGED <<consMap, revMap, slab, slabLen, entryVars, regs, collVars, hndVars, failed>>

\* ... and the rest of it: take the lock and call unregister_entry.
DropHandleLocked(h) ==
  /\ Running
  /\ writer = Idle
  /\ hst[h] = "zero"
  /\ dropStack' = {hent[h]}
  /\ writer' = [op |-> "unregister"]
  /\ hst' = [hst EXCEPT ![h] = "none"]
  /\ hent' = [hent EXCEPT ![h] = NoEntry]
  /\ UNCHANGED <<consMap, revMap, slab, slabLen, entryVars, regs, collVars, failed>>

-----------------------------------------------------------------------------
(***************************************************************************)
(* Dropping a module: unregister_type_collection under the write lock.     *)
(***************************************************************************)
DropCollection(c) ==
  /\ Running
  /\ cst[c] = "loaded"
  /\ OverlappingDrops \/ \A g \in Group : Pending(rec[c][g]) = {}
  /\ IF Groups[cmod[c]] = <<>>
     THEN cst' = [cst EXCEPT ![c] = "absent"] /\ UNCHANGED writer
     ELSE /\ writer = Idle
          /\ cst' = [cst EXCEPT ![c] = "dropping"]
          /\ writer' = [op |-> "drop", c |-> c, i |-> 1]
  /\ UNCHANGED <<regVars, entryVars, regs, cmod, rec, hndVars, failed>>

\* One iteration of unregister_type_collection; unregister_entry, when it is
\* called, runs until its stack is empty before the next one.
DropGroup ==
  /\ Running
  /\ writer.op = "drop" /\ dropStack = {}
  /\ writer.i <= Len(Groups[cmod[writer.c]])
  /\ LET e == rec[writer.c][CurGroup]
     IN  /\ regs' = [regs EXCEPT ![e] = @ - 1]
         /\ dropStack' = IF HitsZero(e) THEN {e} ELSE {}
         /\ failed' = IF regs[e] = 0 THEN "count below zero" ELSE failed
  /\ Pushed(NoEntry)
  /\ UNCHANGED <<consMap, revMap, slab, slabLen, entryVars, cst, cmod, hndVars>>

DropCollectionDone ==
  /\ Running
  /\ writer.op = "drop" /\ dropStack = {}
  /\ writer.i > Len(Groups[cmod[writer.c]])
  /\ cst' = [cst EXCEPT ![writer.c] = "absent"]
  /\ writer' = Idle
  /\ UNCHANGED <<regVars, entryVars, regs, cmod, rec, hndVars, failed>>

-----------------------------------------------------------------------------
(***************************************************************************)
(* unregister_entry: one iteration of its loop per action.                 *)
(***************************************************************************)
\* The entry was registered again before the lock was taken.
Resurrected(e) ==
  /\ Running
  /\ e \in dropStack
  /\ ~StillZero(e)
  /\ dropStack' = dropStack \ {e}
  /\ UNCHANGED <<consMap, revMap, slab, slabLen, entryVars, regs, collVars, hndVars, writer, failed>>

\* Mutant: entries that only the removed one kept alive are forgotten.
Cascade_None(e) == {}

\* The entries to which e held the last registrations.
Cascade(e) ==
  {o \in Entry : RefsTo(refs[e], o) # {} /\ regs[o] = ReleasedRefs(refs[e], o)}

TypeIds(e) == {types[e][p] : p \in DOMAIN types[e]}

\* The unwraps, the assertion and the dealloc on the way.
UnregisterCheck(e) ==
  CASE \E k \in DOMAIN refs[e] : refs[e][k] \notin DOMAIN revMap -> "referenced type has no entry"
    [] \E o \in Entry : regs[o] < ReleasedRefs(refs[e], o) -> "count below zero"
    [] \E i \in TypeIds(e) : i \notin DOMAIN revMap -> "removed type has no entry"
    [] \E i \in TypeIds(e) : Key(revMap[i]) # Key(e) -> "removed type has another entry"
    [] \E i \in TypeIds(e) : i \notin slab -> "type deallocated twice"
    [] OTHER -> failed

\* Release what the entry refers to, then remove the entry and its types.
\* The hash-consing map and the assertion compare entries by key.
Unregister(e) ==
  /\ Running
  /\ e \in dropStack
  /\ StillZero(e)
  /\ LET ids == TypeIds(e)
     IN  /\ regs' = [o \in Entry |-> regs[o] - ReleasedRefs(refs[e], o)]
         /\ dropStack' = (dropStack \ {e}) \cup Cascade(e)
         /\ consMap' = {x \in consMap : Key(x) # Key(e)}
         /\ revMap' = [i \in DOMAIN revMap \ ids |-> revMap[i]]
         /\ slab' = slab \ ids
         /\ failed' = UnregisterCheck(e)
  /\ UNCHANGED <<slabLen, entryVars, collVars, hndVars, writer>>

UnregisterDone ==
  /\ Running
  /\ writer.op = "unregister" /\ dropStack = {}
  /\ writer' = Idle
  /\ UNCHANGED <<regVars, entryVars, regs, collVars, hndVars, failed>>

-----------------------------------------------------------------------------
\* The steps of the thread that holds the write lock.
LockedStep ==
  \/ \E e \in Entry : RegisterKnown(e)
  \/ \E e \in Entry : Resurrected(e)
  \/ \E e \in Entry : Unregister(e)
  \/ \E e \in Entry : RegisterNew(e)
  \/ RegisterDone \/ DropGroup \/ DropCollectionDone \/ UnregisterDone

Next ==
  \/ \E c \in Coll, m \in Module : RegisterModuleTypes(c, m)
  \/ \E h \in Handle, c \in Coll, g \in Group : \E p \in 1..Size[g] : GetType(h, c, g, p)
  \/ \E h, new \in Handle : Clone(h, new)
  \/ \E h \in Handle : DropHandle(h)
  \/ \E h \in Handle : DropHandleLocked(h)
  \/ \E c \in Coll : DropCollection(c)
  \/ LockedStep

Spec == Init /\ [][Next]_vars

\* The lock holder runs to completion, and a thread that waits for a lock that
\* stays free takes it.  Nobody is obliged to load or to drop anything.
Fairness ==
  /\ WF_vars(LockedStep)
  /\ \A h \in Handle : WF_vars(DropHandleLocked(h))

FairSpec == Spec /\ Fairness

-----------------------------------------------------------------------------
(***************************************************************************)
(* Properties                                                              *)
(***************************************************************************)
States == {"absent", "registering", "loaded", "dropping"}

\* Type invariant.
TypeOK ==
  /\ consMap \subseteq Entry /\ dropStack \subseteq Entry
  /\ slabLen \in Nat /\ slab \subseteq 0..(slabLen-1)
  /\ DOMAIN revMap \subseteq Nat /\ revMap \in [DOMAIN revMap -> Entry]
  /\ shape \in [Entry -> Group]
  /\ refs \in [Entry -> Seq(Nat)] /\ types \in [Entry -> Seq(Nat)]
  /\ regs \in [Entry -> Nat]
  /\ cst \in [Coll -> States] /\ cmod \in [Coll -> Module]
  /\ rec \in [Coll -> [Group -> Entry \cup {NoEntry}]]
  /\ hst \in [Handle -> {"none", "held", "zero"}]
  /\ hent \in [Handle -> Entry \cup {NoEntry}]
  /\ writer \in {Idle, [op |-> "unregister"]}
              \cup [op : {"register", "drop"}, c : Coll, i : Nat]

\* No unwrap, assertion or dealloc of type_registry.rs fails: the reverse map
\* knows every type that a registered entry, a loaded module or a removal looks
\* up, no count is decremented below zero, no type is deallocated twice.
NeverFails == failed = NoFailure

\* What keeps entry e registered: modules, handles, and edges of other entries.
CollHolders(e)   == {x \in Coll \X Group : rec[x[1]][x[2]] = e}
HandleHolders(e) == {h \in Handle : hst[h] = "held" /\ hent[h] = e}
EdgeHolders(e)   == {x \in consMap \X EdgePos : x[2] \in RefsTo(refs[x[1]], e)}

\* The registration count is exactly the number of holders at every step, also
\* while a locked section is half done and unlocked clones and drops go on.
CountsExact ==
  \A e \in consMap :
    regs[e] = Cardinality(CollHolders(e)) + Cardinality(HandleHolders(e))
                + Cardinality(EdgeHolders(e))

\* Whatever is held stays resolvable: the entry is registered and each of its
\* type indices still maps back to it, so no index of a live module, handle or
\* entry is ever freed or handed out again.
Resolves(e) ==
  /\ e \in consMap
  /\ \A p \in 1..Size[shape[e]] :
       types[e][p] \in slab /\ types[e][p] \in DOMAIN revMap /\ revMap[types[e][p]] = e

HeldResolves ==
  /\ \A c \in Coll, g \in Group : rec[c][g] # NoEntry => Resolves(rec[c][g])
  /\ \A h \in Handle : hst[h] = "held" => Resolves(hent[h])
  /\ \A e \in consMap : \A k \in DOMAIN refs[e] :
       refs[e][k] \in DOMAIN revMap /\ Resolves(revMap[refs[e][k]])

\* Hash-consing makes index equality type equality across modules, which the
\* signature check of call_indirect relies on: two modules that contain the same
\* group have the same entry for it, and different groups share no index.
Canonical ==
  \A c, d \in Coll, f, g \in Group :
    rec[c][f] # NoEntry /\ rec[d][g] # NoEntry =>
      /\ f = g => rec[c][f] = rec[d][g]
      /\ f # g => \A p \in 1..Size[f], q \in 1..Size[g] :
                    types[rec[c][f]][p] # types[rec[d][g]][q]

\* The assertions of the registry's debug Drop: with no module, no handle and
\* nobody at work, nothing is left behind in any of the maps.
Unused ==
  /\ writer = Idle
  /\ \A c \in Coll : cst[c] = "absent"
  /\ \A h \in Handle : hst[h] = "none"

EmptyWhenUnused ==
  Unused => consMap = {} /\ slab = {} /\ DOMAIN revMap = {} /\ dropStack = {}

\* An entry that nobody holds any more is removed or registered again: the drop
\* that saw zero gets the lock once modules and handles stop coming and going.
Abandoned(e) ==
  /\ e \in consMap
  /\ CollHolders(e) = {} /\ HandleHolders(e) = {} /\ EdgeHolders(e) = {}

AbandonedIsRemoved ==
  \A e \in Entry : <>[](\A c \in Coll : cst[c] = "absent") =>
    (Abandoned(e) ~> ~Abandoned(e))

\* canonicalize_for_runtime_usage rewrites references inside a group to the
\* engine indices of the types referred to.
RuntimeSelfRefs ==
  \A e \in consMap : \A p \in SelfRefs[shape[e]] : selfs[e][p] = types[e][p]
====
