------------------------------- MODULE Linker -------------------------------
(***************************************************************************)
(* The linker (src/linker.rs), the store (src/store.rs) and instances as   *)
(* the embedder sees them (src/instance.rs), together with the allocation  *)
(* and initialization of an instance (src/runtime/instance_allocator.rs,   *)
(* src/placeholder/instance_allocator.rs, Instances).                      *)
(*                                                                         *)
(* One thread uses the store, so a call is one step; an instantiation is   *)
(* several, one for each thing that is allocated, because the kernel may   *)
(* refuse any of them.  A panic ends the program: what the unwinding drops *)
(* is dropped, and no call follows.                                        *)
(***************************************************************************)
EXTENDS Instances

CONSTANTS
  Names,          \* the names under which instances are defined
  MaxInstances,   \* bound: how many instances are made
  MaxLookups      \* bound: how many single exports are looked up

ASSUME LinkerBounds == {MaxInstances, MaxLookups} \subseteq Nat

VARIABLES
  linker,      \* the interned strings and the definitions
  store,       \* instances, what they exported, and instances by context
  space,       \* the mappings of the process
  evaluator,   \* the stack of the embedder's ConstExprEvaluator
  work,        \* the instantiation under way
  lookups,     \* how many single exports were looked up
  panicked     \* whether the program panicked

vars == <<linker, store, space, evaluator, work, lookups, panicked>>

Idle ==
  [active |-> FALSE, module |-> "none", tables |-> <<>>,
   memories |-> <<>>, imports |-> [kind \in Kinds |-> <<>>]]

Init ==
  /\ linker = [strings |-> <<>>, map |-> [key \in {} |-> 0]]
  /\ store = [instances |-> <<>>, exported |-> [kind \in Kinds |-> <<>>],
              vmctx2instance |-> [ctx \in {} |-> 0]]
  /\ space = [base \in {} |-> [mapped |-> 0, accessible |-> 0, slots |-> Blank]]
  /\ evaluator = <<>>
  /\ work = Idle
  /\ lookups = 0
  /\ panicked = FALSE

-----------------------------------------------------------------------------
(* Definitions by name.                                                    *)

InternStr(strings, string) ==
  IF string \in ToSet(strings) THEN strings ELSE Append(strings, string)

StringIdx(strings, string) == CHOOSE i \in DOMAIN strings : strings[i] = string

ImportKey(strings, module, name) ==
  <<StringIdx(strings, module), StringIdx(strings, name)>>

Lookup(key) == IF key \in DOMAIN linker.map THEN <<linker.map[key]>> ELSE <<>>
Get(module, name) ==
  IF {module, name} \subseteq ToSet(linker.strings)
  THEN Lookup(ImportKey(linker.strings, module, name)) ELSE <<>>

(* insert, for one entry after the other: the first one whose key is       *)
(* occupied ends it.                                                       *)
Insert(map, key, item) ==
  [k \in DOMAIN map \cup {key} |-> IF k = key THEN item ELSE map[k]]

InsertNext_Replaces(done, entry) ==
  [done EXCEPT !.map = Insert(@, entry.key, entry.item)]

InsertNext(done, entry) ==
  IF done.failed \/ entry.key \in DOMAIN done.map THEN [done EXCEPT !.failed = TRUE]
  ELSE [done EXCEPT !.map = Insert(@, entry.key, entry.item)]

InsertAll(map, entries) ==
  FoldLeft(InsertNext, [map |-> map, failed |-> FALSE], entries).map

-----------------------------------------------------------------------------
(* Exports.                                                                *)

(* get_exported_func, get_exported_table, ...: the function record of the  *)
(* instance itself, also for an import; the definition in its own context, *)
(* or what the import points to.                                           *)
ExportedFunc(instance, index) ==
  [definition |-> Ptr(instance.vmctx,
     ElementAt(instance.module, "func_refs", Modules[instance.module].funcs[index + 1].ref[1]))]

ExportedStorage_OwnContext(instance, kind, index) ==
  LET def == DefinedIndex(instance.module, kind, index)
      m == instance.module
  IN IF def # <<>>
     THEN [definition |-> Ptr(instance.vmctx, ElementAt(m, DefinitionRegion[kind], def[1])),
           vmctx |-> instance.vmctx]
     ELSE [definition |-> Ptr(instance.vmctx, ElementAt(m, ImportRegion[kind], index)),
           vmctx |-> instance.vmctx]

ExportedStorage(instance, kind, index) ==
  LET def == DefinedIndex(instance.module, kind, index)
      m == instance.module
      import == space[instance.vmctx].slots[ElementAt(m, ImportRegion[kind], index)].value
  IN IF def # <<>>
     THEN [definition |-> Ptr(instance.vmctx, ElementAt(m, DefinitionRegion[kind], def[1])),
           vmctx |-> instance.vmctx]
     ELSE [definition |-> import.from, vmctx |-> import.vmctx]

(* get_export_by_index; there are no tags, whose arm is a todo!().         *)
GetExportByIndex(instance, kind, index) ==
  IF kind = "func" THEN ExportedFunc(instance, index)
  ELSE ExportedStorage(instance, kind, index)

(* get_export_inner, on a store: the cached handle, or a new one, which    *)
(* is cached.                                                              *)
NewHandle(st, i, n, export) ==
  [st EXCEPT
     !.instances[i].exports[n] =
        <<[kind |-> export.kind, handle |-> Len(st.exported[export.kind]) + 1]>>,
     !.exported[export.kind] =
        Append(@, GetExportByIndex(st.instances[i], export.kind, export.index))]
GetExportInner(st, i, n) ==
  IF st.instances[i].exports[n] # <<>> THEN st
  ELSE NewHandle(st, i, n, Modules[st.instances[i].module].exports[n])

Ready == ~work.active /\ ~panicked

GetExport(i, n) ==
  /\ Ready
  /\ lookups < MaxLookups
  /\ lookups' = lookups + 1
  /\ store' = GetExportInner(store, i, n)
  /\ UNCHANGED <<linker, space, evaluator, work, panicked>>

(* exports: all of an instance get their handles.                          *)
ExportAll(i) ==
  FoldLeft(LAMBDA st, n : GetExportInner(st, i, n), store,
           [n \in DOMAIN store.instances[i].exports |-> n])

(* define_instance: the exports of an instance, all of which get a handle  *)
(* and a string first, under a name.                                       *)
InternExports(name, exports) ==
  FoldLeft(LAMBDA strings, export : InternStr(InternStr(strings, name), export.name),
           linker.strings, exports)
Entries(strings, name, exports, items) ==
  [n \in DOMAIN exports |->
     [key |-> ImportKey(strings, name, exports[n].name), item |-> items[n][1]]]

DefineInstance(name, i) ==
  /\ Ready
  /\ \E exports \in {Modules[store.instances[i].module].exports} :
       \E strings \in {InternExports(name, exports)}, st \in {ExportAll(i)} :
         /\ store' = st
         /\ linker' = [strings |-> strings,
                       map |-> InsertAll(linker.map,
                                 Entries(strings, name, exports, st.instances[i].exports))]
  /\ UNCHANGED <<space, evaluator, work, lookups, panicked>>

(* alias_module: the definitions under a name, under another one.  The     *)
(* hash map yields them in any order, so any of those whose new name is    *)
(* not taken may come before the first one whose name is.                  *)
ItemsOf(module) == {key \in DOMAIN linker.map : key[1] = module}
Aliased(asModule, keys) ==
  [n \in DOMAIN keys |-> [key |-> <<asModule, keys[n][2]>>, item |-> linker.map[keys[n]]]]

AliasModule(module, asModule) ==
  /\ Ready
  /\ \E strings \in {InternStr(InternStr(linker.strings, module), asModule)} :
       \E from \in {StringIdx(strings, module)}, to \in {StringIdx(strings, asModule)} :
         \E done \in SUBSET {key \in ItemsOf(from) : <<to, key[2]>> \notin DOMAIN linker.map} :
           /\ (\A key \in ItemsOf(from) : <<to, key[2]>> \notin DOMAIN linker.map)
                => done = ItemsOf(from)
           /\ linker' = [strings |-> strings,
                         map |-> InsertAll(linker.map, Aliased(to, SetToSeq(done)))]
  /\ UNCHANGED <<store, space, evaluator, work, lookups, panicked>>

-----------------------------------------------------------------------------
(* Instantiation.                                                          *)

(* as_vmfunction_import, as_vmtable_import, ...: what a definition is to   *)
(* the module that imports it.                                             *)
AsImport(ext) ==
  LET exported == store.exported[ext.kind][ext.handle]
      ref == space[exported.definition.ctx].slots[exported.definition.at].value
  IN IF ext.kind = "func"
     THEN [wasm_call |-> ref.wasm_call, array_call |-> ref.array_call, vmctx |-> ref.vmctx]
     ELSE [from |-> exported.definition, vmctx |-> exported.vmctx]

(* instantiate looks up one import after the other.  One that is missing   *)
(* is an error, and one of another kind a panic, whichever comes first;    *)
(* types are not compared.                                                 *)
Missing(import) == Get(import.module, import.name) = <<>>
Mismatched(import) ==
  ~Missing(import) /\ Get(import.module, import.name)[1].kind # import.kind

ResolvedImports(m) ==
  [kind \in Kinds |->
     LET wanted == SelectSeq(Modules[m].imports, LAMBDA i : i.kind = kind)
     IN [k \in DOMAIN wanted |-> AsImport(Get(wanted[k].module, wanted[k].name)[1])]]

(* A panic, when these mappings are dropped on the way.                    *)
Panic(dropped, stack) ==
  /\ panicked' = TRUE
  /\ space' = Restrict(space, DOMAIN space \ dropped)
  /\ evaluator' = stack
  /\ work' = Idle
  /\ UNCHANGED <<linker, store, lookups>>

(* A call that fails with an error leaves everything as it is.             *)
Instantiate(m) ==
  /\ Ready
  /\ Len(store.instances) < MaxInstances
  /\ \E failing \in {{i \in DOMAIN Modules[m].imports :
                       Missing(Modules[m].imports[i]) \/ Mismatched(Modules[m].imports[i])}} :
        \/ /\ failing = {}
           /\ work' = [Idle EXCEPT !.active = TRUE, !.module = m,
                                   !.imports = ResolvedImports(m)]
           /\ UNCHANGED <<linker, store, space, evaluator, lookups, panicked>>
        \/ /\ failing # {}
           /\ Mismatched(Modules[m].imports[Min(failing)])
           /\ Panic({}, evaluator)

(* The mappings of the instantiation under way.  Names of mappings stand   *)
(* for addresses: the kernel gives any that is free, and the least one     *)
(* makes it use an address again as soon as it can.                        *)
Bases(storages) == {storages[i].base : i \in DOMAIN storages} \ {0}
FreeBase == Min((1 .. Cardinality(DOMAIN space) + 1) \ DOMAIN space)
Extended(base, vec, slots) ==
  [b \in DOMAIN space \cup {base} |->
     IF b = base THEN [mapped |-> vec.mapped, accessible |-> vec.accessible, slots |-> slots]
     ELSE space[b]]

(* allocate_module fails: deallocate_memories and deallocate_tables.       *)
Deallocated_Tables == Bases(work.tables)
Deallocated == Bases(work.memories) \cup Bases(work.tables)

AllocationFails ==
  /\ space' = Restrict(space, DOMAIN space \ Deallocated)
  /\ work' = Idle
  /\ UNCHANGED <<linker, store, evaluator, lookups, panicked>>

Allocating(kind) ==
  /\ work.active
  /\ CASE kind = "table" -> Len(work.tables) < NumDefined(work.module, "table")
       [] kind = "memory" ->
            /\ Len(work.tables) = NumDefined(work.module, "table")
            /\ Len(work.memories) < NumDefined(work.module, "memory")
       [] kind = "vmctx" ->
            /\ Len(work.tables) = NumDefined(work.module, "table")
            /\ Len(work.memories) = NumDefined(work.module, "memory")

Desc(kind, descs, done) == descs[NumImported(work.module, kind) + Len(done) + 1]

(* allocate_table: mmap and mprotect may each be refused, which comes to   *)
(* the same: the vector is dropped with its mapping.  Without elements     *)
(* there is no mapping.                                                    *)
AllocateTable ==
  /\ Allocating("table")
  /\ \E desc \in {Desc("table", Modules[work.module].tables, work.tables)} :
       \/ /\ TableFits(desc)
          /\ \E vec \in {TableNew(desc)}, base \in {IF TableReserve(desc) = 0 THEN 0 ELSE FreeBase} :
               /\ space' = IF base = 0 THEN space ELSE Extended(base, vec, Blank)
               /\ work' = [work EXCEPT !.tables = Append(@, [base |-> base, len |-> vec.len])]
          /\ UNCHANGED <<linker, store, evaluator, lookups, panicked>>
       \/ TableReserve(desc) # 0 /\ AllocationFails
       \/ ~TableFits(desc) /\ Panic(Deallocated, evaluator)

(* allocate_memory: the minimum is a number of bytes that can be written   *)
(* as one (the expect on it fails for 64-bit memories only).               *)
AllocateMemory ==
  /\ Allocating("memory")
  /\ \E desc \in {Desc("memory", Modules[work.module].memories, work.memories)} :
       \/ /\ MemoryFits(desc)
          /\ space' = Extended(FreeBase, MemoryNew(desc), Blank)
          /\ work' = [work EXCEPT !.memories = Append(@, [base |-> FreeBase, len |-> desc.min])]
          /\ UNCHANGED <<linker, store, evaluator, lookups, panicked>>
       \/ CanReserve(RequestBytes(desc)) /\ AllocationFails
       \/ ~MemoryFits(desc) /\ Panic(Deallocated, evaluator)

(* allocate_vmctx, the initialization of everything, and push_instance.    *)
PushInstance(ctx) ==
  [store EXCEPT
     !.instances = Append(@,
        [module |-> work.module, vmctx |-> ctx, tables |-> work.tables,
         memories |-> work.memories,
         exports |-> [n \in DOMAIN Modules[work.module].exports |-> <<>>]]),
     !.vmctx2instance = [c \in DOMAIN @ \cup {ctx} |->
                           IF c = ctx THEN Len(store.instances) + 1 ELSE @[c]]]

AllocateVmctx ==
  /\ Allocating("vmctx")
  /\ \/ AllocationFails
     \/ \E end \in {InitializeInstance(work.module, work.tables, work.memories, evaluator)} :
          \/ end.panics /\ Panic(Deallocated, end.stack)
          \/ /\ ~end.panics
             /\ space' = Extended(FreeBase, ContextNew(work.module),
                           InitialContext(work.module, FreeBase, work.tables, work.memories,
                                          work.imports, end.values))
             /\ evaluator' = end.stack
             /\ store' = PushInstance(FreeBase)
             /\ work' = Idle
             /\ UNCHANGED <<linker, lookups, panicked>>

Next ==
  \/ \E m \in DOMAIN Modules : Instantiate(m)
  \/ AllocateTable
  \/ AllocateMemory
  \/ AllocateVmctx
  \/ \E i \in DOMAIN store.instances :
       \E n \in DOMAIN store.instances[i].exports : GetExport(i, n)
  \/ \E i \in DOMAIN store.instances, name \in Names : DefineInstance(name, i)
  \/ \E module, asModule \in Names : AliasModule(module, asModule)

Spec == Init /\ [][Next]_vars

-----------------------------------------------------------------------------
(* Properties.                                                             *)

InstanceIds == DOMAIN store.instances

(* The n-th thing of a kind that the instance of a context defines, if it  *)
(* is an instance of the module and defines that many.                     *)
Nowhere == [inst |-> 0, kind |-> "none", index |-> 0]
ThingOf(ctx, m, kind, index) ==
  IF /\ ctx \in DOMAIN store.vmctx2instance
     /\ store.instances[store.vmctx2instance[ctx]].module = m
     /\ index \in 0 .. NumDefined(m, kind) - 1
  THEN [inst |-> store.vmctx2instance[ctx], kind |-> kind, index |-> index]
  ELSE Nowhere

(* What a pointer to a definition, and what a function record, stand for.  *)
IndexAt(begin, size, at) ==
  IF (at - begin) % size = 0 THEN (at - begin) \div size ELSE -1
ThingIn(m, kind, ptr) ==
  ThingOf(ptr.ctx, m, kind,
    IndexAt(OffsetsOf[m][DefinitionRegion[kind]], SizeOf[DefinitionRegion[kind]], ptr.at))
ThingAt(kind, ptr) ==
  IF ptr.ctx \in DOMAIN store.vmctx2instance
  THEN ThingIn(store.instances[store.vmctx2instance[ptr.ctx]].module, kind, ptr)
  ELSE Nowhere
FuncCalled(ref) ==
  IF ref.array_call = [ref.wasm_call EXCEPT !.entry = "array"]
  THEN ThingOf(ref.vmctx, ref.wasm_call.module, "func", ref.wasm_call.func)
  ELSE Nowhere

(* What an import in a context, and what an exported handle, stand for.    *)
Imported(kind, import) ==
  CASE kind = "func" -> FuncCalled(import)
    [] kind # "func" /\ import.vmctx = import.from.ctx -> ThingAt(kind, import.from)
    [] OTHER -> Nowhere
Defined(kind, exported) ==
  IF kind = "func"
  THEN FuncCalled(space[exported.definition.ctx].slots[exported.definition.at].value)
  ELSE Imported(kind, [from |-> exported.definition, vmctx |-> exported.vmctx])

Exts == [ext \in Range(linker.map) |->
           Defined(ext.kind, store.exported[ext.kind][ext.handle])]

(* Names, handles, function records and pointers between contexts stand    *)
(* for what Linking says: a name for the thing of the instance that was    *)
(* defined under it, and an import for what its name stood for when the    *)
(* instance was made, through any number of re-exports, aliases and failed *)
(* calls (src/linker.rs, src/instance.rs, src/runtime/instance.rs).        *)
Abstract == INSTANCE Linking WITH
  defs <- [key \in {<<linker.strings[k[1]], linker.strings[k[2]]>> : k \in DOMAIN linker.map} |->
             Exts[linker.map[ImportKey(linker.strings, key[1], key[2])]]],
  insts <- [i \in InstanceIds |->
              LET m == store.instances[i].module
              IN [module |-> m,
                  imports |-> [kind \in Kinds |->
                    [k \in 1 .. NumImported(m, kind) |->
                       Imported(kind, space[store.instances[i].vmctx].slots
                                        [ElementAt(m, ImportRegion[kind], k - 1)].value)]]]]

ImplementsLinking == Abstract!Spec

(* A context holds what its instance says, all of it and nothing else on   *)
(* top: its header, the record of each function that escapes in its place, *)
(* its tables and memories, and its globals with the values of their own   *)
(* expressions, which leave nothing behind on the shared stack of the      *)
(* evaluator (initialize_vmctx, VMOffsets::for_module, eval).              *)
RecordIntact(i, m, f, ref, imports) ==
  /\ ref # <<>> /\ ref[1].type = Modules[m].funcs[f].type
  /\ IF f > NumImported(m, "func")
     THEN FuncCalled(ref[1]) = [inst |-> i, kind |-> "func", index |-> f - 1 - NumImported(m, "func")]
     ELSE imports[f] # <<>> /\ FuncCalled(ref[1]) = FuncCalled(imports[f][1])
ContextIntact(i, instance, m, slots) ==
  /\ \A h \in ToSet(Header(m)) : Read(slots, h.at, h.size) = <<h.value>>
  /\ \A f \in DOMAIN Modules[m].funcs : Modules[m].funcs[f].ref # <<>> =>
       RecordIntact(i, m, f, ReadArray(m, slots, "func_refs")[Modules[m].funcs[f].ref[1] + 1],
                    ReadArray(m, slots, "imported_functions"))
  /\ ReadArray(m, slots, "tables") =
       [k \in DOMAIN instance.tables |-> <<Definition(instance.tables[k])>>]
  /\ ReadArray(m, slots, "memories") =
       [k \in DOMAIN instance.memories |-> <<Definition(instance.memories[k])>>]
  /\ ReadArray(m, slots, "globals") =
       [k \in DOMAIN Modules[m].globals |-> <<GlobalValue(Eval(<<>>, Modules[m].globals[k]).value)>>]
ContextsIntact ==
  /\ ~panicked => evaluator = <<>>
  /\ \A i \in InstanceIds :
       ContextIntact(i, store.instances[i], store.instances[i].module,
                     space[store.instances[i].vmctx].slots)

(* The mappings of the process are those of the instances of the store and *)
(* of the instantiation under way, each of them once: whatever the kernel  *)
(* refuses and wherever a panic comes, nothing is left mapped and nothing  *)
(* that is in use is unmapped (allocate_module and its comment "the        *)
(* resources are cleaned up automatically").                               *)
MappingsOf(i) ==
  LET instance == store.instances[i]
  IN {instance.vmctx} \cup Bases(instance.tables) \cup Bases(instance.memories)
NothingLeaks ==
  /\ DOMAIN space = UNION {MappingsOf(i) : i \in InstanceIds} \cup Deallocated
  /\ \A i, j \in InstanceIds : i # j => MappingsOf(i) \cap MappingsOf(j) = {}
  /\ \A i \in InstanceIds :
       /\ MappingsOf(i) \cap Deallocated = {}
       /\ store.vmctx2instance[store.instances[i].vmctx] = i

(* The length that compiled code is told is backed by accessible memory:   *)
(* of every memory, and behind it lies a guard that is not accessible; of  *)
(* every context; and of every table whose elements fit one page.  Table   *)
(* memory is reserved by the byte and used by the element, and larger      *)
(* tables do not have this property (Memory::try_new, Table::try_new,      *)
(* OwnedVMContext::try_new).                                               *)
StorageBacked ==
  \A i \in InstanceIds :
    LET instance == store.instances[i]
        m == instance.module
    IN /\ \A k \in DOMAIN instance.memories :
            LET memory == instance.memories[k]
                region == space[memory.base]
                desc == Modules[m].memories[NumImported(m, "memory") + k]
            IN /\ memory.len <= region.accessible
               /\ region.accessible + GuardBytes(desc) <= region.mapped
       /\ \A k \in DOMAIN instance.tables :
            LET table == instance.tables[k]
                region == space[table.base]
            IN table.len > 0 /\ table.len * PtrSize <= PageSize =>
                 table.len * PtrSize <= region.accessible /\ region.accessible <= region.mapped
       /\ OffsetsOf[m].size <= space[instance.vmctx].accessible

(* What the embedder was given stays what it is: an export that has a      *)
(* handle keeps it, a handle stands for the same thing, and a name that is *)
(* defined is never defined anew, by whatever call and however it fails    *)
(* (get_export_inner, push_function, insert).                              *)
HandlesStable ==
  [][/\ \A kind \in Kinds : IsPrefix(store.exported[kind], store'.exported[kind])
     /\ \A i \in InstanceIds :
          /\ store'.instances[i].vmctx = store.instances[i].vmctx
          /\ \A n \in DOMAIN store.instances[i].exports :
               store.instances[i].exports[n] # <<>> =>
                 store'.instances[i].exports[n] = store.instances[i].exports[n]
     /\ \A key \in DOMAIN linker.map :
          LET module == linker.strings[key[1]]
              name == linker.strings[key[2]]
          IN Get(module, name)' = Get(module, name)]_vars
=============================================================================
