----------------------------- MODULE Instances ------------------------------
(***************************************************************************)
(* What an instance of a module consists of (src/runtime/instance.rs): its *)
(* tables (src/runtime/table.rs), its memories (src/runtime/memory.rs) and *)
(* its VMContext (src/runtime/owned_vmcontext.rs), how large each of them  *)
(* is, and what initialization writes to the context.                      *)
(*                                                                         *)
(* A context is a function: the offset of each thing that was written to   *)
(* it is mapped to its size and value, and a write erases what it          *)
(* overlaps.  A pointer into a context is a mapping and an offset.         *)
(* Indices count from zero, as they do in the code.                        *)
(***************************************************************************)
EXTENDS Mapping, VMOffsets, ConstEval, FiniteSets

CONSTANTS
  Modules,    \* the modules there are, by name
  TableMax,   \* TABLE_MAX, in elements
  MemoryMax   \* MEMORY_MAX, in bytes

ASSUME LimitsPositive == TableMax \in Nat \ {0} /\ MemoryMax \in Nat \ {0}

Kinds == {"func", "table", "memory", "global"}

-----------------------------------------------------------------------------
(* Index spaces: imports first, then definitions.  The counts and the      *)
(* offsets are part of the module.                                         *)

CountImports(m, kind) ==
  Cardinality({i \in DOMAIN Modules[m].imports : Modules[m].imports[i].kind = kind})

Escaping(m) ==
  SelectSeq([i \in DOMAIN Modules[m].funcs |-> i - 1], LAMBDA i : Modules[m].funcs[i + 1].ref # <<>>)

CountsOf ==
  [m \in DOMAIN Modules |->
     [func_refs          |-> Len(Escaping(m)),
      imported_functions |-> CountImports(m, "func"),
      imported_tables    |-> CountImports(m, "table"),
      imported_memories  |-> CountImports(m, "memory"),
      imported_globals   |-> CountImports(m, "global"),
      tables             |-> Len(Modules[m].tables) - CountImports(m, "table"),
      memories           |-> Len(Modules[m].memories) - CountImports(m, "memory"),
      globals            |-> Len(Modules[m].globals)]]

OffsetsOf == [m \in DOMAIN Modules |-> ForModule(CountsOf[m])]

ImportRegion ==
  [func |-> "imported_functions", table |-> "imported_tables",
   memory |-> "imported_memories", global |-> "imported_globals"]
DefinitionRegion == [table |-> "tables", memory |-> "memories", global |-> "globals"]

NumImported(m, kind) == CountsOf[m][ImportRegion[kind]]
NumDefined(m, kind) ==
  IF kind = "func" THEN Len(Modules[m].funcs) - NumImported(m, kind)
  ELSE CountsOf[m][DefinitionRegion[kind]]

(* defined_func_index and its like: nothing for an import.                 *)
DefinedIndex(m, kind, index) ==
  IF index < NumImported(m, kind) THEN <<>> ELSE <<index - NumImported(m, kind)>>

ElementAt(m, region, i) == OffsetOf(OffsetsOf[m], region, i)

-----------------------------------------------------------------------------
(* Tables, memories and contexts.                                          *)

(* Table::try_new: the elements that may ever be needed are reserved as if *)
(* they were bytes.  The elements are then filled as elements: where they  *)
(* do not fit the accessible bytes the fill faults, which is left out.     *)
TableReserve(desc) == IF desc.max = <<>> THEN TableMax ELSE Min({TableMax, desc.max[1]})
Reserved(desc) == WithReserved(RoundUpToPages(TableReserve(desc)))
TableFits(desc) == TableReserve(desc) = 0 \/ HasRoom(Reserved(desc), desc.min)
TableNew(desc) ==
  IF TableReserve(desc) = 0 THEN NewVec ELSE TryGrow(Reserved(desc), desc.min)

(* Memory::try_new: the accessible part, what it may grow to, the guard.   *)
GuardBytes(desc) == RoundUpToPages(desc.guard)
RequestBytes(desc) ==
  LET bound == RoundUpToPages(MemoryMax)
  IN (IF desc.max = <<>> THEN bound ELSE Min({bound, desc.max[1]})) + GuardBytes(desc)
MemoryFits(desc) ==
  /\ CanReserve(RequestBytes(desc))
  /\ RoundUpToPages(desc.min) <= RequestBytes(desc)
MemoryNew_Truncated(desc) ==
  [WithReserved(RequestBytes(desc)) EXCEPT
     !.len = desc.min, !.accessible = (desc.min \div PageSize) * PageSize]
MemoryNew(desc) ==
  [WithReserved(RequestBytes(desc)) EXCEPT
     !.len = desc.min, !.accessible = RoundUpToPages(desc.min)]

(* OwnedVMContext::try_new.                                                *)
ContextNew(m) == NewZeroed(RoundUpToPages(OffsetsOf[m].size))

-----------------------------------------------------------------------------
(* Contexts.                                                               *)

Ptr(ctx, at) == [ctx |-> ctx, at |-> at]

Blank == [at \in {} |-> [size |-> 0, value |-> 0]]

Put(slots, write) ==
  LET kept == {at \in DOMAIN slots :
                 at + slots[at].size <= write.at \/ write.at + write.size <= at}
  IN [at \in kept \cup {write.at} |->
        IF at = write.at THEN [size |-> write.size, value |-> write.value]
        ELSE slots[at]]

(* Reading what was written as a whole, or nothing.                        *)
Read(slots, at, size) ==
  IF at \in DOMAIN slots /\ slots[at].size = size THEN <<slots[at].value>> ELSE <<>>

(* vmctx_func_refs, vmctx_function_imports, ...: an array of a context.    *)
ReadArray(m, slots, region) ==
  [i \in 1 .. CountsOf[m][region] |->
     Read(slots, OffsetsOf[m][region] + (i - 1) * SizeOf[region], SizeOf[region])]

(* Writing the elements of an array one after the other.                   *)
ArrayWrites(m, region, values) ==
  [i \in DOMAIN values |->
     [at |-> ElementAt(m, region, i - 1), size |-> SizeOf[region],
      value |-> values[i]]]

(* resolve_function_loc: where the code of a module has a function, for    *)
(* calls from compiled code and for calls from the host.                   *)
WasmLoc(m, def) == [module |-> m, func |-> def, entry |-> "wasm"]
ArrayLoc(m, def) == [module |-> m, func |-> def, entry |-> "array"]

(* The record for a function that escapes: of its own code and context, or *)
(* what it was imported as.                                                *)
FuncRef(m, ctx, imports, index) ==
  LET def == DefinedIndex(m, "func", index)
      type == Modules[m].funcs[index + 1].type
  IN IF def # <<>>
     THEN [array_call |-> ArrayLoc(m, def[1]), wasm_call |-> WasmLoc(m, def[1]),
           vmctx |-> ctx, type |-> type]
     ELSE [array_call |-> imports.func[index + 1].array_call,
           wasm_call |-> imports.func[index + 1].wasm_call,
           vmctx |-> imports.func[index + 1].vmctx, type |-> type]

(* initialize_vmfunc_refs.                                                 *)
FuncRefWrites(m, ctx, imports) ==
  [k \in DOMAIN Escaping(m) |->
     LET index == Escaping(m)[k]
     IN [at |-> ElementAt(m, "func_refs", Modules[m].funcs[index + 1].ref[1]),
         size |-> SizeOf.func_refs, value |-> FuncRef(m, ctx, imports, index)]]

Header(m) ==
  << [at |-> vmctx_magic, size |-> 4, value |-> [field |-> "magic"]],
     [at |-> vmctx_builtin_functions, size |-> PtrSize, value |-> [field |-> "builtins"]],
     [at |-> vmctx_type_ids, size |-> PtrSize, value |-> [field |-> m]] >>

(* as_vmtable_definition, as_vmmemory_definition, from_vmval.              *)
Definition(storage) == [base |-> storage.base, current_length |-> storage.len]
GlobalValue(value) == [data |-> value]

Map(f(_), seq) == [i \in DOMAIN seq |-> f(seq[i])]

(* The expressions that initialization evaluates, in their order: globals, *)
(* initial values of tables, then for each active segment its items and    *)
(* its offset.  An offset has a limit, which makes the segment end inside  *)
(* the table or memory; there is none in an import, and to go there panics *)
(* as well.  A segment of function indices, a todo!() in the place of its  *)
(* items, is one whose item is an operator that is not implemented.        *)
AnyValue == 2^I64Bits
Plain(exprs) == [i \in DOMAIN exprs |-> [expr |-> exprs[i], limit |-> AnyValue]]
LimitIn(storage, def, segment) ==
  IF def = <<>> THEN -1 ELSE storage[def[1] + 1].len - segment.len
SegmentTasks(m, kind, storage, segment) ==
  Append(Plain(segment.items),
    [expr |-> segment.offset,
     limit |-> LimitIn(storage, DefinedIndex(m, kind, segment.index), segment)])
SegmentsTasks(m, kind, storage, segments) ==
  FoldLeft(LAMBDA tasks, segment : tasks \o SegmentTasks(m, kind, storage, segment),
           <<>>, segments)
InitTasks(m, tables, memories) ==
  Plain(Modules[m].globals) \o Plain(Modules[m].tableInits)
  \o SegmentsTasks(m, "table", tables, Modules[m].elems)
  \o SegmentsTasks(m, "memory", memories, Modules[m].data)

Recorded(done, limit, new) ==
  [panics |-> new.panics \/ Unsigned(new.value) > limit, stack |-> new.stack,
   values |-> Append(done.values, new.value)]
RunTask(done, task) ==
  IF done.panics THEN done
  ELSE Recorded(done, task.limit, Eval(done.stack, task.expr))

(* initialize_vmctx: what is written, in this order.                       *)
ContextWrites(m, ctx, tables, memories, imports, values) ==
  Header(m)
  \o FuncRefWrites(m, ctx, imports)
  \o ArrayWrites(m, "imported_functions", imports.func)
  \o ArrayWrites(m, "imported_tables", imports.table)
  \o ArrayWrites(m, "imported_memories", imports.memory)
  \o ArrayWrites(m, "imported_globals", imports.global)
  \o ArrayWrites(m, "tables", Map(Definition, tables))
  \o ArrayWrites(m, "memories", Map(Definition, memories))
  \o ArrayWrites(m, "globals", Map(GlobalValue, values))

(* new_unchecked after the allocation: initialize_vmctx, initialize_tables *)
(* and initialize_memories.  The definition of a shared memory panics      *)
(* before anything is evaluated.  The contents of tables and memories are  *)
(* left out.                                                               *)
Shares(m) ==
  \E i \in NumImported(m, "memory") + 1 .. Len(Modules[m].memories) : Modules[m].memories[i].shared
InitializeInstance(m, tables, memories, stack) ==
  FoldLeft(RunTask, [panics |-> Shares(m), stack |-> stack, values |-> <<>>],
           InitTasks(m, tables, memories))
InitialContext(m, ctx, tables, memories, imports, values) ==
  FoldLeft(Put, Blank,
    ContextWrites(m, ctx, tables, memories, imports, SubSeq(values, 1, Len(Modules[m].globals))))
=============================================================================
