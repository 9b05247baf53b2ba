----------------------------- MODULE VMOffsets ------------------------------
(***************************************************************************)
(* The layout of a VMContext (src/runtime/vmoffsets.rs): a header of fixed *)
(* size and eight arrays, one after the other, whose lengths are counts of *)
(* the module.  Sizes are those of a 64-bit host.                          *)
(***************************************************************************)
EXTENDS Integers

(* StaticVMOffsets: seven fields of the size of a pointer.                 *)
PtrSize == 8
vmctx_magic == 0
vmctx_builtin_functions == PtrSize
vmctx_type_ids == 2 * PtrSize
vmctx_stack_limit == 3 * PtrSize
vmctx_last_wasm_exit_fp == 4 * PtrSize
vmctx_last_wasm_exit_pc == 5 * PtrSize
vmctx_last_wasm_entry_fp == 6 * PtrSize
StaticSize == 7 * PtrSize

(* The arrays, in no particular order, and size_of their elements; and     *)
(* where in an element its fields are.                                     *)
Regions ==
  {"func_refs", "imported_functions", "imported_tables", "imported_memories",
   "imported_globals", "tables", "memories", "globals"}

SizeOf ==
  [func_refs |-> 32, imported_functions |-> 24, imported_tables |-> 16,
   imported_memories |-> 16, imported_globals |-> 16, tables |-> 16,
   memories |-> 16, globals |-> 16]

ImportFields == [from |-> 0, vmctx |-> PtrSize]
DefinitionFields == [base |-> 0, current_length |-> PtrSize]
FieldOffset ==
  [func_refs |-> [array_call |-> 0, wasm_call |-> PtrSize, vmctx |-> 2 * PtrSize,
                  type_index |-> 3 * PtrSize],
   imported_functions |-> [wasm_call |-> 0, array_call |-> PtrSize, vmctx |-> 2 * PtrSize],
   imported_tables |-> ImportFields, imported_memories |-> ImportFields, imported_globals |-> ImportFields,
   tables |-> DefinitionFields, memories |-> DefinitionFields, globals |-> [data |-> 0]]
FieldSize(field) ==
  CASE field = "data" -> 2 * PtrSize [] field = "type_index" -> 4 [] OTHER -> PtrSize

(* The lengths of the arrays of a module.                                  *)
Counts == [Regions -> Nat]

(* for_module: where each array begins, and the size of the whole.         *)
ForModule_Unescaped(n) ==
  LET functions == StaticSize
      itables   == functions + SizeOf.imported_functions * n.imported_functions
      imemories == itables + SizeOf.imported_tables * n.imported_tables
      iglobals  == imemories + SizeOf.imported_memories * n.imported_memories
      tables    == iglobals + SizeOf.imported_globals * n.imported_globals
      memories  == tables + SizeOf.tables * n.tables
      globals   == memories + SizeOf.memories * n.memories
  IN [func_refs |-> StaticSize, imported_functions |-> functions,
      imported_tables |-> itables, imported_memories |-> imemories,
      imported_globals |-> iglobals, tables |-> tables,
      memories |-> memories, globals |-> globals,
      size |-> globals + SizeOf.globals * n.globals]

ForModule(n) ==
  LET functions == StaticSize + SizeOf.func_refs * n.func_refs
      itables   == functions + SizeOf.imported_functions * n.imported_functions
      imemories == itables + SizeOf.imported_tables * n.imported_tables
      iglobals  == imemories + SizeOf.imported_memories * n.imported_memories
      tables    == iglobals + SizeOf.imported_globals * n.imported_globals
      memories  == tables + SizeOf.tables * n.tables
      globals   == memories + SizeOf.memories * n.memories
  IN [func_refs |-> StaticSize, imported_functions |-> functions,
      imported_tables |-> itables, imported_memories |-> imemories,
      imported_globals |-> iglobals, tables |-> tables,
      memories |-> memories, globals |-> globals,
      size |-> globals + SizeOf.globals * n.globals]

(* vmctx_vmfunc_ref, vmctx_vmfunction_import, ..., vmctx_vmglobal_definition: *)
(* where the i-th element of an array is.  Each asserts InArray.           *)
InArray(n, region, i) == i < n[region]
OffsetOf(offsets, region, i) == offsets[region] + i * SizeOf[region]

(* vmctx_vmfunc_ref_array_call, ..., vmctx_vmmemory_definition_current_length. *)
FieldOf(offsets, region, i, field) == OffsetOf(offsets, region, i) + FieldOffset[region][field]
=============================================================================
