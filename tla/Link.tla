-------------------------------- MODULE Link --------------------------------
(***************************************************************************)
(* From the functions of a translated module to its text section: the      *)
(* compile jobs and their keys (src/compile/compile_key.rs), the relations *)
(* between jobs and outputs (src/compile/mod.rs) and what a compiled       *)
(* function says of its relocations and traps                              *)
(* (src/compile/compiled_function.rs).  Everything here is a function of   *)
(* its arguments; ModuleLoad runs it step by step.                         *)
(*                                                                         *)
(* A module is [imports |-> n, funcs |-> <<[escapes, body], ...>>], where  *)
(* the body stands for what the code generator makes of the function: its  *)
(* length, its names and the relocations and traps at given offsets.  The  *)
(* text section is kept as the sequence of what its bytes are, <<key, j>>  *)
(* for byte j of the output with that key, so that the properties can say  *)
(* what really lies at an address.                                         *)
(***************************************************************************)
EXTENDS Integers, Sequences, SequencesExt, FiniteSetsExt

CONSTANT
  DebugAssertions     \* is the crate built with debug assertions?

NS_WASM_FUNC == 0
NS_BUILTIN == 1

WASM_FUNCTION_KIND == 0
ARRAY_TO_WASM_TRAMPOLINE_KIND == 2
WASM_TO_BUILTIN_TRAMPOLINE_KIND == 4

WasmFunction(i) == [kind |-> WASM_FUNCTION_KIND, index |-> i]
ArrayToWasmTrampoline(i) == [kind |-> ARRAY_TO_WASM_TRAMPOLINE_KIND, index |-> i]
WasmToBuiltinTrampoline(b) == [kind |-> WASM_TO_BUILTIN_TRAMPOLINE_KIND, index |-> b]

-----------------------------------------------------------------------------
(* Traps.  The compiler marks an instruction with a trap code; the traps   *)
(* of this crate are user codes, numbered in the order of the enum, and    *)
(* the code generator's own codes are the last five.                       *)

UserTraps ==
  <<"InternalAssertionFailed", "HeapMisaligned", "TableOutOfBounds",
    "IndirectCallToNull", "BadSignature", "UnreachableCodeReached",
    "NullReference", "NullI31Ref">>
ReservedTraps ==
  <<"StackOverflow", "IntegerOverflow", "MemoryOutOfBounds",
    "IntegerDivisionByZero", "BadConversionToInteger">>

TRAP_OFFSET == 1
FirstReserved == 251

Discriminant(traps, trap) == SelectInSeq(traps, LAMBDA t : t = trap) - 1

TrapCode(trap) ==
  IF Contains(UserTraps, trap)
  THEN Discriminant(UserTraps, trap) + TRAP_OFFSET
  ELSE Discriminant(ReservedTraps, trap) + FirstReserved

TRAP_INTERNAL_ASSERT == TrapCode("InternalAssertionFailed")

FromTrapCode(code) ==
  IF code >= FirstReserved THEN ReservedTraps[code - FirstReserved + 1]
  ELSE UserTraps[code - TRAP_OFFSET + 1]

-----------------------------------------------------------------------------
(* Indices: functions are numbered from 0, the imported ones first.        *)

FuncIndex(m, def) == m.imports + def
DefinedFuncIndex(m, func) == func - m.imports
IsImportedFunc(m, func) == func < m.imports

(* CompileInputs::from_module: one job for each defined function, followed *)
(* by one for its trampoline when the function escapes.                    *)
FromModule(m) ==
  FlattenSeq([i \in DOMAIN m.funcs |->
    <<WasmFunction(i - 1)>>
      \o (IF m.funcs[i].escapes THEN <<ArrayToWasmTrampoline(i - 1)>> ELSE <<>>)])

(* The trampoline by which the host enters a function.  With debug         *)
(* assertions it first checks the capacity of the argument array and the   *)
(* kind of its context; then it calls the function by its name.            *)
TrampolineBody(func) ==
  [len |-> 4, align |-> 2,
   names |-> <<[namespace |-> NS_WASM_FUNC, index |-> func]>>,
   relocs |-> <<[at |-> 2, name |-> 1]>>,
   traps |-> IF DebugAssertions
             THEN <<[at |-> 0, code |-> TRAP_INTERNAL_ASSERT],
                    [at |-> 1, code |-> TRAP_INTERNAL_ASSERT],
                    [at |-> 3, code |-> TRAP_INTERNAL_ASSERT]>>
             ELSE <<>>]

(* The trampoline from compiled code to a builtin: it finds the builtin    *)
(* through the context, so that nothing is left to relocate.               *)
BuiltinBody ==
  [len |-> 4, align |-> 2, names |-> <<>>, relocs |-> <<>>,
   traps |-> IF DebugAssertions
             THEN <<[at |-> 0, code |-> TRAP_INTERNAL_ASSERT]>>
             ELSE <<>>]

(* What the code generator makes of the job with this key.                 *)
CompiledFunction(m, key) ==
  CASE key.kind = WASM_FUNCTION_KIND -> m.funcs[key.index + 1].body
    [] key.kind = ARRAY_TO_WASM_TRAMPOLINE_KIND ->
         TrampolineBody(FuncIndex(m, key.index))
    [] key.kind = WASM_TO_BUILTIN_TRAMPOLINE_KIND -> BuiltinBody

(* Relocation::from_mach_reloc: a relocation of the machine code refers to *)
(* a name of the function, whose namespace says what its index counts.     *)
(* IsCompiled leaves out what the code generator does not produce here:    *)
(* calls of library routines (todo!()) and other namespaces (a panic).     *)
Relocations(fn) ==
  [i \in DOMAIN fn.relocs |->
    LET name == fn.names[fn.relocs[i].name]
    IN [at     |-> fn.relocs[i].at,
        target |-> IF name.namespace = NS_WASM_FUNC THEN "Wasm" ELSE "Builtin",
        index  |-> name.index]]

(* What compilation starts from: a call by name is to a defined function   *)
(* (imported ones are called through the context) or to a builtin, and     *)
(* what the code generator says of an instruction, at most one trap each,  *)
(* it says in the order of the instructions.                               *)
IsCompiled(m, fn) ==
  /\ fn \in [len : Nat \ {0}, align : Nat \ {0},
             names : Seq([namespace : {NS_WASM_FUNC, NS_BUILTIN}, index : Nat]),
             relocs : Seq([at : Nat, name : Nat]), traps : Seq([at : Nat, code : Nat])]
  /\ \A i \in DOMAIN fn.names : fn.names[i].namespace = NS_WASM_FUNC =>
       DefinedFuncIndex(m, fn.names[i].index) \in 0 .. Len(m.funcs) - 1
  /\ \A i \in DOMAIN fn.relocs :
       fn.relocs[i].at < fn.len /\ fn.relocs[i].name \in DOMAIN fn.names
  /\ \A i \in DOMAIN fn.traps :
       /\ fn.traps[i].at < fn.len
       /\ \E trap \in ToSet(UserTraps) \cup ToSet(ReservedTraps) :
            fn.traps[i].code = TrapCode(trap)
       /\ \A j \in 1 .. i - 1 : fn.traps[j].at < fn.traps[i].at

IsModule(m) ==
  /\ m.imports \in Nat
  /\ m.funcs \in Seq({m.funcs[i] : i \in DOMAIN m.funcs})
  /\ \A i \in DOMAIN m.funcs :
       m.funcs[i].escapes \in BOOLEAN /\ IsCompiled(m, m.funcs[i].body)

(* compile_required_builtin_trampolines: one job for each builtin that     *)
(* some output calls, in the order in which the outputs first name them.   *)
NeedBuiltin(jobs, r) ==
  IF r.target # "Builtin" \/ Contains(jobs, WasmToBuiltinTrampoline(r.index))
  THEN jobs ELSE Append(jobs, WasmToBuiltinTrampoline(r.index))

BuiltinJobs(m, outputs) ==
  FoldLeft(NeedBuiltin, <<>>,
           FlattenSeq([i \in DOMAIN outputs |->
                         Relocations(CompiledFunction(m, outputs[i]))]))

-----------------------------------------------------------------------------
(* Linking.  `outputs` is the sequence of the keys of the outputs.         *)

(* The map from a kind and a key to the position of its output.            *)
Position(outputs, key) == Max({i \in DOMAIN outputs : outputs[i] = key})

(* The text section builder of the code generator: append pads to the      *)
(* alignment of the function and returns the offset of its first byte.     *)
AlignUp(n, align) == ((n + align - 1) \div align) * align

TextAppend(text, key, fn) ==
  text \o [i \in 1 .. AlignUp(Len(text), fn.align) - Len(text) |-> <<>>]
       \o [i \in 1 .. fn.len |-> <<key, i - 1>>]

AppendOutput(m, acc, key) ==
  LET fn == CompiledFunction(m, key)
      text == TextAppend(acc.text, key, fn)
  IN [text |-> text,
      locs |-> Append(acc.locs, [start |-> Len(text) - fn.len, length |-> fn.len])]

AppendOutputs(m, outputs) ==
  FoldLeft(LAMBDA acc, key : AppendOutput(m, acc, key),
           [text |-> <<>>, locs |-> <<>>], outputs)

(* The position of the output that a relocation is resolved to.            *)
TargetPosition_Unshifted(m, outputs, r) ==
  IF r.target = "Wasm"
  THEN LET hits == {i \in DOMAIN outputs : outputs[i] = WasmFunction(r.index)}
       IN IF hits = {} THEN 1 ELSE Max(hits)
  ELSE Position(outputs, WasmToBuiltinTrampoline(r.index))

TargetPosition(m, outputs, r) ==
  IF r.target = "Wasm"
  THEN Position(outputs, WasmFunction(DefinedFuncIndex(m, r.index)))
  ELSE Position(outputs, WasmToBuiltinTrampoline(r.index))

(* Where a call goes that was not relocated: the code generator leaves a   *)
(* placeholder in the instruction.                                         *)
Placeholder == -1

(* resolve_reloc is the argument of a debug_assert!, which a build without *)
(* debug assertions does not evaluate.                                     *)
ResolvedCalls(m, outputs, locs) ==
  UNION {
    LET relocs == Relocations(CompiledFunction(m, outputs[i]))
    IN {[at |-> locs[i].start + relocs[j].at,
         to |-> IF DebugAssertions
                THEN locs[TargetPosition(m, outputs, relocs[j])].start
                ELSE Placeholder] : j \in DOMAIN relocs} : i \in DOMAIN outputs}

(* TrapsBuilder: the traps of every output, in order; `sorted` stays TRUE  *)
(* while the sanity check of push_traps holds.                             *)
PushTrap(loc, acc, trap) ==
  LET pos == loc.start + trap.at
  IN [offsets |-> Append(acc.offsets, pos),
      traps   |-> Append(acc.traps, FromTrapCode(trap.code)),
      last    |-> pos,
      sorted  |-> acc.sorted /\ pos >= acc.last]

PushTraps(acc, loc, traps) ==
  [FoldLeft(LAMBDA a, trap : PushTrap(loc, a, trap), acc, traps)
     EXCEPT !.last = loc.start + loc.length]

PushOutput(acc, fn) == PushTraps(acc, fn.loc, fn.traps)

TrapTable(m, outputs, locs) ==
  FoldLeft(PushOutput,
           [offsets |-> <<>>, traps |-> <<>>, last |-> 0, sorted |-> TRUE],
           [i \in DOMAIN outputs |->
              [loc |-> locs[i], traps |-> CompiledFunction(m, outputs[i]).traps]])

(* The table of the defined functions, in the order of their keys: where   *)
(* each one lies and, if it has one, its trampoline.                       *)
FunctionInfo_ByIndex(m, outputs, locs) ==
  [d \in DOMAIN m.funcs |->
    LET tramp == ArrayToWasmTrampoline(d - 1)
    IN [loc   |-> locs[d],
        tramp |-> IF Contains(outputs, tramp)
                  THEN <<locs[Position(outputs, tramp)]>> ELSE <<>>]]

FunctionInfo(m, outputs, locs) ==
  LET keys == {k \in ToSet(outputs) : k.kind = WASM_FUNCTION_KIND}
      sorted == CHOOSE s \in [1 .. Cardinality(keys) -> keys] :
                  \A i, j \in DOMAIN s : i < j => s[i].index < s[j].index
  IN [d \in DOMAIN sorted |->
       LET tramp == ArrayToWasmTrampoline(sorted[d].index)
       IN [loc   |-> locs[Position(outputs, sorted[d])],
           tramp |-> IF Contains(outputs, tramp)
                     THEN <<locs[Position(outputs, tramp)]>> ELSE <<>>]]

(* UnlinkedCompileOutputs::link_and_finish.  It panics on a relocation to  *)
(* an imported function and, in a build with                               *)
(* debug assertions, on an unsorted trap table.                            *)
LinkAndFinish(m, outputs) ==
  LET appended == AppendOutputs(m, outputs)
      locs == appended.locs
      table == TrapTable(m, outputs, locs)
  IN [text    |-> appended.text,
      calls   |-> ResolvedCalls(m, outputs, locs),
      info    |-> FunctionInfo(m, outputs, locs),
      offsets |-> table.offsets,
      traps   |-> table.traps,
      panics  |->
        \/ DebugAssertions /\ ~table.sorted
        \/ \E i \in DOMAIN outputs :
             \E r \in ToSet(Relocations(CompiledFunction(m, outputs[i]))) :
               r.target = "Wasm" /\ IsImportedFunc(m, r.index)]
=============================================================================
