---------------------------- MODULE LinkContract ----------------------------
(***************************************************************************)
(* What the loader of modules relies on when it compiles and links: the    *)
(* jobs there are, and what link_and_finish makes of their outputs.        *)
(* LinkProofs shows that Link keeps it for every module; the proofs about  *)
(* the loads (LoadProofs) need no more than this of Link.                  *)
(***************************************************************************)
EXTENDS Link, CodeRegistry

\* The keys of compile jobs, and what a byte of a text section is.
Key == [kind : {WASM_FUNCTION_KIND, ARRAY_TO_WASM_TRAMPOLINE_KIND,
                WASM_TO_BUILTIN_TRAMPOLINE_KIND}, index : Nat]
Byte == {<<>>} \cup (Key \X Nat)

\* The jobs of a module: its functions, the trampolines of those that escape, and the
\* trampolines of the builtins that any of these calls.
FunctionKeys(m) == {WasmFunction(d - 1) : d \in DOMAIN m.funcs}
TrampolineKeys(m) == {ArrayToWasmTrampoline(d - 1) : d \in {e \in DOMAIN m.funcs : m.funcs[e].escapes}}
CallsOf(m, key) == ToSet(Relocations(CompiledFunction(m, key)))
Builtins(relocs) == {WasmToBuiltinTrampoline(r.index) : r \in {q \in relocs : q.target = "Builtin"}}
Needed(m) == Builtins(UNION {CallsOf(m, key) : key \in FunctionKeys(m) \cup TrampolineKeys(m)})

\* The outputs link_and_finish is given: those of exactly the jobs of the module.
Complete(m, outputs) ==
  /\ outputs \in Seq(Key)
  /\ ToSet(outputs) = FunctionKeys(m) \cup TrampolineKeys(m) \cup Needed(m)

-----------------------------------------------------------------------------
(* What link_and_finish returns.                                           *)

\* A location is the whole of an output.
IsWhole(m, text, loc, key) ==
  /\ loc.start + loc.length <= Len(text)
  /\ loc.length = CompiledFunction(m, key).len
  /\ \A j \in 0 .. loc.length - 1 : text[loc.start + j + 1] = <<key, j>>

\* An entry of the function table: where the function lies, and its trampoline if it
\* escapes.
Describes(m, text, d, entry) ==
  /\ IsWhole(m, text, entry.loc, WasmFunction(d - 1))
  /\ m.funcs[d].escapes <=> entry.tramp # <<>>
  /\ entry.tramp # <<>> => IsWhole(m, text, entry.tramp[1], ArrayToWasmTrampoline(d - 1))

\* The codes that the code generator gave the instruction at a byte of the text, and the
\* codes of what lookup_trap_code finds.
Recorded(m, byte) ==
  LET traps == CompiledFunction(m, byte[1]).traps
  IN IF byte = <<>> THEN {}
     ELSE {traps[i].code : i \in {j \in DOMAIN traps : traps[j].at = byte[2]}}

Found(linked, offset) ==
  {TrapCode(trap) : trap \in ToSet(LookupTrapCode(linked.offsets, linked.traps, offset))}

\* A call was resolved to the first byte of what it was compiled to call.
Lands(m, linked, i, r) ==
  \E call \in linked.calls :
    /\ call.at = i - 1
    /\ call.to \in 0 .. Len(linked.text) - 1
    /\ linked.text[call.to + 1] =
         IF r.target = "Wasm"
         THEN <<WasmFunction(DefinedFuncIndex(m, r.index)), 0>>
         ELSE <<WasmToBuiltinTrampoline(r.index), 0>>

CallsResolved(m, linked) ==
  \A i \in DOMAIN linked.text : linked.text[i] # <<>> =>
    \A r \in CallsOf(m, linked.text[i][1]) : r.at = linked.text[i][2] => Lands(m, linked, i, r)

FunctionsDescribed(m, linked) ==
  /\ DOMAIN linked.info = DOMAIN m.funcs
  /\ \A d \in DOMAIN m.funcs : Describes(m, linked.text, d, linked.info[d])

TrapsFound(m, linked) ==
  \A offset \in 0 .. Len(linked.text) - 1 :
    Found(linked, offset) = Recorded(m, linked.text[offset + 1])

WellLinked(m, linked) ==
  /\ linked.panics = FALSE
  /\ linked.text \in Seq(Byte)
  /\ FunctionsDescribed(m, linked)
  /\ TrapsFound(m, linked)
  /\ DebugAssertions => CallsResolved(m, linked)

-----------------------------------------------------------------------------
(* Of a module: from_module and compile_required_builtin_trampolines start *)
(* its jobs, and the outputs of these are linked well.                     *)

StartsJobs(m) ==
  /\ FromModule(m) \in Seq(Key)
  /\ ToSet(FromModule(m)) = FunctionKeys(m) \cup TrampolineKeys(m)

StartsBuiltins(m) ==
  \A outputs \in Seq(Key) : ToSet(outputs) = FunctionKeys(m) \cup TrampolineKeys(m) =>
    /\ BuiltinJobs(m, outputs) \in Seq(Key)
    /\ ToSet(BuiltinJobs(m, outputs)) = Needed(m)

LinksWell(m) ==
  \A outputs : Complete(m, outputs) => WellLinked(m, LinkAndFinish(m, outputs))

Contract(m) == StartsJobs(m) /\ StartsBuiltins(m) /\ LinksWell(m)
=============================================================================
