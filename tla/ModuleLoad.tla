----------------------------- MODULE ModuleLoad -----------------------------
(***************************************************************************)
(* Module::from_bytes (src/module.rs), after the translation of the        *)
(* module: threads that share an engine compile the functions of their     *)
(* modules with contexts from a common pool (src/cranelift/compiler.rs),   *)
(* link the outputs (Link), map the text and make it executable            *)
(* (src/runtime/mmap_vec.rs, src/runtime/code_memory.rs) and register it   *)
(* (CodeRegistry).  Any step that the code lets fail may fail.             *)
(*                                                                         *)
(* Each load has a record of its own, whichever thread runs it.  A step is *)
(* what one thread does between two accesses to what the threads share:    *)
(* the pool, the type registry, the address space, the code registry.      *)
(***************************************************************************)
EXTENDS Link, CodeRegistry, Mapping

CONSTANTS
  Modules,      \* the translated modules that may be loaded
  MaxLoads,     \* how many loads there are
  MaxThreads,   \* how many of them run at a time
  Pages         \* the pages of the address space the kernel maps code to

ASSUME LoadConstants ==
  /\ {MaxLoads, MaxThreads, Pages} \subseteq Nat \ {0}
  /\ PageSize > 1
  /\ \A m \in Modules : IsModule(m)

VARIABLES
  load,      \* the state of each load
  pool,      \* CraneliftCompiler::contexts
  registry   \* the global code registry

vars == <<load, pool, registry>>

Loads == 1 .. MaxLoads

NoModule == [imports |-> 0, funcs |-> <<>>]
NoText ==
  [text |-> <<>>, calls |-> {}, info |-> <<>>, offsets |-> <<>>,
   traps |-> <<>>, panics |-> FALSE]

(* A context holds the function being compiled and the scratch state of    *)
(* the function builder; both are sets of the keys whose parts they hold.  *)
CompilationContext == [func |-> {}, builder |-> {}]

Unused ==
  [status |-> "unused", module |-> NoModule, jobs |-> <<>>, builtins |-> FALSE,
   ctx |-> <<>>, outputs |-> <<>>, linked |-> NoText, types |-> FALSE,
   map |-> <<>>]

Init ==
  /\ load = [l \in Loads |-> Unused]
  /\ pool = <<>>
  /\ registry = NoCode

Running(l) ==
  load[l].status \notin {"unused", "loaded", "dropped", "failed", "panicked", "oom"}

(* A load that ends without a module: what it owns is dropped, the mapping *)
(* is unmapped and the types are unregistered.                             *)
Ends(l, status) ==
  load' = [load EXCEPT ![l] = [Unused EXCEPT !.status = status]]

-----------------------------------------------------------------------------
(* Compiling.                                                              *)

Begin(l, m) ==
  /\ load[l].status = "unused"
  /\ \A k \in 1 .. l - 1 : load[k].status # "unused"
  /\ Cardinality({k \in Loads : Running(k)}) < MaxThreads
  /\ load' = [load EXCEPT ![l] =
                [Unused EXCEPT !.status = "compiling", !.module = m,
                               !.jobs = FromModule(m)]]
  /\ UNCHANGED <<pool, registry>>

(* function_compiler: the last context of the pool with its function       *)
(* cleared, or a new one; and what the pool is afterwards.                 *)
FunctionCompiler ==
  IF pool = <<>> THEN [ctx |-> CompilationContext, pool |-> pool]
  ELSE [ctx |-> [Last(pool) EXCEPT !.func = {}], pool |-> Front(pool)]

(* A job takes a context and builds its function in it.  compile_function  *)
(* adds to the function it finds there, the trampolines replace it.        *)
StartJob(l) ==
  /\ load[l].status = "compiling"
  /\ load[l].jobs # <<>>
  /\ LET key == Head(load[l].jobs)
         taken == FunctionCompiler
         kept == IF key.kind = WASM_FUNCTION_KIND THEN taken.ctx.func ELSE {}
     IN /\ load' = [load EXCEPT ![l].status = "building",
                      ![l].ctx = <<[taken.ctx EXCEPT !.func = kept \cup {key}]>>]
        /\ pool' = taken.pool
  /\ UNCHANGED registry

(* translate_body returns an error: the `?` drops the context.             *)
GivesUp_Returned(l) ==
  /\ pool' = Append(pool, [load[l].ctx[1] EXCEPT !.builder = {Head(load[l].jobs)}])
  /\ Ends(l, "failed")

GivesUp(l) ==
  /\ UNCHANGED pool
  /\ Ends(l, "failed")

TranslateFails(l) ==
  /\ load[l].status = "building"
  /\ Head(load[l].jobs).kind = WASM_FUNCTION_KIND
  /\ GivesUp(l)
  /\ UNCHANGED registry

(* The function is translated, its builder's scratch state is empty again, *)
(* and FunctionCompiler::finish generates the code: the context is cleared *)
(* and goes back to the pool.                                              *)
Finish(l) ==
  /\ load[l].status = "building"
  /\ load' = [load EXCEPT
       ![l].status = "compiling", ![l].ctx = <<>>, ![l].jobs = Tail(@),
       ![l].outputs = Append(@, [key  |-> Head(load[l].jobs),
                                 from |-> load[l].ctx[1].func])]
  /\ pool' = Append(pool, [load[l].ctx[1] EXCEPT !.func = {}])
  /\ UNCHANGED registry

FinishFails(l) ==
  /\ load[l].status = "building"
  /\ Ends(l, "failed")
  /\ UNCHANGED <<pool, registry>>

Keys(outputs) == [i \in DOMAIN outputs |-> outputs[i].key]

(* compile_required_builtin_trampolines, once the functions are done.      *)
RequireBuiltins(l) ==
  /\ load[l].status = "compiling"
  /\ load[l].jobs = <<>>
  /\ ~load[l].builtins
  /\ load' = [load EXCEPT
       ![l].builtins = TRUE,
       ![l].jobs = BuiltinJobs(load[l].module, Keys(load[l].outputs))]
  /\ UNCHANGED <<pool, registry>>

LinkOutputs(l) ==
  /\ load[l].status = "compiling"
  /\ load[l].jobs = <<>>
  /\ load[l].builtins
  /\ LET linked == LinkAndFinish(load[l].module, Keys(load[l].outputs))
     IN IF linked.panics THEN Ends(l, "panicked")
        ELSE load' = [load EXCEPT ![l].status = "linked", ![l].linked = linked,
                                  ![l].outputs = <<>>]
  /\ UNCHANGED <<pool, registry>>

-----------------------------------------------------------------------------
(* Code memory.                                                            *)

RegisterTypes(l) ==
  /\ load[l].status = "linked"
  /\ load' = [load EXCEPT ![l].status = "typed", ![l].types = TRUE]
  /\ UNCHANGED <<pool, registry>>

TextLen(l) == Len(load[l].linked.text)

(* The kernel places a new mapping of so many bytes on free pages.         *)
Mapped(l) ==
  IF load[l].map = <<>> THEN {}
  ELSE load[l].map[1].base .. load[l].map[1].base + load[l].map[1].len - 1

Placements(len) ==
  {b \in {p * PageSize : p \in 1 .. Pages} :
     /\ b + len <= (Pages + 1) * PageSize
     /\ \A k \in Loads : (b .. b + len - 1) \cap Mapped(k) = {}}

(* MmapVec::from_slice: reserve whole pages, make them accessible, copy.   *)
(* try_grow wants the mapping to be longer than the text, and panics when  *)
(* the text fills its pages.                                               *)
FromSlice(l) ==
  /\ load[l].status = "typed"
  /\ LET len == RoundUpToPages(TextLen(l))
         fits == HasRoom(WithReserved(len), TextLen(l))
     IN \/ /\ len = 0
           /\ load' = [load EXCEPT ![l].status = "mapped"]
        \/ /\ len > 0
           /\ fits
           /\ \E base \in Placements(len) :
                load' = [load EXCEPT ![l].status = "mapped",
                           ![l].map = <<[base |-> base, len |-> len, prot |-> "rw"]>>]
        \/ /\ len > 0
           /\ ~fits
           /\ Placements(len) # {}
           /\ Ends(l, "oom")
        \/ len > 0 /\ Ends(l, "failed")
  /\ UNCHANGED <<pool, registry>>

(* CodeMemory::publish: the pages of the text become readable, and then    *)
(* executable; either change may be refused.                               *)
Publish_Ignored(l) ==
  \/ load[l].map = <<>> /\ load' = [load EXCEPT ![l].status = "published"]
  \/ \E prot \in {"r", "rx"} :
       /\ load[l].map # <<>>
       /\ load' = [load EXCEPT ![l].status = "published", ![l].map[1].prot = prot]

Publish(l) ==
  \/ load[l].map = <<>> /\ load' = [load EXCEPT ![l].status = "published"]
  \/ /\ load[l].map # <<>>
     /\ load' = [load EXCEPT ![l].status = "published", ![l].map[1].prot = "rx"]
  \/ load[l].map # <<>> /\ Ends(l, "failed")

PublishCode(l) ==
  /\ load[l].status = "mapped"
  /\ Publish(l)
  /\ UNCHANGED <<pool, registry>>

Base(l) == IF load[l].map = <<>> THEN 0 ELSE load[l].map[1].base

(* register_code, after which from_bytes returns the module.               *)
Register(l) ==
  /\ load[l].status = "published"
  /\ IF RegistersAnew(registry, Base(l), TextLen(l))
     THEN load' = [load EXCEPT ![l].status = "loaded", ![l].jobs = <<>>]
     ELSE Ends(l, "panicked")
  /\ registry' = RegisterCode(registry, Base(l), TextLen(l), l)
  /\ UNCHANGED pool

(* The last handle of a loaded module is dropped: its types are            *)
(* unregistered, and its code lives on in the registry.                    *)
DropModule(l) ==
  /\ load[l].status = "loaded"
  /\ load' = [load EXCEPT ![l].status = "dropped", ![l].types = FALSE]
  /\ UNCHANGED <<pool, registry>>

Next ==
  \E l \in Loads :
    \/ \E m \in Modules : Begin(l, m)
    \/ StartJob(l)
    \/ TranslateFails(l)
    \/ Finish(l)
    \/ FinishFails(l)
    \/ RequireBuiltins(l)
    \/ LinkOutputs(l)
    \/ RegisterTypes(l)
    \/ FromSlice(l)
    \/ PublishCode(l)
    \/ Register(l)
    \/ DropModule(l)

Spec == Init /\ [][Next]_vars

-----------------------------------------------------------------------------
(* Properties.                                                             *)

(* The pool: a context in it has neither a part of a function nor scratch  *)
(* state of the builder, a compiled function has no part of another one,   *)
(* whatever failed before, and there are never more contexts than threads  *)
(* that compile at a time (function_compiler and finish of                 *)
(* src/cranelift/compiler.rs).                                             *)
ContextsCleanAndBounded ==
  /\ \A i \in DOMAIN pool : pool[i] = CompilationContext
  /\ \A l \in Loads :
       /\ \A i \in DOMAIN load[l].outputs :
            load[l].outputs[i].from = {load[l].outputs[i].key}
       /\ load[l].ctx # <<>> => load[l].ctx[1].builder = {}
  /\ Len(pool) + Cardinality({l \in Loads : load[l].ctx # <<>>}) <= MaxThreads

(* What lies at an offset of the text of a load.                           *)
ByteAt(l, offset) == load[l].linked.text[offset + 1]

(* Every call in the text goes to the first byte of what it was compiled   *)
(* to call: a defined function by its FuncIndex, or the trampoline of a    *)
(* builtin (link_and_finish of src/compile/mod.rs).                        *)
CallsLand ==
  \A l \in Loads : load[l].linked # NoText =>
    LET m == load[l].module
        text == load[l].linked.text
    IN \A i \in DOMAIN text : text[i] # <<>> =>
         \A r \in ToSet(Relocations(CompiledFunction(m, text[i][1]))) :
           r.at = text[i][2] =>
             \E call \in load[l].linked.calls :
               /\ call.at = i - 1
               /\ call.to \in 0 .. Len(text) - 1
               /\ ByteAt(l, call.to) =
                    IF r.target = "Wasm"
                    THEN <<WasmFunction(DefinedFuncIndex(m, r.index)), 0>>
                    ELSE <<WasmToBuiltinTrampoline(r.index), 0>>

(* The function table has an entry for each defined function, which is the *)
(* whole of that function; exactly the functions that escape have a        *)
(* trampoline there, their own (CompiledFunctionInfo of                    *)
(* src/compile/mod.rs, resolve_function_loc of src/runtime/code_memory.rs).*)
Covers(l, loc, key) ==
  /\ loc.start + loc.length <= TextLen(l)
  /\ loc.length = CompiledFunction(load[l].module, key).len
  /\ \A j \in 0 .. loc.length - 1 : ByteAt(l, loc.start + j) = <<key, j>>

EntriesExact ==
  \A l \in Loads : load[l].linked # NoText =>
    LET m == load[l].module
        info == load[l].linked.info
    IN /\ DOMAIN info = DOMAIN m.funcs
       /\ \A d \in DOMAIN info :
            /\ Covers(l, info[d].loc, WasmFunction(d - 1))
            /\ m.funcs[d].escapes <=> info[d].tramp # <<>>
            /\ info[d].tramp # <<>> =>
                 Covers(l, info[d].tramp[1], ArrayToWasmTrampoline(d - 1))

(* The traps the compiler recorded for the instruction at an offset of the *)
(* text.                                                                   *)
TrapsRecorded(l, offset) ==
  LET byte == ByteAt(l, offset)
      traps == CompiledFunction(load[l].module, byte[1]).traps
  IN IF byte = <<>> THEN {}
     ELSE {traps[i].code : i \in {j \in DOMAIN traps : traps[j].at = byte[2]}}

LoadedText(l) ==
  IF load[l].status \in {"loaded", "dropped"}
  THEN Base(l) .. Base(l) + TextLen(l) - 1 ELSE {}

(* At every address, whatever is loaded next to what: the signal handler   *)
(* finds code exactly where loaded code lies, and a trap exactly where the *)
(* compiler recorded one, which is that one; no assertion on the way to    *)
(* the tables fails (lookup_code, lookup_trap_code, push_traps).           *)
FaultsAttributed ==
  /\ \A l \in Loads :
       /\ load[l].status # "panicked"
       /\ \A pc \in LoadedText(l) :
            LET offset == pc - Base(l)
                found == LookupTrapCode(load[l].linked.offsets,
                                        load[l].linked.traps, offset)
            IN /\ LookupCode(registry, pc) = <<[code |-> l, offset |-> offset]>>
               /\ {TrapCode(trap) : trap \in ToSet(found)} = TrapsRecorded(l, offset)
  /\ \A pc \in (0 .. (Pages + 1) * PageSize) \ UNION {LoadedText(l) : l \in Loads} :
       LookupCode(registry, pc) = <<>>

(* Whatever fails on the way, and wherever: a load that failed owns        *)
(* nothing and is not registered, registered code is mapped, executable    *)
(* and not writable, and types are registered for loads that are under way *)
(* and for modules, never for what failed or was dropped                   *)
(* (Module::from_bytes of src/module.rs).                                  *)
FailedLoadsLeaveNothing ==
  \A l \in Loads :
    /\ load[l].status \in {"failed", "panicked", "oom"} =>
         load[l] = [Unused EXCEPT !.status = load[l].status]
    /\ load[l].status = "loaded" => load[l].types
    /\ load[l].status = "dropped" => ~load[l].types
    /\ (\E e \in DOMAIN registry : registry[e].code = l) <=>
         /\ load[l].status \in {"loaded", "dropped"}
         /\ TextLen(l) > 0
    /\ load[l].status \in {"loaded", "dropped"} /\ TextLen(l) > 0 =>
         load[l].map # <<>> /\ load[l].map[1].prot = "rx"
=============================================================================
