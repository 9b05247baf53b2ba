# A TLA+ model of k23VM

k23VM is a WebAssembly virtual machine: it translates and compiles a module,
links it with others, gives every instance its memories, tables and context
block, and runs compiled code under a signal handler that turns faults into
traps. This directory holds TLA+ modules translated from the code under
`src/src/`, the TLC configurations that check them on small instances, and
proofs that TLAPS checks for every value of the constants.

## 1. The system

| Part | Source | State | Operations that change it |
|---|---|---|---|
| Engine | `engine.rs` | reference-counted pair of compiler and type registry, shared by threads | create, clone |
| Type registry | `type_registry.rs` | hash-consing map, reverse map, slab of types, drop stack, one registration count per entry | register a module's types, `get_type`, clone and drop of a handle, drop of a module, removal |
| Module types | `translate/module_types.rs`, `translate/types.rs` | interned types and recursion groups of one module | intern a group, push a type |
| Module translator | `translate/module_translator.rs` | the module being described, section by section | one handler per section |
| Function translator | `cranelift/code_translator.rs`, `cranelift/state.rs`, `cranelift/func_translator.rs` | value stack, control stack, reachability | one per operator |
| Code generation of memory accesses | `cranelift/memory.rs` | none | bounds check and address computation |
| Compiler and linker of code | `compile/`, `cranelift/compiler.rs` | pool of contexts, compile inputs and outputs, text section, trap and location tables | compile, link, relocate |
| Code memory | `runtime/code_memory.rs`, `placeholder/code_registry.rs` | mapping, published flag, global registry of code | publish, register, look up |
| Mappings | `runtime/mmap_vec.rs`, `placeholder/mmap.rs` | reserved and accessible range, protection | grow, protect, unmap |
| Memories and tables | `runtime/memory.rs`, `runtime/table.rs` | mapping or vector, maximum | create |
| Instances | `runtime/instance.rs`, `runtime/instance_allocator.rs`, `placeholder/instance_allocator.rs`, `runtime/owned_vmcontext.rs` | context block, memories, tables, exports | allocate, initialize, deallocate |
| Context layout | `runtime/vmoffsets.rs`, `runtime/vmcontext.rs` | none | offset computation |
| Constant expressions | `translate/const_expr.rs`, `runtime/const_eval.rs` | evaluation stack | push, pop, evaluate |
| Calls into and out of wasm | `func.rs`, `placeholder/trap_handling/`, `placeholder/signals.rs` | chain of call states, last exit and entry registers, stack limit, buffer of values | enter, trap, unwind, return, backtrace |
| Linker and store | `linker.rs`, `store.rs`, `instance.rs` | definitions by name, store arenas | define, alias, instantiate, insert |

**How they interact.** `Module::from_bytes` translates, compiles, links and
publishes code, then registers the module's types with the engine's registry;
the code refers to types by the engine-wide index, so that the signature check
of `call_indirect` is an index comparison across modules. `Linker::instantiate`
resolves imports by name, `Instance::new_unchecked` allocates and initializes
the context block that compiled code addresses by the offsets of `VMOffsets`.
A call goes through a trampoline that records the entry registers; a fault in
compiled code reaches the signal handler, which finds the code object and its
trap table and resumes at `longjmp`.

**What is hard.** Registration counts change without the lock that guards the
maps they decide about. Types of one module keep those of others alive.
Initialization fails in the middle. A call must restore the registers and limits
it found on every way out, returns and traps alike. The translator must tell
which code after a branch is reachable again. Tables used by the signal handler are
built by the compiler and searched by position.

## 2. The modules

| Modules | Model | Section |
|---|---|---|
| `TypeRegistry`, proofs in `TypeRegistryProofs` | type registry | 3 |
| `FuncTranslator` with `FunctionBuilder`, `FuncValidator`, `StraightLine` | function translator | 4 |
| `Calls`, proofs in `CallsProofs`, implements `HostCall` | calls into wasm, traps, backtraces | 5 |
| `ModuleTranslator` with `ModuleTypes` | module translator, interning of a module's types | 6 |
| `ModuleLoad` with `Link`, `CodeRegistry`, `Mapping`; proofs in `LinkLayout`, `LinkProofs` (with `LinkContract`, `Folding`), `LoadSteps`, `LoadProofs` | compilation, linking of code, code memory and its registry | 7 |
| `Linker` with `Instances`, `ConstEval`, `VMOffsets`, `Mapping`, implements `Linking`; proofs in `VMOffsetsProofs` | linker, store, instances, memories, tables, contexts | 8 |

A module `MC...` gives the constants of a model their values, and a `.cfg` file names
what is checked. The components meet in what one guarantees and another assumes:

* `ModuleTranslator` guarantees `RecGroupsPartition`, which is what `TypeRegistry`
  assumes of modules: groups are distinct and refer only to groups before them;
* `ModuleTranslator` numbers the functions that escape (`EscapesNumbered`), and
  `Instances` lays the records of these functions out by that number;
* `ModuleLoad` guarantees that a fault in compiled code is found with its trap
  (`FaultsAttributed`), and `Calls` takes from there (`Handled`);
* `FuncTranslator` shows that a context is clean after a function and must be dropped
  after an error, and `ModuleLoad` that the pool of contexts respects that
  (`ContextsCleanAndBounded`).

Options are sequences of at most one element. Every mutant of a definition, that is
its form with a plausible mistake, stands next to it under its name and a suffix.

## 3. Type registry

`TypeRegistry.tla` models `type_registry.rs`.

*State.* `consMap`, `revMap`, `slab` with `slabLen` and `dropStack` are the fields
of `TypeRegistryInner`; the drop stack is a set because the order in which its
entries are removed is not observable. `shape`, `refs`, `types`, `selfs` and `regs`
are the fields of an entry: `shape` and `refs` together are its hash-consing key.
`cst`, `cmod` and `rec` describe the `RuntimeTypeCollection` of a loaded module,
`hst` and `hent` a `RegisteredType` handle, and `writer` the section that holds the
write lock. `failed` records the first `unwrap`, assertion or deallocation that
fails; nothing happens after it.

*Data.* A recursion group is a model value with a number of types (`Size`), the
types of other groups it refers to, in order (`CrossRefs`), and the positions of
the group that later types of it refer to (`SelfRefs`; other references inside a group
end in a `todo!()` of the conversion). A module is a sequence of
distinct groups that refer only to groups before them, which validation and
`ModuleTypes` guarantee.

*Actions.* A locked section is several actions, because counts change outside
the lock: `RegisterModuleTypes` takes the lock, `RegisterKnown` and `RegisterNew`
are the two outcomes of `register_rec_group` for one group, `RegisterDone` releases
it; `DropCollection`, `DropGroup` and `DropCollectionDone` are
`unregister_type_collection`; `Unregister` and `Resurrected` are the two outcomes of
one iteration of `unregister_entry`. `GetType` is `get_type` under the read lock.
`Clone`, and `DropHandle` up to its decrement, need no lock; `DropHandleLocked` is the
rest of the drop. The slab (crate `wasmtime_slab`) reuses any vacant id before it
grows.

*Assumption.* With `OverlappingDrops = FALSE` no module is dropped while a handle of
one of its types has reached zero and still waits for the lock. An embedder that
drops on one thread satisfies it. The run `registry_overlap` shows what happens
without it.

| Run | Checks | Result |
|---|---|---|
| `registry` | `TypeOK`, `NeverFails`, `CountsExact`, `HeldResolves`, `Canonical`, `EmptyWhenUnused` | hold |
| `registry_live` | `AbandonedIsRemoved` | holds |
| `registry_overlap` | `NeverFails` with overlapping drops | violated: an entry is removed twice |
| `registry_selfrefs` | `RuntimeSelfRefs` | violated: references inside a group are mapped to other types |

*Bounds.* Three groups, the second referring to the first twice and the third to
the second, make a chain of removals of length three and edges counted more than once.
Two collections and two handles are enough for a handle to wait for the lock
while one module registers and another is loaded. The liveness run has two groups.

*Fairness.* The holder of the lock runs to completion (the sections do not block),
and a thread that waits for the lock gets it if it stays free. Nobody is obliged
to load or drop a module.

*Findings.* `unregister_entry` checks again that the count is zero, but a count that
is zero again after a full life of the entry passes the check; the assertion on
the removed entry fails, or, in a release build, an index that may belong to a
newer type is freed. `register_rec_group` computes the runtime index of a
reference inside the group as number of types + module index + start of the
group in the module, where the position in the group is meant. The instance has a group
of two types, the second referring to the first, behind another group.

*Proofs.* `TypeRegistryProofs.tla` proves, for any groups, modules, collections,
handles and entries and under the assumption above, that the inductive invariant
`IInv` holds, with one lemma per action, and from it `TypeOK`, `NeverFails`,
`CountsExact`, `HeldResolves`, `Canonical` and `EmptyWhenUnused`. `CountsExact` alone
is not inductive. That a removal frees nothing in use needs the slab, the reverse map
and the index lists to agree (`EntryInv`); that equal groups have equal entries
needs the keys of a module's entries to be those of its own references
(`CanonInv`, `KeyInv`), which a removal would break if counts were not exact.
`PendingInv` carries the argument about the unlocked drop: an entry at zero is
on exactly one way out, and one that was registered again in the meantime
belongs to a module that is not being dropped, so its next decrement cannot
reach zero before the waiting drop has looked. `EmptyWhenUnused` needs in addition
that entries never keep each other registered in a circle: among any registered
entries there is one to which none of them refers (`RootInv`, which a new entry keeps
because it refers to older ones only). Liveness is only model-checked.

## 4. Function translator

`FuncTranslator.tla` models `cranelift/func_translator.rs`, `cranelift/state.rs` and
the control part of `cranelift/code_translator.rs`. It is composed of three modules of
operators: `FunctionBuilder.tla`, the blocks of Cranelift's builder with the
assertions it makes, and `FuncValidator.tla`, the validation algorithm of wasmparser,
are external and modelled as the code uses them; `StraightLine.tla` gives, for each
group of arms of `translate_operator` without control flow, the operands popped and
the result pushed.

*State.* `tr` is the translator with its builder: `stack`, `control`, `reachable` and
`refs` are the fields of `FuncTranslationState` (the five caches are one, which is
empty, of this function or of an earlier one), `blocks` and `cur` the builder's blocks
and its position. `val` is the validator of the function, `phase` tells whether a body is
being read. `tr.faults` collects what went wrong, and nothing happens after it.

*Data.* A value is its type: `NUM` for scalars and references, `I8X16`, the type
vectors are declared with, and `LANES` for the other vector types. A WebAssembly type
is `num` or `v128`. The blocks of the builder are forgotten when nothing refers to them
any more, with the assertions `finalize` will make of them, so that bodies may be of
any length; the rest is renumbered.

*Actions.* One per operator or group of alike operators. Each is a turn of the loop in
`translate_function_body`: the operator is translated (`Translate...`) or, in
unreachable code, followed for its structure (`Skip...`), and then validated. `Begin` is
`translate_body` up to the loop and `Finish` what follows it. `GiveUp` is an error in
the middle; the context is dropped then (`Discarded`), as `compile_function` returns
early. `StraightTraps` and `CallIndirectTraps` are the cases in which the translator
finds out that an operator always traps.

| Run | Checks | Result |
|---|---|---|
| `translator` | `NeverFails`, `EdgesLand`, `ReachabilityAgrees`, `FallsThrough`, `StackAgrees` | hold |
| `translator_vectors` | `TypeOK`, `NeverFails`, `WellTyped` | hold |
| `translator_unchecked` | `NeverFails` with bodies that need not be valid | violated: the translator fails before the validator sees the operator |

*Bounds.* `translator` has scalars only, the function and two blocks within it, and two
operands: a block type that passes a value on (its if needs no else, and an else comes
late) and one that makes a value (its if must have an else). Every pair of nested
constructs occurs, left by every kind of branch. It has no memory, call or variable.
`translator_vectors` has all of them, with one block in the function: types of values
are converted where a block, variable or call is met, and one of each is enough.
Bodies, and the number of functions a translator is used for, are not bounded.

*Finding.* The loop translates an operator before it validates it. The translator
relies on validation, and a comment in it says so. An operator without its operands
fails in the assertion of `peekn_mut` or in `pop1` where `Module::from_bytes` promises
an error.

*Not proved.* The properties are checked on the instances only; the operators of the
translator fold over stacks of any height. There is no fairness, as a body may end at
any operator.

*Left out.* Operators whose environment function is `todo!()` (tables, bulk memory,
`memory.grow` and `memory.size`, atomics, `ref.func`, `call_ref`, tail calls, `V128Store`), and the contents of
the instructions that are emitted.

## 5. Calls and traps

`Calls.tla` models `func.rs`, `placeholder/trap_handling/` and `placeholder/signals.rs`:
host threads, each with a store of its own, call compiled code, which returns or
faults.

*State.* Per thread: where in `call_unchecked` it is, the call, the lengths of the
store's buffer of values and of the one taken from it, the stack limit and the three
registers in the context of each instance, what the `WasmExecutionGuard` and the
`CallThreadState` saved, the thread-local head of the chain (`None`, null or the
state), and the frames on the stack. Shared by the threads: the `Once` that installs
the handlers, and whether the process was killed.

*Actions.* `CallUnchecked` up to the handlers; `BeginInstall`, `EndInstall`,
`FindInstalled` are the `Once`; `CatchTraps` makes the call state and enters the
trampoline. Compiled code calls (`PushFrame`), returns (`Return`), reaches a trap
(`TrapSite`) or a stack limit or guard page (`Overflow`); the host may fault itself
(`HostFault`). `TrapHandler` is the whole signal handler, backtrace included, up to
the `longjmp`. `LeaveReturned` and `LeaveUnwound` are the two ways out with all the
destructors on them.

`HostCall.tla` is what the host may rely on: a call raises at most one trap and ends
with exactly what happened in it.

| Run | Checks | Result |
|---|---|---|
| `calls` | `TypeOK`, `ContextsRestored`, `AssertionsHold`, `BacktraceExact`, `HandlersBeforeWasm`, `EnteredStackBounded`, `CallsProgress`, `ImplementsHostCall` | hold |

*Bounds.* Two threads with two instances each; functions call each other across and
within instances, so that the frame which traps may or may not be of the entered
instance. The stack is one frame longer than what the limit leaves, so that both the
limit and the guard page are reached. There are no host functions and the list of builtins
is empty, so that a thread has at most one call.

*Fairness.* Weak fairness of host code only: the operating system schedules it and
no step of it blocks but the `Once`, which another thread is then about to finish.
Nothing makes compiled code return.

*Proofs.* `CallsProofs.tla`, for any threads, instances, functions and depths:
`TypeOK`, `ContextsRestored`, `HandlersBeforeWasm`, `AssertionsHold`, `BacktraceExact`,
`EnteredStackBounded`, and that `Calls` implements `HostCall`. `ContextsRestored` alone is not inductive: that the way out
puts the right values back needs what the call state and the guard hold, and that it
was saved from the same context. `CallInv` says so for each phase of a call.
`EnteredStackBounded` needs in addition that the limit in the entered context is that
of this call and that every frame was compared with it. `FramesInv` has that, the
lengths of the store's buffer in each phase, and what lies on the stack: the frame of
the trampoline, then one frame below the other. From it follow `TypeOK`,
`AssertionsHold` and `BacktraceExact`: the walk from the faulting frame pointer, by the
saved frame pointers up to the recorded entry, is shown by induction over its length to
list the frames of the stack, for stacks of any depth. The liveness property stays with
TLC.

## 6. Module translator

`ModuleTranslator.tla` models `translate/module_translator.rs`, one action per payload
of a binary, and `ModuleTypes.tla` the interning of recursion groups
(`translate/module_types.rs`, `translate/type_convert.rs`, `translate/types.rs`).

*State.* `module` is the `ModuleTranslation`, `builder` the `ModuleTypesBuilder`,
`validator` what wasmparser's validator (external) keeps: the order of sections and the
types, which outlive a module. `source` is what the binary declares, for the
properties. A payload is validated first and handled if it is accepted; a handler may
fail, or panic where the code has a `todo!()` or an `unreachable!()`.

| Run | Checks | Result |
|---|---|---|
| `module_translator` | `AssertionsHold`, `TypeOK`, `RecGroupsPartition`, `TypesInternedFaithfully`, `EscapesNumbered`, `IndexSpacesAligned`, `AcceptedLeavesReady` | hold |

*Bounds.* Two modules with one validator, so that the second one meets the types of
the first. Every section is there or not, with contents from small sets: types equal
and different, alone and in groups, with references across and within groups and
supertypes; functions that escape by table, global, export and element segment, once
or several times; one custom section of each kind, anywhere.

*Not proved.* Interning folds over declared types that contain one another, and the
properties relate the folds of all sections; they are checked on the instances only.

## 7. From functions to registered code

`ModuleLoad.tla` models `Module::from_bytes` after translation: threads that share an
engine compile with contexts from a common pool (`cranelift/compiler.rs`), link
(`Link.tla` for `compile/`), map and publish the text (`Mapping.tla` for
`runtime/mmap_vec.rs` and `placeholder/mmap.rs`, and `runtime/code_memory.rs`) and
register it (`CodeRegistry.tla` for `placeholder/code_registry.rs`).

*State.* A record per load with its jobs, outputs, text and mapping; the pool; the
registry. A step is what a thread does between two accesses to what is shared. The
text is a sequence that tells for each byte which byte of which function it is, so
that the properties say what really lies at an address. Each step that can fail in the
code can fail here, and the kernel may refuse to map and to protect.

| Run | Checks | Result |
|---|---|---|
| `load` | `ContextsCleanAndBounded`, `CallsLand`, `EntriesExact`, `FaultsAttributed`, `FailedLoadsLeaveNothing` | hold |
| `load_release` | `CallsLand` without debug assertions | violated: no relocation is resolved |

*Bounds.* Three loads, two at a time, of modules with imports, mutual calls, builtins
called several times, trampolines, a text that fills its page and therefore panics, one
that falls short of it by a byte, and none. A page has 16 bytes, so that texts lie next to each other and a fault can be put at
every address of the space.

*Finding.* `link_and_finish` resolves relocations inside `debug_assert!`, which a
release build does not evaluate.

*Proofs.* All five properties are proved, for any modules, numbers of loads, threads
and pages. The assumption on modules is `IsModule` of `Link.tla`: calls by name go to
functions of the module or to builtins, what is called is there, and the code generator
lists the traps of a function in the order of its instructions, at most one each.
`CallsLand` is proved for builds with debug assertions, in which it holds.

The argument has two halves, which meet in `LinkContract.tla`.

* *Linking* (`LinkLayout.tla`, `LinkProofs.tla`). `LinkKeepsContract` says of every
  module: `from_module` and `compile_required_builtin_trampolines` start exactly the
  jobs of the module, and from their outputs, whatever the order in which the threads
  finish them, `link_and_finish` makes a text in which every output lies as a whole and
  apart from the others, a function table whose entries are the functions
  (`FunctionsAreFound`), a trap table in which `lookup_trap_code` finds exactly the traps
  of the outputs (`TrapsAreFound`), and calls that end at the first byte of what they
  were compiled to call (`CallsAreRelocated`); and it does not panic. The text, the
  tables and the relocations are folds over the outputs. `Folding.tla` shows once that
  a fold is the end of a run of accumulators, and is instantiated with the step of each
  of them; `SetInduction` then carries an invariant along the run.
* *Loading* (`LoadSteps.tla`, `LoadProofs.tla`). The inductive invariant `Inv` says what a
  load has at each stage, that contexts in use and in the pool together are no more than
  threads, that mappings of loads do not overlap, and that the registry has exactly the
  regions of the loaded modules. It needs no more of linking than the contract. The
  lookup is proved for registries of any size: while regions do not overlap (`Separate`),
  the first key that is not below an address is the one of its region if there is one
  (`LookupFinds`, `LookupMisses`), and registering a text on addresses that no region has
  keeps them apart (`RegisterSeparates`). That texts lie on different pages is what the
  kernel guarantees.

## 8. Linker, store and instances

`Linker.tla` models `linker.rs`, `store.rs`, `instance.rs` and the allocation of
instances; `Instances.tla` what an instance consists of (`runtime/instance.rs`,
`runtime/table.rs`, `runtime/memory.rs`, `runtime/owned_vmcontext.rs`); `VMOffsets.tla`
the layout of its context (`runtime/vmoffsets.rs`, `runtime/vmcontext.rs`);
`ConstEval.tla` the evaluator of constant expressions (`runtime/const_eval.rs`).

*State.* `linker` has the interned strings and the definitions, `store` the instances,
the handles of what they exported and the map from contexts to instances, `space` the
mappings of the process, and for the mapping of a context what was written at which
offset. `evaluator` is the stack that all evaluations share, `work` the instantiation
under way. A pointer is a mapping and an offset, and an address that was given back
may be used again.

*Actions.* `DefineInstance`, `AliasModule`, `GetExport` and `Instantiate` are calls of
the embedder. The rest of an instantiation is one action for each table, memory and
context, because the kernel may refuse each; with the context comes the
initialization, which evaluates expressions and may panic. The entries of a hash map
are aliased in any order.

`Linking.tla` is what is promised, without handles, pointers and contexts: a name
stands for a thing that an instance defines, and an import is what its name stood for
when the instance was made. The refinement mapping follows the pointers: `ThingAt` finds
the instance and the definition that a pointer leads to, so that
`ImplementsLinking` says that compiled code reaches what was imported,
through any number of re-exports.

| Run | Checks | Result |
|---|---|---|
| `linker` | `StorageBacked`, `ContextsIntact`, `NothingLeaks`, `HandlesStable`, `ImplementsLinking` | hold |

*Bounds.* Three instances of seven modules: a chain of three that import, re-export
and define things of every kind, and four that panic. Two names, so that definitions,
aliases and imports collide. Integers have four and six bits, so that constant
expressions wrap around; `MEMORY_MAX` is 2^20 and the guard region half of it, as it is
in the code, and pages have 4096 bytes.

*Proofs.* `VMOffsetsProofs.tla` proves for the counts of any module that elements lie
inside the context and behind its header (`ElementsInside`), that two elements never
overlap (`ElementsDisjoint`), and that the offsets of two different fields never do
(`FieldsDisjoint`). Offsets are natural numbers there; the code computes them in `u32`,
which validation's limits on index spaces keep far from wrapping. The refinement and
the other properties are model-checked: they rest on folds over imports and writes.

## 9. Differences between comments and code that no run shows

* `lib.rs:57` gives the maximum size of WebAssembly stacks. The limit is set in the
  entered context only; in another instance the limit is zero, and recursion there goes
  on to the guard page of the native stack, where the fault is not a trap
  (`EnteredStackBounded` is stated for the entered instance).
* `linker.rs:144` says that imports have been type checked; kinds are compared, types
  are not.
* `mmap_vec.rs:93` relies on `try_grow` for room for a number of elements, which
  `try_grow` takes for a number of bytes, as `table.rs:22` does when it reserves.
  `StorageBacked` is stated for tables whose elements fit one page.
* `mmap_vec.rs:122` refuses to grow to exactly what is reserved.
* `vmcontext.rs:20` says that globals are aligned to 16; their offsets are multiples of 16
  only if the number of imported functions is odd.
* `cranelift/memory.rs:218` adds the offset and size of an access to the bound where the
  comment beneath subtracts them.
* `func.rs:43` asks for enough room for the results; if there is more room than
  results and arguments leave values behind, the indexing panics (the outcome
  `panicked` of `Calls`).
* `code_registry.rs:32` says that code must be unregistered; there is no function for
  it, and the registry keeps the code of every module.
* `compile/mod.rs:22` calls the index in a relocation one of the defined functions; it is
  an index of all functions.
* A panic in the middle of a constant expression leaves the shared evaluation stack as
  it is.
* A failed translation leaves the validator unusable until it is reset
  (`AcceptedLeavesReady` is stated for accepted modules), while `tests/wast.rs` goes on
  with it.
* References within a recursion group that go to the type itself or to a later one
  reach a `todo!()` in the conversion of types.

## 10. Not modelled, and why

* *Memory accesses in compiled code* (`cranelift/memory.rs`): a choice between three
  instruction sequences from constants, without state. What it guarantees is a
  statement about machine code that Cranelift makes.
* *Engine* (`engine.rs`): a pair of compiler and registry, both modelled.
* *Builtins* (`builtins.rs`, `runtime/builtins.rs`): numbers and signatures of runtime
  functions; the list of them is empty so far.
* *Values and errors* (`values.rs`, `errors.rs`): conversions and formatting.
* *Contents* of memories and tables, the instructions emitted for an operator, the
  trampolines' instructions, debug information, logging.
* *Outside the repository*: instruction selection and register allocation (Cranelift),
  parsing and validation (wasmparser), the kernel. They are modelled as the code uses
  them, and marked so.

Liveness is proved nowhere: it is beyond the prover, as are statements about recursive
operators. Inductions are proofs about sets of numbers: a set that holds zero, and with
every number the next, holds all of them, because its complement would have a least
element (`SetInduction` of `LinkLayout.tla`).
