---------------------------- MODULE MCModuleLoad ----------------------------
(***************************************************************************)
(* ModuleLoad with four modules: one whose functions call each other and a *)
(* builtin behind an import, one that calls two builtins, one of them      *)
(* twice, and fills its page exactly once the trampolines are added, so    *)
(* that it ends in the panic of try_grow, one that falls short of a page   *)
(* by a byte, and one without code.                                        *)
(***************************************************************************)
EXTENDS ModuleLoad

Wasm(i) == [namespace |-> NS_WASM_FUNC, index |-> i]
Builtin(i) == [namespace |-> NS_BUILTIN, index |-> i]

Func(escapes, len, names, relocs, traps) ==
  [escapes |-> escapes,
   body |-> [len |-> len, align |-> 2, names |-> names, relocs |-> relocs,
             traps |-> traps]]

Trap(at, trap) == [at |-> at, code |-> TrapCode(trap)]
Reloc(at, name) == [at |-> at, name |-> name]

(* Function 0 is imported; 1 is not called from outside and calls 2; 2     *)
(* escapes, calls itself and builtin 5: 2 + 4 + 4 + 4 bytes.               *)
Mutual ==
  [imports |-> 1,
   funcs |-> << Func(FALSE, 2, <<Wasm(2)>>, <<Reloc(1, 1)>>, <<Trap(0, "StackOverflow")>>),
                Func(TRUE, 3, <<Builtin(5), Wasm(2)>>, <<Reloc(0, 2), Reloc(1, 1)>>,
                     <<Trap(2, "BadSignature")>>) >>]

(* One function with three calls to two builtins: 4 + 4 + 4 + 4 bytes.     *)
Filling ==
  [imports |-> 0,
   funcs |-> << Func(TRUE, 4, <<Builtin(3), Builtin(2)>>,
                     <<Reloc(0, 1), Reloc(1, 2), Reloc(2, 1)>>, <<>>) >>]

(* A function that escapes and calls the next one: 4 + 4 + 7 bytes.        *)
Short ==
  [imports |-> 2,
   funcs |-> << Func(TRUE, 3, <<Wasm(3)>>, <<Reloc(0, 1)>>, <<Trap(2, "MemoryOutOfBounds")>>),
                Func(FALSE, 7, <<>>, <<>>, <<Trap(0, "NullI31Ref"), Trap(6, "IntegerOverflow")>>) >>]

NoCodeAtAll == [imports |-> 1, funcs |-> <<>>]

MCModules == {Mutual, Filling, Short, NoCodeAtAll}
=============================================================================
