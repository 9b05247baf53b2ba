------------------------------ MODULE MCLinker ------------------------------
(***************************************************************************)
(* Linker with three modules that can be instantiated and four that panic. *)
(*                                                                         *)
(* Base defines one thing of each kind, with a function that does not      *)
(* escape before the one that does, and exports them.  Middle imports      *)
(* them from "a", defines more of each, and exports some of its own and    *)
(* some of its imports under the same names.  Top imports from "b".        *)
(***************************************************************************)
EXTENDS Linker

Const(v) == [op |-> "Const", bits |-> 32, value |-> v]
Binop(op, bits) == [op |-> op, bits |-> bits, value |-> 0]
Func(ref, type) == [ref |-> ref, type |-> type]
Table(min, max) == [min |-> min, max |-> max]
(* Every memory gets DEFAULT_OFFSET_GUARD_SIZE, half of MEMORY_MAX.         *)
Memory(min, max) ==
  [min |-> min, max |-> max, guard |-> MemoryMax \div 2, shared |-> FALSE]
Import(module, name, kind) == [module |-> module, name |-> name, kind |-> kind]
Export(name, kind, index) == [name |-> name, kind |-> kind, index |-> index]
Segment(index, items, offset, len) ==
  [index |-> index, items |-> items, offset |-> offset, len |-> len]

(* 7 * 3 - 1 in four bits is 4, which is where the data goes.              *)
Four == <<Const(7), Const(3), Binop("Mul", 32), Const(1), Binop("Sub", 32)>>

Base ==
  [imports |-> <<>>,
   funcs |-> <<Func(<<>>, "t"), Func(<<0>>, "u")>>,
   tables |-> <<Table(512, <<>>)>>,
   memories |-> <<Memory(65536, <<131072>>)>>,
   globals |-> <<Four>>,
   tableInits |-> <<>>,
   elems |-> <<Segment(0, <<>>, <<Const(2)>>, 0)>>,
   data |-> <<Segment(0, <<>>, Four, 8)>>,
   exports |-> <<Export("f", "func", 1), Export("t", "table", 0),
                 Export("m", "memory", 0), Export("g", "global", 0)>>]

Middle ==
  [imports |-> <<Import("a", "g", "global"), Import("a", "f", "func"),
                 Import("a", "m", "memory"), Import("a", "t", "table")>>,
   funcs |-> <<Func(<<1>>, "u"), Func(<<0>>, "t")>>,
   tables |-> <<Table(0, <<>>), Table(0, <<0>>)>>,
   memories |-> <<Memory(65536, <<>>), Memory(8, <<>>)>>,
   globals |-> <<<<Const(1)>>, <<Const(7), Const(7), Binop("Add", 64)>>>>,
   tableInits |-> <<>>, elems |-> <<>>, data |-> <<>>,
   exports |-> <<Export("f", "func", 0), Export("t", "table", 0), Export("g", "global", 2)>>]

Top ==
  [imports |-> <<Import("b", "f", "func"), Import("b", "g", "global"),
                 Import("b", "t", "table")>>,
   funcs |-> <<Func(<<0>>, "v")>>,
   tables |-> <<Table(0, <<>>)>>, memories |-> <<>>, globals |-> <<>>,
   tableInits |-> <<>>, elems |-> <<>>, data |-> <<>>, exports |-> <<>>]

(* Modules that panic: a data segment out of bounds, after a global that   *)
(* is evaluated; a table that fills what is reserved for it; a memory      *)
(* behind a table, whose maximum is no number of pages; an import of       *)
(* another kind than what has its name.                                    *)
Empty ==
  [Top EXCEPT !.imports = <<>>, !.funcs = <<>>, !.tables = <<>>]
OutOfBounds ==
  [Empty EXCEPT !.globals = <<Four>>, !.memories = <<Memory(8, <<>>)>>,
     !.data = <<Segment(0, <<>>, <<Const(0 - 1)>>, 1)>>]
Crowded == [Empty EXCEPT !.tables = <<Table(4096, <<>>)>>]
Unaligned == [Empty EXCEPT !.tables = <<Table(1, <<>>)>>, !.memories = <<Memory(0, <<1>>)>>]
Confused == [Empty EXCEPT !.imports = <<Import("b", "g", "table")>>,
               !.tables = <<Table(0, <<>>)>>]

MCModules ==
  [Base |-> Base, Middle |-> Middle, Top |-> Top, OutOfBounds |-> OutOfBounds,
   Crowded |-> Crowded, Unaligned |-> Unaligned, Confused |-> Confused]
=============================================================================
