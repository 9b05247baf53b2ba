------------------------- MODULE MCModuleTranslator -------------------------
(***************************************************************************)
(* Small alphabets of sections: types that are equal, that refer to each   *)
(* other across and inside groups and (reaching todo!()) to themselves,    *)
(* imports of every kind, functions that escape in one way or several.     *)
(***************************************************************************)
EXTENDS ModuleTranslator

Type(k, ps, rs, fs, s) == [kind |-> k, params |-> ps, results |-> rs, fields |-> fs, super |-> s]

Func       == Type("func", << <<>> >>, <<>>, <<>>, <<>>)
Taking(i)  == Type("func", << <<>>, <<i>> >>, << <<i>> >>, <<>>, <<>>)
Holding(i) == Type("struct", <<>>, <<>>, << <<i>>, <<>> >>, <<>>)
ArrayOf(i) == Type("array", <<>>, <<>>, << <<i>> >>, <<>>)
Below(i)   == Type("struct", <<>>, <<>>, << <<i - 1>>, <<>>, <<i>> >>, <<i>>)

MCTypeSections ==
  {<< <<Func>> >>,
   << <<Func>>, <<Taking(1)>>, <<Func>>, <<ArrayOf(3)>>, <<Taking(3)>> >>,
   << <<Func, Holding(1), Below(2)>>, <<Func>>, <<Func, Holding(5), Below(6)>> >>,
   << <<Func>>, <<Holding(2)>> >>}

RefFunc(f) == <<[op |-> "RefFunc", arg |-> f]>>
Const      == <<[op |-> "I32Const", arg |-> 0]>>
NewStruct  == <<[op |-> "StructNew", arg |-> 1]>>

Imp(k, ty) == [kind |-> k, name |-> k, ty |-> ty]

MCImportSections ==
  {<<Imp("func", 1), Imp("table", [ty |-> <<>>, min |-> 1])>>,
   <<Imp("global", [ty |-> <<1>>, mutable |-> FALSE]), Imp("func", 1),
     Imp("memory", [min |-> 1, page |-> <<>>]), Imp("func", 1)>>}

MCFunctionSections == {<<1, 1>>}

MCTableSections ==
  {<<[ty |-> <<1>>, min |-> 1, init |-> <<RefFunc(1)>>], [ty |-> <<>>, min |-> 1, init |-> <<>>]>>}

MCMemorySections == {<<[min |-> 1, page |-> <<0>>]>>}

MCGlobalSections ==
  {<<[ty |-> <<>>, mutable |-> TRUE, init |-> RefFunc(2)]>>,
   <<[ty |-> <<>>, mutable |-> TRUE, init |-> NewStruct]>>}

Exp(n, k, i) == [name |-> n, kind |-> k, index |-> i]

MCExportSections ==
  {<<Exp("a", "func", 2), Exp("b", "func", 2), Exp("c", "func", 1)>>, <<Exp("m", "memory", 1)>>}

Elem(k, t, fs, es) == [kind |-> k, table |-> t, offset |-> Const, funcs |-> fs, exprs |-> es]

MCElementSections ==
  {<<Elem("passive", 1, <<>>, <<RefFunc(1)>>), Elem("active", 1, <<1>>, <<>>),
     Elem("declared", 1, <<1>>, <<>>), Elem("active", 1, <<>>, <<RefFunc(2), RefFunc(1)>>)>>}

MCDataSections ==
  {<<[active |-> FALSE, memory |-> 1, offset |-> Const, bytes |-> "x"],
     [active |-> TRUE, memory |-> 1, offset |-> Const, bytes |-> "y"]>>}

MCCustomSections ==
  {[name |-> "name", subs |-> <<[kind |-> "funcs", names |-> << <<2, "f">>, <<9, "g">> >>],
                                [kind |-> "fields", names |-> << <<1, << <<1, "x">> >> >> >>]>>],
   [name |-> "name", subs |-> <<[kind |-> "malformed", names |-> <<>>]>>],
   [name |-> "producers", fields |-> <<[field |-> "sdk"], [field |-> "other"]>>],
   [name |-> "producers", fields |-> <<[field |-> "sdk"]>>],
   [name |-> "target_features", features |-> <<[prefix |-> "+", feature |-> "simd128"]>>],
   [name |-> "target_features", features |-> <<[prefix |-> "-", feature |-> "simd128"]>>],
   [name |-> ".debug_info"], [name |-> ".debug_loc"]}
=============================================================================
