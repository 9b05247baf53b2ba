-------------------------- MODULE MCFuncTranslator --------------------------
(***************************************************************************)
(* Instances of FuncTranslator: blocks that pass nothing, pass a value on, *)
(* make a vector and turn a vector into a number.                          *)
(***************************************************************************)
EXTENDS FuncTranslator

Type(params, results) == [params |-> params, results |-> results]

\* Numbers only: what matters is how blocks nest.
NumTypes == {"num"}
NumBlockTypes ==
    {Type(<<"num">>, <<"num">>), Type(<< >>, <<"num">>)}
NumFuncTypes == {}
NumResults == <<"num">>
NumLocals == << >>
NumGlobals == {}

\* Vectors.
VecBlockTypes == {Type(<<"v128">>, <<"v128">>), Type(<<"v128">>, <<"num">>)}
VecFuncTypes == {Type(<<"num">>, <<"v128">>)}
VecResults == <<"v128">>
VecLocals == <<"num", "v128">>
VecGlobals == {"v128"}
=============================================================================
