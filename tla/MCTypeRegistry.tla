--------------------------- MODULE MCTypeRegistry ---------------------------
(***************************************************************************)
(* An instance of TypeRegistry: a group that others refer to, a group of   *)
(* two types that refers to it twice and whose second type refers to the   *)
(* first, a third one on top of that, and modules with none, one and all   *)
(* of them.                                                                *)
(***************************************************************************)
EXTENDS TypeRegistry, TLC

CONSTANTS c1, c2, h1, h2, e1, e2, e3

Ref(g, p) == [grp |-> g, pos |-> p]

MCGroup     == {"leaf", "pair", "top"}
MCSize      == [leaf |-> 1, pair |-> 2, top |-> 1]
MCCrossRefs == [leaf |-> <<>>, pair |-> <<Ref("leaf", 1), Ref("leaf", 1)>>,
                top |-> <<Ref("pair", 2)>>]
MCSelfRefs  == [leaf |-> {}, pair |-> {1}, top |-> {}]
MCModule    == {"none", "small", "large"}
MCGroups    == [none |-> <<>>, small |-> <<"leaf">>, large |-> <<"leaf", "pair", "top">>]

\* Without the third group, for the run without symmetry.
MCTwoGroups == [none |-> <<>>, small |-> <<"leaf">>, large |-> <<"leaf", "pair">>]
MCTwoEntry  == {e1, e2}

MCColl      == {c1, c2}
MCHandle    == {h1, h2}
MCEntry     == {e1, e2, e3}

Symmetry == Permutations(MCColl) \cup Permutations(MCHandle) \cup Permutations(MCEntry)
====
