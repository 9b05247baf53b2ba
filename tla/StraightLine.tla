---------------------------- MODULE StraightLine ----------------------------
(***************************************************************************)
(* What the operators without control flow do to the value stack of the    *)
(* translator: the arms of translate_operator that pop their operands,     *)
(* add instructions and push the result.                                   *)
(*                                                                         *)
(* A WebAssembly type is "num" (any integer, float or reference, which are *)
(* treated alike) or "v128".  The type of a value in the intermediate      *)
(* representation is NUM, I8X16 or LANES; the last one stands for the      *)
(* vector types other than I8X16, which a v128 takes on after an operator  *)
(* that works on lanes of another shape.                                   *)
(*                                                                         *)
(* args are the operand types, in the order pushed; result the types of    *)
(* what is pushed; access is TRUE when the operator computes an address in *)
(* a linear memory and so may turn out to trap always.                     *)
(***************************************************************************)
EXTENDS Sequences

NUM == "NUM"
I8X16 == "I8X16"
LANES == "LANES"

IrTypes == {NUM, I8X16, LANES}
WasmTypes == {"num", "v128"}

LOCAL N == "num"
LOCAL V == "v128"

\* The type block_with_params and the signatures give a WebAssembly type.
Ir(ty) == IF ty = V THEN I8X16 ELSE NUM

Wasm(ir) == IF ir = NUM THEN N ELSE V

Arm(args, result) == [args |-> args, result |-> result, access |-> FALSE]

Access(args, result) == [args |-> args, result |-> result, access |-> TRUE]

Unary == Arm(<<N>>, <<NUM>>)
Binary == Arm(<<N, N>>, <<NUM>>)
LaneResults == {<<I8X16>>, <<LANES>>}

Constants == {Arm(<< >>, <<NUM>>)}
IntegerOps == {Unary, Binary}
FloatOps == {Unary, Binary}
Comparisons == {Unary, Binary}
Loads == {Access(<<N>>, <<NUM>>)}
Stores == {Access(<<N, N>>, << >>)}
Extensions == {Unary}
References == {Arm(<< >>, <<NUM>>), Unary}
RefAsNonNull == {Unary}
Fence == {Arm(<< >>, << >>)}

VectorConstant == {Arm(<< >>, <<I8X16>>)}
VectorLoads == {Access(<<N>>, r) : r \in LaneResults}
Splats == {Arm(<<N>>, r) : r \in LaneResults}
SplatLoads == {Access(<<N>>, r) : r \in LaneResults}
LaneLoads == {Access(<<N, V>>, r) : r \in LaneResults}
LaneStores == {Access(<<N, V>>, << >>)}
LaneExtracts == {Arm(<<V>>, <<NUM>>)}
LaneReplaces == {Arm(<<V, N>>, r) : r \in LaneResults}
Shuffles == {Arm(<<V, V>>, <<I8X16>>)}
LaneArithmetic == {Arm(a, r) : a \in {<<V>>, <<V, V>>}, r \in LaneResults}
\* V128Not keeps the type of its operand, whichever it is.
Bitwise128 == {Arm(<<V, V>>, <<I8X16>>), Arm(<<V>>, <<I8X16>>), Arm(<<V>>, <<LANES>>)}
LaneShifts == {Arm(<<V, N>>, r) : r \in LaneResults}
Bitselect == {Arm(<<V, V, V>>, <<I8X16>>)}
LaneTests == {Arm(<<V>>, <<NUM>>)}
LaneComparisons == {Arm(<<V, V>>, r) : r \in LaneResults}
LaneFloatOps == {Arm(a, <<LANES>>) : a \in {<<V>>, <<V, V>>}}
LaneConversions == {Arm(a, r) : a \in {<<V>>, <<V, V>>}, r \in LaneResults}
PairsAndRoundings == {Arm(<<V>>, <<LANES>>)}
LaneProducts == {Arm(a, r) : a \in {<<V>>, <<V, V>>}, r \in LaneResults}
RelaxedOps ==
    {Arm(a, r) : a \in {<<V>>, <<V, V>>, <<V, V, V>>}, r \in LaneResults}

Scalar ==
    Constants \cup IntegerOps \cup FloatOps \cup Comparisons \cup Loads
    \cup Stores \cup Extensions \cup References \cup RefAsNonNull \cup Fence

Vector ==
    VectorConstant \cup VectorLoads \cup Splats \cup SplatLoads \cup LaneLoads
    \cup LaneStores \cup LaneExtracts \cup LaneReplaces \cup Shuffles
    \cup LaneArithmetic \cup Bitwise128 \cup LaneShifts \cup Bitselect
    \cup LaneTests \cup LaneComparisons \cup LaneFloatOps
    \cup LaneConversions \cup PairsAndRoundings \cup LaneProducts \cup RelaxedOps
=============================================================================
