----------------------------- MODULE ConstEval ------------------------------
(***************************************************************************)
(* The interpreter of constant expressions (src/runtime/const_eval.rs).    *)
(*                                                                         *)
(* Its stack belongs to the evaluator, which the caller keeps and passes   *)
(* to every instantiation: what one evaluation leaves there, the next one  *)
(* finds.  An integer is kept sign-extended to 64 bits (VMVal::i32); the   *)
(* widths are parameters.                                                  *)
(***************************************************************************)
EXTENDS Integers, Sequences, SequencesExt

CONSTANTS
  I32Bits,   \* the width of an i32
  I64Bits    \* the width of an i64

ASSUME WidthsOrdered == I32Bits \in Nat \ {0} /\ I64Bits \in Nat /\ I32Bits <= I64Bits

(* The two's complement value of the low bits of an integer.               *)
Signed(v, bits) == ((v + 2^(bits - 1)) % 2^bits) - 2^(bits - 1)

(* get_u64: the same bits, read without a sign.                            *)
Unsigned(v) == v % 2^I64Bits

Arith(op, a, b) ==
  CASE op = "Add" -> a + b
    [] op = "Sub" -> a - b
    [] op = "Mul" -> a * b

(* An operator either pushes a constant, of whatever type, or takes two    *)
(* integers and pushes one; those that are not implemented panic, and so   *)
(* does taking from an empty stack, after what was there has been taken.   *)
Binary == {"Add", "Sub", "Mul"}
Implemented(op) == op.op \in {"Const"} \cup Binary
BitsOf(op) == IF op.bits = 32 THEN I32Bits ELSE I64Bits

StepOp(state, op) ==
  LET n == Len(state.stack)
  IN IF state.panics \/ ~Implemented(op) THEN [state EXCEPT !.panics = TRUE]
     ELSE IF op.op \in Binary /\ n < 2 THEN [panics |-> TRUE, stack |-> <<>>]
     ELSE [state EXCEPT !.stack =
             IF op.op = "Const" THEN Append(@, op.value)
             ELSE Append(SubSeq(@, 1, n - 2),
                    Signed(Arith(op.op, Signed(@[n - 1], BitsOf(op)), Signed(@[n], BitsOf(op))),
                           BitsOf(op)))]

(* The end of an evaluation takes the value off the stack, and asserts     *)
(* that nothing is left.                                                   *)
Finish(end) ==
  IF end.panics \/ Len(end.stack) # 1
  THEN [panics |-> TRUE, stack |-> end.stack, value |-> 0]
  ELSE [panics |-> FALSE, stack |-> <<>>, value |-> end.stack[1]]

(* eval: the value, the stack afterwards, and whether it panicked.         *)
Eval(stack, expr) == Finish(FoldLeft(StepOp, [stack |-> stack, panics |-> FALSE], expr))
=============================================================================
