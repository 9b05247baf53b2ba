--------------------------- MODULE FuncValidator ---------------------------
(***************************************************************************)
(* wasmparser::FuncValidator, the checker that decides which operator may  *)
(* come next in a function body.  It is external: the operators below are  *)
(* the validation algorithm of WebAssembly for the operators the           *)
(* translator tells apart.                                                 *)
(*                                                                         *)
(* The state is a record v with the operand stack, a sequence of value     *)
(* types, and the control stack, a sequence of frames.  Code after an      *)
(* unconditional branch is unreachable, and pops values of any type there. *)
(***************************************************************************)
EXTENDS Naturals, Sequences

LOCAL Least(a, b) == IF a < b THEN a ELSE b

TopFrame(v) == v.ctl[Len(v.ctl)]

\* How many of n operands are really on the stack of the innermost frame.
Present(v, n) == Least(n, Len(v.stack) - TopFrame(v).height)

PopOk(v, tys) ==
    /\ v.ctl # << >>
    /\ LET n == Len(tys)
           m == Present(v, n)
       IN  /\ m = n \/ TopFrame(v).unreachable
           /\ SubSeq(tys, n - m + 1, n)
                = SubSeq(v.stack, Len(v.stack) - m + 1, Len(v.stack))

Pop(v, tys) ==
    [v EXCEPT !.stack = SubSeq(@, 1, Len(@) - Present(v, Len(tys)))]

Push(v, tys) == [v EXCEPT !.stack = @ \o tys]

Replace(v, tys, new) == Push(Pop(v, tys), new)

PushFrame(v, kind, bt) ==
    [stack |-> v.stack \o bt.params,
     ctl |-> Append(v.ctl, [kind |-> kind, bt |-> bt, unreachable |-> FALSE,
                            height |-> Len(v.stack)])]

\* The rest of the innermost frame is unreachable.
Unreach(v) ==
    [stack |-> SubSeq(v.stack, 1, TopFrame(v).height),
     ctl |-> [v.ctl EXCEPT ![Len(v.ctl)].unreachable = TRUE]]

LabelTypes(v, depth) ==
    LET f == v.ctl[Len(v.ctl) - depth]
    IN  IF f.kind = "loop" THEN f.bt.params ELSE f.bt.results

LabelOk(v, depth) == depth < Len(v.ctl)

\* The innermost frame may end here: its results are on the stack and nothing
\* else is.
FrameDone(v) ==
    /\ v.ctl # << >>
    /\ LET r == TopFrame(v).bt.results
       IN  PopOk(v, r) /\ Len(Pop(v, r).stack) = TopFrame(v).height

ElseOk(v) == FrameDone(v) /\ TopFrame(v).kind = "if"

Otherwise(v) ==
    LET f == TopFrame(v)
        outer == [stack |-> SubSeq(v.stack, 1, f.height),
                  ctl |-> SubSeq(v.ctl, 1, Len(v.ctl) - 1)]
    IN  PushFrame(outer, "else", f.bt)

\* An if without else passes its parameters on as its results.
EndOk(v) ==
    /\ FrameDone(v)
    /\ TopFrame(v).kind = "if" => TopFrame(v).bt.params = TopFrame(v).bt.results

Leave(v) ==
    LET f == TopFrame(v)
    IN  [stack |-> SubSeq(v.stack, 1, f.height) \o f.bt.results,
         ctl |-> SubSeq(v.ctl, 1, Len(v.ctl) - 1)]
=============================================================================
