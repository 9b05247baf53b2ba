--------------------------- MODULE FuncTranslator ---------------------------
(***************************************************************************)
(* The translator of function bodies: FuncTranslator::translate_body,      *)
(* translate_operator and the FuncTranslationState they work on.           *)
(*                                                                         *)
(* One translator is used for many functions.  Each operator of a body is  *)
(* first translated and then handed to the validator (func_translator.rs,  *)
(* lines 210 and 211); with OnlyValid the bodies are those the validator   *)
(* accepts.  Bodies may be of any length; MaxStack bounds the operands and *)
(* MaxDepth the nesting.                                                   *)
(***************************************************************************)
EXTENDS Integers, SequencesExt, FunctionBuilder, FuncValidator, StraightLine

CONSTANTS
    Types,          \* the value types in use
    BlockTypes,     \* the block types in use: [params, results]
    FuncTypes,      \* the function types that are called: [params, results]
    Results,        \* the results of the function translated
    Locals,         \* the types of its parameters and locals
    Globals,        \* the types of the globals of its module
    HasMemory,      \* whether the module has a memory
    MaxStack, MaxDepth,
    OnlyValid       \* whether only valid bodies are translated

ASSUME ConstantsAssumption ==
    /\ Types \subseteq WasmTypes
    /\ \A b \in BlockTypes \cup FuncTypes :
            b.params \in Seq(Types) /\ b.results \in Seq(Types)
    /\ Results \in Seq(Types) /\ Locals \in Seq(Types)
    /\ Globals \subseteq Types /\ HasMemory \in BOOLEAN
    /\ MaxStack \in Nat /\ MaxDepth \in Nat /\ OnlyValid \in BOOLEAN

VARIABLES
    tr,     \* the translator: value stack, control stack, reachability, the
            \* cached references of the function, and the builder's fields
    val,    \* the validator of the function
    phase   \* "body" while a body is read, "idle" otherwise

vars == <<tr, val, phase>>
-----------------------------------------------------------------------------
(* The value stack. *)

IrSeq(tys) == [i \in DOMAIN tys |-> Ir(tys[i])]

WasmSeq(irs) == [i \in DOMAIN irs |-> Wasm(irs[i])]

Canonical(irs) == IrSeq(WasmSeq(irs))

push(t, irs) == [t EXCEPT !.stack = @ \o irs]

\* The top n values, or as many as there are when the check below fails.
peekn(t, n) ==
    SubSeq(t.stack, IF n < Len(t.stack) THEN Len(t.stack) - n + 1 ELSE 1, Len(t.stack))

ensure_length(t, n) == Check(t, n <= Len(t.stack), "assert")

popn(t, n) ==
    [ensure_length(t, n) EXCEPT !.stack = SubSeq(@, 1, Len(@) - Len(peekn(t, n)))]

\* Operands of the types tys are on top of the stack.
Typed(t, tys) == Check(t, WasmSeq(peekn(t, Len(tys))) = tys, "types")

truncate(t, n) == [t EXCEPT !.stack = SubSeq(@, 1, IF n < Len(@) THEN n ELSE Len(@))]
-----------------------------------------------------------------------------
(* Control frames. *)

Frame(kind, dest, header, else_block, np, nr, size, head, bt) ==
    [kind |-> kind, dest |-> dest, header |-> header, else_block |-> else_block,
     params |-> np, results |-> nr, size |-> size, branched |-> FALSE,
     head |-> head, consequent |-> "open", bt |-> bt]

EmptyType == [params |-> << >>, results |-> << >>]

Pushed(t, frame) == [t EXCEPT !.control = Append(@, frame)]

push_block(t, dest, np, nr) ==
    Pushed(ensure_length(t, np),
           Frame("block", dest, Reserved, Reserved, np, nr, Len(t.stack) - np,
                 TRUE, EmptyType))

push_loop(t, header, dest, np, nr) ==
    Pushed(ensure_length(t, np),
           Frame("loop", dest, header, Reserved, np, nr, Len(t.stack) - np,
                 TRUE, EmptyType))

\* The parameters of an if are pushed twice; the lower copy is for the else.
push_if(t, dest, else_block, np, nr, bt) ==
    LET copied == push(ensure_length(t, np), peekn(t, np))
    IN  Pushed(copied, Frame("if", dest, Reserved, else_block, np, nr,
                             Len(copied.stack) - np, t.reachable, bt))

Innermost(t) == t.control[Len(t.control)]

Outer(t) == [t EXCEPT !.control = SubSeq(@, 1, Len(@) - 1)]

NumBranchArgs(f) == IF f.kind = "loop" THEN f.params ELSE f.results

br_destination(f) == IF f.kind = "loop" THEN f.header ELSE f.dest

FrameAt(t, depth) == t.control[Len(t.control) - depth]

set_branched_to_exit_Never(t, depth) == t

set_branched_to_exit(t, depth) ==
    [t EXCEPT !.control[Len(t.control) - depth].branched =
        @ \/ FrameAt(t, depth).kind # "loop"]

OriginalSize_IgnoresCopy(f) == f.size

OriginalSize(f) == f.size - (IF f.kind = "if" THEN f.params ELSE 0)

\* The blocks that may still be switched to, branched to or sealed.
Used(t) ==
    {t.cur} \cup UNION {{f.dest, f.header, f.else_block} :
                            f \in {t.control[i] : i \in DOMAIN t.control}}

\* The numbers of blocks carry no meaning: those in use are numbered in the
\* order in which the control stack mentions them.
Renumbered(t) ==
    LET mentioned == <<t.cur>> \o FlattenSeq([i \in DOMAIN t.control |->
            <<t.control[i].dest, t.control[i].header, t.control[i].else_block>>])
        First(b) == CHOOSE i \in DOMAIN mentioned :
                        /\ mentioned[i] = b
                        /\ \A j \in 1 .. i - 1 : mentioned[j] # b
        New == [b \in DOMAIN t.blocks |->
                    Cardinality({c \in DOMAIN t.blocks : First(c) <= First(b)})]
        To(b) == IF b = Reserved THEN b ELSE New[b]
    IN  [t EXCEPT
            !.cur = To(@),
            !.control = [i \in DOMAIN @ |->
                [@[i] EXCEPT !.dest = To(@), !.header = To(@), !.else_block = To(@)]],
            !.blocks = [n \in 1 .. Cardinality(DOMAIN @) |->
                @[CHOOSE b \in DOMAIN @ : New[b] = n]]]
-----------------------------------------------------------------------------
(* Blocks, and branches to them: canonicalise_then_jump and canonicalise_brif *)
(* convert vectors to I8X16 on the way.                                       *)

block_with_params(t, tys) == create_block(t, IrSeq(tys))

BranchArgs_AsTheyAre(irs) == irs

BranchArgs(irs) == Canonical(irs)

block_params(t, b) == IF b \in DOMAIN t.blocks THEN t.blocks[b].params ELSE << >>

jump(t, b, irs) == terminate(t, {Edge(b, BranchArgs(irs), "other")})

Trap(t) == [terminate(t, {}) EXCEPT !.reachable = FALSE]

TranslateBlock(t, bt) ==
    push_block(block_with_params(t, bt.results), Fresh(t), Len(bt.params), Len(bt.results))

TranslateLoop(t, bt) ==
    LET np == Len(bt.params)
        header == Fresh(t)
        t1 == block_with_params(t, bt.params)
        dest == Fresh(t1)
        t2 == block_with_params(t1, bt.results)
        t3 == jump(t2, header, peekn(t2, np))
        t4 == push_loop(t3, header, dest, np, Len(bt.results))
    IN  switch_to_block(push(popn(t4, np), IrSeq(bt.params)), header)

\* Without an else the other branch leads to the code after the if; where the
\* types do not allow that, the block of the else is made at once.
TranslateIf(t, bt) ==
    LET np == Len(bt.params)
        t0 == popn(t, 1)
        then == Fresh(t0)
        t1 == create_block(t0, << >>)
        dest == Fresh(t1)
        t2 == block_with_params(t1, bt.results)
        else_block == IF bt.params = bt.results THEN Reserved ELSE Fresh(t2)
        t3 == IF else_block = Reserved THEN t2 ELSE block_with_params(t2, bt.params)
        other == IF else_block = Reserved THEN dest ELSE else_block
        t4 == terminate(t3, {Edge(then, << >>, "other"),
                             Edge(other, BranchArgs(peekn(t3, np)), "head")})
        t5 == IF else_block = Reserved THEN t4 ELSE seal_block(t4, else_block)
        t6 == switch_to_block(seal_block(t5, then), then)
    IN  push_if(t6, dest, else_block, np, Len(bt.results), bt)

\* From here to the end of the if the alternative is translated.
ConsequentEnds(t) ==
    LET t1 == Check(t, Innermost(t).consequent = "open", "assert")
    IN  [t1 EXCEPT !.control[Len(t.control)].consequent =
            IF t.reachable THEN "reachable" ELSE "unreachable"]

\* The block of an else that was not expected: the branch at the head of the
\* if is redirected to it.
LateElse(t, f) ==
    LET t1 == block_with_params(t, f.bt.params)
    IN  seal_block(change_jump_destination(t1, f.dest, Fresh(t)), Fresh(t))

TranslateElse(t) ==
    LET f == Innermost(t)
        late == f.else_block = Reserved
        n == IF late THEN Len(f.bt.params) ELSE f.results
        t1 == Check(ConsequentEnds(t), late => n = f.results, "assert")
        t2 == popn(jump(t1, f.dest, peekn(t1, n)), n)
    IN  IF t.control = << >> \/ f.kind # "if" THEN Fault(t, "assert")
        ELSE IF ~f.head THEN t1
        ELSE IF late THEN switch_to_block(LateElse(t2, f), Fresh(t2))
        ELSE switch_to_block(t2, f.else_block)

TranslateEnd(t) ==
    LET f == Innermost(t)
        t1 == jump(ensure_length(Outer(t), f.results), f.dest, peekn(t, f.results))
        t2 == seal_block(switch_to_block(t1, f.dest), f.dest)
        t3 == IF f.kind = "loop" THEN seal_block(t2, f.header) ELSE t2
    IN  IF t.control = << >> THEN Fault(t, "assert")
        ELSE push(truncate(t3, OriginalSize(f)), block_params(t, f.dest))
-----------------------------------------------------------------------------
(* Branches.  A depth beyond the control stack fails. *)

TranslateBr(t, depth) ==
    LET f == FrameAt(t, depth)
        n == NumBranchArgs(f)
        t1 == ensure_length(set_branched_to_exit(t, depth), n)
        t2 == jump(t1, br_destination(f), peekn(t1, n))
    IN  IF depth >= Len(t.control) THEN Fault(t, "assert")
        ELSE [popn(t2, n) EXCEPT !.reachable = FALSE]

\* A branch that is taken or falls through to a new block.
ConditionalBranch(t, depth) ==
    LET f == FrameAt(t, depth)
        n == NumBranchArgs(f)
        t1 == ensure_length(set_branched_to_exit(t, depth), n)
        next == Fresh(t1)
        t2 == terminate(create_block(t1, << >>),
                        {Edge(br_destination(f), BranchArgs(peekn(t1, n)), "other"),
                         Edge(next, << >>, "other")})
    IN  IF depth >= Len(t.control) THEN Fault(t, "assert")
        ELSE switch_to_block(seal_block(t2, next), next)

TranslateBrIf(t, depth) == ConditionalBranch(popn(t, 1), depth)

TranslateBrOnNull(t, depth) ==
    push(ConditionalBranch(ins(popn(t, 1)), depth), peekn(t, 1))

TranslateBrOnNonNull(t, depth) ==
    popn(ConditionalBranch(ins(ensure_length(t, 1)), depth), 1)

MarkAll(t, depths) ==
    [t EXCEPT !.control = [i \in DOMAIN t.control |->
        IF Len(t.control) - i \in depths
        THEN set_branched_to_exit(t, Len(t.control) - i).control[i]
        ELSE t.control[i]]]

\* The number of arguments is that of the innermost target.  The blocks that
\* split the edges of a br_table with arguments are ended as soon as they are
\* made, and are left out.
TranslateBrTable(t, depths) ==
    LET inner == CHOOSE d \in depths : \A e \in depths : d <= e
        n == NumBranchArgs(FrameAt(t, inner))
        t1 == ensure_length(popn(t, 1), n)
        t2 == terminate(MarkAll(t1, depths),
                {Edge(br_destination(FrameAt(t, d)), BranchArgs(peekn(t1, n)), "other") :
                    d \in depths})
    IN  IF \E d \in depths : d >= Len(t.control) THEN Fault(t, "assert")
        ELSE [popn(t2, n) EXCEPT !.reachable = FALSE]

TranslateReturn_GoesOn(t) == popn(terminate(t, {}), t.control[1].results)

TranslateReturn(t) ==
    LET n == t.control[1].results
        t1 == Typed(ensure_length(t, n), Results)
    IN  IF t.control = << >> THEN Fault(t, "assert")
        ELSE [popn(terminate(t1, {}), n) EXCEPT !.reachable = FALSE]
-----------------------------------------------------------------------------
(* Operators without control flow, calls and variables. *)

\* References to functions, signatures, memories and globals are made once per
\* function and cached; one that was made for another function is of no use.
get_cached(t) == [Check(t, t.refs # "old", "assert") EXCEPT !.refs = "own"]

TranslateArm(t, arm) ==
    LET n == Len(arm.args)
        t1 == popn(Typed(t, arm.args), n)
    IN  push(ins(IF arm.access THEN get_cached(t1) ELSE t1), arm.result)

\* prepare_addr has found that the access is out of bounds whatever the index.
TranslateArmTraps(t, arm) == Trap(get_cached(popn(Typed(t, arm.args), Len(arm.args))))

TranslateDrop(t) == popn(t, 1)

TranslateSelect(t, ty) ==
    push(ins(popn(Typed(t, <<ty, ty, "num">>), 3)), <<Ir(ty)>>)

TranslateCall(t, ft) ==
    LET n == Len(ft.params)
        t1 == Typed(ensure_length(get_cached(t), n), ft.params)
    IN  push(popn(ins(t1), n), IrSeq(ft.results))

TranslateCallIndirect(t, ft) == TranslateCall(popn(get_cached(t), 1), ft)

\* The type of the table tells that the signature cannot match.
TranslateCallIndirectTraps(t, ft) ==
    Trap(Typed(ensure_length(popn(get_cached(t), 1), Len(ft.params)), ft.params))

\* def_var asserts that the value has the type the variable was declared with.
DefVar(t, x, ir) == Check(t, ir = Ir(Locals[x]), "types")

\* Values are converted before they are kept in a variable.
Kept(irs) == Canonical(irs)

TranslateLocalGet_Unconverted(t, x) == push(t, <<Locals[x]>>)

TranslateLocalGet(t, x) == push(t, <<Ir(Locals[x])>>)

TranslateLocalTee(t, x) ==
    LET t1 == ensure_length(t, 1)
    IN  IF t.stack = << >> THEN t1 ELSE DefVar(t1, x, Kept(peekn(t, 1))[1])

TranslateLocalSet(t, x) == popn(TranslateLocalTee(t, x), 1)

TranslateGlobalGet(t, ty) == push(ins(get_cached(t)), <<Ir(ty)>>)

TranslateGlobalSet(t, ty) ==
    popn(ins(Check(get_cached(t), Kept(peekn(t, 1)) = <<Ir(ty)>>, "types")), 1)
-----------------------------------------------------------------------------
(* Unreachable code: only the structure of blocks is followed. *)

SkipBlock(t) == push_block(t, Reserved, 0, 0)

SkipIf(t, bt) == push_if(t, Reserved, Reserved, 0, 0, bt)

SkipElse(t) ==
    LET f == Innermost(t)
        t1 == truncate(ConsequentEnds(t), f.size)
        t2 == [t1 EXCEPT !.reachable = TRUE]
    IN  IF t.control = << >> \/ f.kind # "if" THEN Fault(t, "assert")
        ELSE IF ~f.head THEN ConsequentEnds(t)
        ELSE IF f.else_block = Reserved THEN switch_to_block(LateElse(t2, f), Fresh(t2))
        ELSE switch_to_block(t2, f.else_block)

\* An if whose condition may be false, or whose other part ended reachable,
\* is followed by reachable code.
ReachableAnyway_AlwaysWithHead(f) == f.kind = "if" /\ f.head

ReachableAnyway(f) ==
    f.kind = "if" /\ f.head /\ f.consequent # "unreachable"

SkipEnd(t) ==
    LET f == Innermost(t)
        t1 == truncate(Outer(t), OriginalSize(f))
        t2 == IF f.kind = "loop" THEN seal_block(t1, f.header) ELSE t1
        t3 == seal_block(switch_to_block(t2, f.dest), f.dest)
    IN  IF t.control = << >> THEN Fault(t, "assert")
        ELSE IF f.branched \/ ReachableAnyway(f)
        THEN [push(t3, block_params(t, f.dest)) EXCEPT !.reachable = TRUE]
        ELSE t2
-----------------------------------------------------------------------------
(* The specification.  NewState is FuncTranslationState::new. *)

NewState ==
    [stack |-> << >>, control |-> << >>, reachable |-> TRUE, refs |-> "none",
     blocks |-> << >>, cur |-> Reserved, faults |-> {}]

NoBody == [stack |-> << >>, ctl |-> << >>]

Init == tr = NewState /\ val = NoBody /\ phase = "idle"

\* clear: what the last function left behind is gone.
clear_KeepsRefs(t) == [t EXCEPT !.reachable = TRUE]

clear(t) ==
    [Check(t, t.stack = << >> /\ t.control = << >>, "assert")
        EXCEPT !.reachable = TRUE, !.refs = "none"]

\* translate_body up to the first operator: the entry block, which needs no
\* predecessor, the exit block, and the frame of the function.
Begin ==
    /\ phase = "idle" /\ tr.faults = {}
    /\ LET t1 == create_block(tr, << >>)
           t2 == [t1 EXCEPT !.cur = Fresh(tr),
                            !.blocks[Fresh(tr)].preds = {"other"},
                            !.blocks[Fresh(tr)].sealed = TRUE,
                            !.blocks[Fresh(tr)].status = "partial"]
           exit == Fresh(t2)
           t3 == clear(block_with_params(t2, Results))
       IN  tr' = push_block(t3, exit, 0, Len(Results))
    /\ val' = PushFrame(NoBody, "block", [params |-> << >>, results |-> Results])
    /\ phase' = "body"

\* compile_function returns early on an error: the context it took is dropped
\* and never used again; other functions get a new one.
Discarded_Reused(t) == [t EXCEPT !.blocks = << >>, !.cur = Reserved]

Discarded(t) == [NewState EXCEPT !.faults = t.faults]

\* What is left of the state once blocks out of use are forgotten.
Tidy(t) ==
    IF DOMAIN t.blocks = DOMAIN tr.blocks /\ Len(t.control) = Len(tr.control)
    THEN t ELSE Renumbered(Forget(t, Used(t)))

\* One turn of the loop of translate_function_body: the operator is translated,
\* as skipped in unreachable code, and then checked.
Operator(accepted, translated, skipped, checked) ==
    /\ phase = "body" /\ tr.faults = {}
    /\ OnlyValid => accepted
    /\ accepted => Len(checked.stack) <= MaxStack
    /\ LET t == IF tr.reachable
                THEN Check(translated, ~is_unreachable(tr), "assert")
                ELSE skipped
       IN  tr' = IF accepted THEN Tidy(t) ELSE Discarded(t)
    /\ val' = IF accepted THEN checked ELSE NoBody
    /\ phase' = IF accepted THEN "body" ELSE "idle"

\* An operator that only replaces operands of the types pops.
Simple(pops, pushes, translated) ==
    Operator(PopOk(val, pops), translated, tr, Replace(val, pops, pushes))

\* An operator after which the rest of the frame is unreachable.
Final(pops, translated) ==
    Operator(PopOk(val, pops), translated, tr, Unreach(val))

Straight(arm) == Simple(arm.args, WasmSeq(arm.result), TranslateArm(tr, arm))

StraightTraps(arm) ==
    /\ arm.access
    /\ tr.reachable
    /\ Simple(arm.args, WasmSeq(arm.result), TranslateArmTraps(tr, arm))

Drop(ty) == Simple(<<ty>>, << >>, TranslateDrop(tr))

Select(ty) == Simple(<<ty, ty, "num">>, <<ty>>, TranslateSelect(tr, ty))

Unreachable == Final(<< >>, Trap(tr))

Block(bt) ==
    /\ Len(tr.control) < MaxDepth
    /\ Operator(PopOk(val, bt.params), TranslateBlock(tr, bt), SkipBlock(tr),
                PushFrame(Pop(val, bt.params), "block", bt))

Loop(bt) ==
    /\ Len(tr.control) < MaxDepth
    /\ Operator(PopOk(val, bt.params), TranslateLoop(tr, bt), SkipBlock(tr),
                PushFrame(Pop(val, bt.params), "loop", bt))

If(bt) ==
    LET pops == Append(bt.params, "num")
    IN  /\ Len(tr.control) < MaxDepth
        /\ Operator(PopOk(val, pops), TranslateIf(tr, bt), SkipIf(tr, bt),
                    PushFrame(Pop(val, pops), "if", bt))

Else == Operator(ElseOk(val), TranslateElse(tr), SkipElse(tr), Otherwise(val))

End == Operator(EndOk(val), TranslateEnd(tr), SkipEnd(tr), Leave(val))

Br(depth) ==
    Operator(LabelOk(val, depth) /\ PopOk(val, LabelTypes(val, depth)),
             TranslateBr(tr, depth), tr, Unreach(val))

BrIf(depth) ==
    LET label == LabelTypes(val, depth)
        pops == Append(label, "num")
    IN  Operator(LabelOk(val, depth) /\ PopOk(val, pops),
                 TranslateBrIf(tr, depth), tr, Replace(val, pops, label))

\* References are of the type "num".
BrOnNull(depth) ==
    LET label == LabelTypes(val, depth)
        pops == Append(label, "num")
    IN  Operator(LabelOk(val, depth) /\ PopOk(val, pops),
                 TranslateBrOnNull(tr, depth), tr, Replace(val, pops, pops))

BrOnNonNull(depth) ==
    LET label == LabelTypes(val, depth)
        others == SubSeq(label, 1, Len(label) - 1)
    IN  Operator(LabelOk(val, depth) /\ label = Append(others, "num") /\ PopOk(val, label),
                 TranslateBrOnNonNull(tr, depth), tr, Replace(val, label, others))

BrTable(depths) ==
    LET label == LabelTypes(val, CHOOSE d \in depths : TRUE)
    IN  Operator(/\ \A d \in depths : LabelOk(val, d)
                 /\ \A d \in depths : LabelTypes(val, d) = label
                 /\ PopOk(val, Append(label, "num")),
                 TranslateBrTable(tr, depths), tr, Unreach(val))

Return == Final(Results, TranslateReturn(tr))

Call(ft) == Simple(ft.params, ft.results, TranslateCall(tr, ft))

CallIndirect(ft) ==
    Simple(Append(ft.params, "num"), ft.results, TranslateCallIndirect(tr, ft))

CallIndirectTraps(ft) ==
    /\ tr.reachable
    /\ Simple(Append(ft.params, "num"), ft.results, TranslateCallIndirectTraps(tr, ft))

LocalGet(x) == Simple(<< >>, <<Locals[x]>>, TranslateLocalGet(tr, x))

LocalSet(x) == Simple(<<Locals[x]>>, << >>, TranslateLocalSet(tr, x))

LocalTee(x) == Simple(<<Locals[x]>>, <<Locals[x]>>, TranslateLocalTee(tr, x))

GlobalGet(ty) == Simple(<< >>, <<ty>>, TranslateGlobalGet(tr, ty))

GlobalSet(ty) == Simple(<<ty>>, << >>, TranslateGlobalSet(tr, ty))

\* The body is malformed here, or the operator is one that is not supported.
GiveUp ==
    /\ phase = "body" /\ tr.faults = {}
    /\ tr' = Discarded(tr) /\ val' = NoBody /\ phase' = "idle"

\* The end of the body: the exit block returns if it is reachable, the builder
\* is finalized and the translator is kept for another function.
Finish ==
    /\ phase = "body" /\ tr.faults = {}
    /\ val.ctl = << >>
    /\ LET t1 == Check(tr, WasmSeq(tr.stack) = Results, "types")
           t2 == IF tr.reachable /\ ~is_unreachable(tr) THEN terminate(t1, {}) ELSE tr
           t3 == Forget(t2, {})
       IN  tr' = [t3 EXCEPT !.stack = << >>, !.cur = Reserved,
                            !.refs = IF @ = "none" THEN @ ELSE "old"]
    /\ val' = NoBody /\ phase' = "idle"

Arms ==
    {arm \in Scalar \cup Vector :
        /\ arm.args \in Seq(Types) /\ WasmSeq(arm.result) \in Seq(Types)
        /\ arm.access => HasMemory}

Depths == 0 .. MaxDepth - 1

Next ==
    \/ Begin \/ GiveUp \/ Finish
    \/ Unreachable \/ Return \/ Else \/ End
    \/ \E arm \in Arms : Straight(arm) \/ StraightTraps(arm)
    \/ \E ty \in Types : Drop(ty) \/ Select(ty)
    \/ \E ty \in Globals : GlobalGet(ty) \/ GlobalSet(ty)
    \/ \E x \in DOMAIN Locals : LocalGet(x) \/ LocalSet(x) \/ LocalTee(x)
    \/ \E bt \in BlockTypes : Block(bt) \/ Loop(bt) \/ If(bt)
    \/ \E ft \in FuncTypes : Call(ft) \/ CallIndirect(ft) \/ CallIndirectTraps(ft)
    \/ \E d \in Depths : Br(d) \/ BrIf(d) \/ BrOnNull(d) \/ BrOnNonNull(d)
    \/ \E ds \in SUBSET Depths \ {{}} : BrTable(ds)

Spec == Init /\ [][Next]_vars
-----------------------------------------------------------------------------
(* Properties. *)

FrameType ==
    [kind : {"block", "loop", "if"}, dest : Nat, header : Nat, else_block : Nat,
     params : 0 .. MaxStack, results : 0 .. MaxStack, size : Nat,
     branched : BOOLEAN, head : BOOLEAN,
     consequent : {"open", "reachable", "unreachable"},
     bt : BlockTypes \cup {EmptyType}]

\* The types of FuncTranslationState and ControlStackFrame; the value stack
\* holds values of the intermediate representation, and blocks that frames
\* refer to exist.
TypeOK ==
    /\ phase \in {"idle", "body"}
    /\ tr.reachable \in BOOLEAN /\ tr.refs \in {"none", "own", "old"}
    /\ tr.stack \in Seq(IrTypes)
    /\ \A i \in DOMAIN tr.control : tr.control[i] \in FrameType
    /\ Used(tr) \subseteq DOMAIN tr.blocks \cup {Reserved}
    /\ val.stack \in Seq(WasmTypes)

\* No assertion, unwrap or expect fails, neither in the translator nor in the
\* builder: translate_operator's debug_assert that the current block is
\* reachable, ensure_length, clear's that the last function left nothing, and
\* those of switch_to_block, seal_block and finalize.
NeverFails == "assert" \notin tr.faults

\* Every instruction, branch, call, return and variable gets values of the
\* types it is declared with, although vectors have several types between one
\* operator and the next.
WellTyped == "types" \notin tr.faults

\* Every block that is branched to gets code: translate_unreachable_operator
\* knows from exit_is_branched_to and reachable_anyway which ones these are.
EdgesLand == "dangling" \notin tr.faults

\* Positions of the copies push_if made for an else that may still come.
Copies(t) ==
    UNION {LET f == t.control[i] IN f.size - f.params + 1 .. f.size :
           i \in {j \in DOMAIN t.control :
                     t.control[j].kind = "if" /\ t.control[j].consequent = "open"}}

\* In reachable code the value stack, less the copies kept for else parts, is
\* the operand stack of the validator, value by value.
StackAgrees ==
    phase = "body" /\ tr.reachable =>
        LET hidden == Copies(tr)
        IN  /\ Len(tr.stack) = Len(val.stack) + Cardinality(hidden)
            /\ \A i \in DOMAIN tr.stack \ hidden :
                 Wasm(tr.stack[i]) = val.stack[i - Cardinality({h \in hidden : h < i})]

\* Code that the validator takes for unreachable is never translated, and both
\* are inside the same blocks.
ReachabilityAgrees ==
    phase = "body" =>
        /\ Len(tr.control) = Len(val.ctl)
        /\ val.ctl # << >> /\ TopFrame(val).unreachable => ~tr.reachable

\* The translator skips code exactly when no path leads to it: the current
\* block is ended then, and open and entered from somewhere otherwise.
FallsThrough ==
    phase = "body" =>
        (tr.reachable <=> /\ tr.blocks[tr.cur].status # "filled"
                          /\ tr.blocks[tr.cur].preds # {})
=============================================================================
