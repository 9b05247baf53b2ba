-------------------------- MODULE FunctionBuilder --------------------------
(***************************************************************************)
(* The part of cranelift_frontend::FunctionBuilder that the translator of  *)
(* function bodies relies on: basic blocks with typed parameters, the      *)
(* instruction that ends a block and the edges it makes, sealing, and the  *)
(* assertions the builder makes in a debug build.  It is external: every   *)
(* operator is what the calls in src/src/cranelift expect of it.           *)
(*                                                                         *)
(* The operators work on a record t with the fields                        *)
(*   blocks  live blocks by number: parameter types, kinds of predecessor, *)
(*           sealed, and whether it is empty, has instructions or is ended *)
(*   cur     the block instructions are added to                           *)
(*   faults  what has gone wrong: "assert" for a failed assertion, "types" *)
(*           for a value of the wrong type, "dangling" for a branch target *)
(*           that never gets any code                                      *)
(*                                                                         *)
(* A predecessor is "head" when it is the branch at the head of an if,     *)
(* which may be redirected later, and "other" otherwise.                   *)
(***************************************************************************)
EXTENDS Naturals, Sequences, FiniteSets, TLC

\* ir::Block::reserved_value(): the placeholder for a block that is not made.
Reserved == 0

Fault(t, f) == [t EXCEPT !.faults = @ \cup {f}]

Check(t, ok, f) == IF ok THEN t ELSE Fault(t, f)

Fresh(t) ==
    CHOOSE b \in 1 .. Cardinality(DOMAIN t.blocks) + 1 :
        /\ b \notin DOMAIN t.blocks
        /\ \A a \in 1 .. b - 1 : a \in DOMAIN t.blocks

NewBlock(params) ==
    [params |-> params, preds |-> {}, sealed |-> FALSE, status |-> "empty"]

create_block(t, params) ==
    [t EXCEPT !.blocks = (Fresh(t) :> NewBlock(params)) @@ @]

is_unreachable(t) ==
    t.blocks[t.cur].sealed /\ t.blocks[t.cur].preds = {}

seal_block(t, b) ==
    IF b \in DOMAIN t.blocks /\ ~t.blocks[b].sealed
    THEN [t EXCEPT !.blocks[b].sealed = TRUE]
    ELSE Fault(t, "assert")

\* The block that is left must be ended, empty or unreachable.
switch_to_block(t, b) ==
    IF /\ b \in DOMAIN t.blocks
       /\ t.blocks[b].status # "filled"
       /\ t.blocks[t.cur].status # "partial" \/ is_unreachable(t)
    THEN [t EXCEPT !.cur = b]
    ELSE Fault(t, "assert")

\* An instruction that does not end the block.
ins(t) ==
    IF t.blocks[t.cur].status = "filled" THEN Fault(t, "assert")
    ELSE [t EXCEPT !.blocks[t.cur].status = "partial"]

Edge(to, args, from) == [to |-> to, args |-> args, from |-> from]

\* An instruction that ends the block, with an edge to each of its targets.
terminate(t, edges) ==
    IF \/ t.blocks[t.cur].status = "filled"
       \/ \E e \in edges : e.to \notin DOMAIN t.blocks
    THEN Fault(t, "assert")
    ELSE LET From(b) == {e.from : e \in {x \in edges : x.to = b}}
             ended == [t EXCEPT
                 !.blocks = [b \in DOMAIN @ |->
                     [@[b] EXCEPT !.preds = @ \cup From(b)]],
                 !.blocks[t.cur].status = "filled"]
             open == Check(ended, \A e \in edges : ~t.blocks[e.to].sealed, "assert")
         IN  Check(open, \A e \in edges : t.blocks[e.to].params = e.args, "types")

\* Redirects the branch at the head of an if from block old to block new.
change_jump_destination(t, old, new) ==
    IF /\ old \in DOMAIN t.blocks /\ ~t.blocks[old].sealed
       /\ "head" \in t.blocks[old].preds
       /\ ~t.blocks[new].sealed
    THEN [t EXCEPT !.blocks[old].preds = @ \ {"head"},
                   !.blocks[new].preds = @ \cup {"head"}]
    ELSE Fault(t, "assert")

\* finalize asserts that every block it knows is empty or both ended and
\* sealed; a block nothing refers to any more cannot change until then, so
\* that the assertion is made when it is forgotten.
Forget(t, used) ==
    LET gone == DOMAIN t.blocks \ used
        Finished(b) == \/ t.blocks[b].status = "empty"
                       \/ t.blocks[b].status = "filled" /\ t.blocks[b].sealed
        Target(b) == t.blocks[b].preds # {}
        t1 == Check(t, \A b \in gone : Finished(b), "assert")
        t2 == Check(t1, \A b \in gone : Target(b) => t.blocks[b].status = "filled",
                    "dangling")
    IN  [t2 EXCEPT !.blocks = [b \in used \cap DOMAIN @ |-> @[b]]]
=============================================================================
