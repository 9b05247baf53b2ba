---------------------------- MODULE ModuleTypes ----------------------------
(***************************************************************************)
(* The types of one module: translate/module_types.rs interns the          *)
(* recursion groups of the type section, translate/type_convert.rs         *)
(* rewrites their references.                                              *)
(*                                                                         *)
(* A type is [kind, params, results, fields, super]: a function, array or  *)
(* struct type and at most one supertype.  Of a value type only the type   *)
(* it refers to is kept (a sequence, empty when the type is numeric or     *)
(* abstract).  Type indices count from 1.                                  *)
(* A builder is ModuleTypesBuilder with the ModuleTypes it builds; "bad"   *)
(* collects the assertions that failed and "todo" says that a todo!() was  *)
(* reached.                                                                *)
(***************************************************************************)
EXTENDS Integers, Sequences, FiniteSets, SequencesExt, TLC

Map(F(_), s) == [i \in DOMAIN s |-> F(s[i])]

(***************************************************************************)
(* The structure of types (translate/types.rs).                            *)
(***************************************************************************)
\* trace: the references of the value types, in order ...
TraceFunc(ty)      == FlattenSeq(ty.params \o ty.results)
TraceFields(ty)    == FlattenSeq(ty.fields)
TraceComposite(ty) == TraceFunc(ty) \o TraceFields(ty)

\* ... and trace_mut, which replaces each of them by what F makes of it.
MapFunc(F(_), ty)     == [ty EXCEPT !.params = Map(LAMBDA v : Map(F, v), @),
                                    !.results = Map(LAMBDA v : Map(F, v), @)]
MapFields(F(_), ty)   == [ty EXCEPT !.fields = Map(LAMBDA f : Map(F, f), @)]
MapComposite(F(_), ty) == MapFields(F, MapFunc(F, ty))
MapSub(F(_), G(_), ty) == [MapComposite(F, ty) EXCEPT !.super = Map(G, @)]

(***************************************************************************)
(* The type list of wasmparser's validator (external).  It outlives a      *)
(* module: equal groups get the same RecGroupId and the same CoreTypeIds,  *)
(* whichever module declares them.  References inside a group are compared *)
(* by position; once interned they are CoreTypeIds like all others.        *)
(***************************************************************************)
NoTypes == [core |-> <<>>, groups |-> <<>>]

\* The hash-consing key of a group declared after the types ids.
CanonicalKey(group, ids) ==
  LET Packed(r) == IF r > Len(ids) THEN <<"rec", r - Len(ids)>> ELSE <<"id", ids[r]>>
  IN  Map(LAMBDA d : MapSub(Packed, Packed, d), group)

RecGroupElements(vt, g) == [p \in 1..vt.groups[g].len |-> vt.groups[g].start + p - 1]

\* Adds one declared group: the new list, and the ids the module has declared.
DeclareGroup(v, group) ==
  LET key    == CanonicalKey(group, v.ids)
      start  == Len(v.types.core) + 1
      Id(r)  == IF r > Len(v.ids) THEN start + r - Len(v.ids) - 1 ELSE v.ids[r]
      known  == {g \in DOMAIN v.types.groups : v.types.groups[g].key = key}
      fresh  == [core   |-> v.types.core \o Map(LAMBDA d : MapSub(Id, Id, d), group),
                 groups |-> Append(v.types.groups, [key |-> key, start |-> start, len |-> Len(group)])]
      types  == IF known = {} THEN fresh ELSE v.types
      g      == IF known = {} THEN Len(fresh.groups) ELSE CHOOSE k \in known : TRUE
  IN  [v EXCEPT !.types = types, !.ids = @ \o RecGroupElements(types, g)]

DeclareGroups(v, groups) == FoldLeft(DeclareGroup, v, groups)

RecGroupIdOf(vt, id) ==
  CHOOSE g \in DOMAIN vt.groups : id \in ToSet(RecGroupElements(vt, g))

(***************************************************************************)
(* ModuleTypesBuilder.                                                     *)
(***************************************************************************)
NewBuilder ==
  [wasm_types |-> <<>>, rec_groups |-> <<>>, seen_types |-> <<>>,
   seen_rec_groups |-> <<>>, bad |-> {}, todo |-> FALSE]

Asserted(b, what, ok) == IF ok THEN b ELSE [b EXCEPT !.bad = @ \cup {what}]

\* Mutant: the first index of the range is left out.
GroupElements_AfterStart(b, g) ==
  [p \in 1..(b.rec_groups[g].end - b.rec_groups[g].start) |-> b.rec_groups[g].start + p]

\* ModuleTypes::rec_group_elements
GroupElements(b, g) ==
  [p \in 1..(b.rec_groups[g].end - b.rec_groups[g].start) |-> b.rec_groups[g].start + p - 1]

\* Mutant: every reference is taken for one to a function type.
LookupHeapType_Func(b, index) == [kind |-> "func", index |-> index]

\* lookup_heap_type: a reference names the kind of its target, which must be there already.
LookupHeapType(b, index) == [kind |-> b.wasm_types[index].kind, index |-> index]
Pending(b, ty) == \E r \in ToSet(TraceComposite(ty)) : b.seen_types[r] > Len(b.wasm_types)

\* lookup_type_index, for supertypes
LookupTypeIndex(b, id) == b.seen_types[id]

ConvertFuncType(b, ty)   == MapFunc(LAMBDA id : LookupHeapType(b, b.seen_types[id]), ty)
ConvertStructType(b, ty) == MapFields(LAMBDA id : LookupHeapType(b, b.seen_types[id]), ty)
ConvertCompositeType(b, ty) == ConvertStructType(b, ConvertFuncType(b, ty))

ConvertSubType(b, ty) ==
  [ConvertCompositeType(b, ty) EXCEPT !.super = Map(LAMBDA id : LookupTypeIndex(b, id), @)]

StartRecGroup(b, elems) ==
  LET first    == Len(b.wasm_types) + 1
      reserved == [id \in ToSet(elems) |-> first + (CHOOSE p \in DOMAIN elems : elems[p] = id) - 1]
  IN  Asserted([b EXCEPT !.seen_types = reserved @@ @],
              "old_entry", ToSet(elems) \cap DOMAIN b.seen_types = {})

WasmSubTypeInRecGroup(b, id, ty) ==
  Asserted([b EXCEPT !.wasm_types = Append(@, ty)],
          "reserved", b.seen_types[id] = Len(b.wasm_types) + 1)

\* Mutant: the range is closed where it should be half open.
EndRecGroup_Closed(b, start, end, rec_group_id) ==
  [b EXCEPT !.rec_groups = Append(@, [start |-> start, end |-> end - 1]),
            !.seen_rec_groups = rec_group_id :> (Len(b.rec_groups) + 1) @@ @]

EndRecGroup(b, start, end, rec_group_id) ==
  Asserted([b EXCEPT !.rec_groups = Append(@, [start |-> start, end |-> end]),
                    !.seen_rec_groups = rec_group_id :> (Len(b.rec_groups) + 1) @@ @],
          "end", start <= Len(b.wasm_types) /\ end = Len(b.wasm_types) + 1)

\* A reference to a type of the group that is not converted yet reaches todo!().
DefineNewRecGroup(b, vt, rec_group_id) ==
  LET elems == RecGroupElements(vt, rec_group_id)
      start == Len(b.wasm_types) + 1
      Define(c, id) ==
        IF c.todo \/ Pending(c, vt.core[id])
        THEN [c EXCEPT !.todo = TRUE]
        ELSE WasmSubTypeInRecGroup(c, id, ConvertSubType(c, vt.core[id]))
      defined == FoldLeft(Define, StartRecGroup(b, elems), elems)
  IN  IF defined.todo THEN defined
      ELSE EndRecGroup(defined, start, start + Len(elems), rec_group_id)

\* Mutant: a group is defined each time it is declared.
InternRecGroup_Always(b, vt, rec_group_id) == DefineNewRecGroup(b, vt, rec_group_id)

InternRecGroup(b, vt, rec_group_id) ==
  IF rec_group_id \in DOMAIN b.seen_rec_groups THEN b
  ELSE DefineNewRecGroup(b, vt, rec_group_id)
=============================================================================
