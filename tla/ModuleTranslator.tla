-------------------------- MODULE ModuleTranslator --------------------------
(***************************************************************************)
(* translate/module_translator.rs: the payloads of a WASM binary, one      *)
(* after the other, become a ModuleTranslation.  Each payload goes to      *)
(* wasmparser's validator first; the handler runs when the validator has   *)
(* accepted it.  Any refusal, unsupported feature or panic ends the        *)
(* translation, and the caller keeps the validator as it then is.          *)
(*                                                                         *)
(* Index spaces are sequences, so their indices count from 1.  An option   *)
(* is a sequence of at most one element.  A constant expression is a       *)
(* sequence of [op, arg].                                                  *)
(***************************************************************************)
EXTENDS ModuleTypes

CONSTANTS
  TypeSections, ImportSections, FunctionSections, TableSections,
  MemorySections, GlobalSections, ExportSections, StartFunctions,
  ElementSections, DataSections, CustomSections,
               \* the contents a section of a module can have
  MaxModules,  \* bound: modules one validator is used for
  MaxCustom    \* bound: custom sections of a module

VARIABLES
  validator,   \* the caller's wasmparser validator (external)
  builder,     \* ModuleTypesBuilder
  module,      \* ModuleTranslation: the module, its bodies and its debug information
  source,      \* the sections accepted so far, as the binary declares them
  status,      \* idle, running, or how the last translation ended
  begun,       \* modules begun
  refusals     \* translations that failed since the validator was last reset

vars == <<validator, builder, module, source, status, begun, refusals>>

\* The kinds of imports and exports.  Tags are left out: the handler of imports
\* takes it that they do not get past validation.
Kind == {"func", "table", "memory", "global"}

NameKind == {"module", "funcs", "locals", "globals", "data", "labels", "types",
             "tables", "memories", "elements", "fields", "tags"}

EmptyModule ==
  [types |-> <<>>, functions |-> <<>>, tables |-> <<>>, memories |-> <<>>, globals |-> <<>>,
   start |-> <<>>, imports |-> <<>>, exports |-> <<>>,
   global_initializers |-> <<>>, initial_values |-> <<>>, segments |-> <<>>,
   memory_initializers |-> <<>>, passive_table |-> <<>>, passive_memory |-> <<>>,
   active_table |-> {}, active_memory |-> {},
   num_imported |-> [k \in Kind |-> 0], num_escaped |-> 0,
   function_bodies |-> 0, code_section |-> FALSE,
   names |-> [k \in NameKind |-> <<>>], producers |-> <<>>,
   required_features |-> {}, dwarf |-> {}, debug |-> {}]

NothingDeclared ==
  [k \in {"types", "imports", "functions", "tables", "memories", "globals",
          "exports", "elements", "data", "custom"} |-> <<>>]

(***************************************************************************)
(* The validator (external).  "last" is the position of the last section   *)
(* in the order sections must have; ids are the CoreTypeIds of the types   *)
(* this module has declared.                                               *)
(***************************************************************************)
Order == <<"type", "import", "function", "table", "memory", "tag", "global",
           "export", "start", "element", "datacount", "code", "data">>
Position(s) == CHOOSE i \in DOMAIN Order : Order[i] = s

NewValidator ==
  [state |-> "unparsed", last |-> 0, ids |-> <<>>, types |-> NoTypes, data_count |-> <<>>]

\* Validator::reset keeps the type list.
Reset(v) == [NewValidator EXCEPT !.types = v.types]

\* The payload is the next one and the validator accepts it.
Accepted(s, valid) == status = "running" /\ validator.last < Position(s) /\ valid
After(s) == [validator EXCEPT !.last = Position(s)]

ValidRef(ty)   == ToSet(ty) \subseteq DOMAIN module.types
NumDefined(k, space) == Len(space) - module.num_imported[k]

(***************************************************************************)
(* Constant expressions.                                                   *)
(***************************************************************************)
ConstOps == {"I32Const", "GlobalGet", "RefNull", "RefFunc", "I32Add"}

\* from_wasmparser refuses an operator that is not a ConstOp ...
Unsupported(expr) == \E i \in DOMAIN expr : expr[i].op \notin ConstOps

\* ... and returns the functions named by ref.func.
EscapedIn(expr) ==
  LET refs == SelectSeq(expr, LAMBDA o : o.op = "RefFunc")
  IN  [i \in DOMAIN refs |-> refs[i].arg]

ValidExpr(expr) == ToSet(EscapedIn(expr)) \subseteq DOMAIN module.functions

\* Mutant: a function that escapes twice is numbered twice.
FlagFuncAsEscaped_Again(m, f) ==
  [m EXCEPT !.functions[f].func_ref = <<m.num_escaped>>, !.num_escaped = @ + 1]

FlagFuncAsEscaped(m, f) ==
  IF m.functions[f].func_ref # <<>> THEN m
  ELSE [m EXCEPT !.functions[f].func_ref = <<m.num_escaped>>, !.num_escaped = @ + 1]

FlagEscaped(m, expr) == FoldLeft(FlagFuncAsEscaped, m, EscapedIn(expr))

(***************************************************************************)
(* How a translation ends other than by End.  Only the validator survives. *)
(***************************************************************************)
Abandon(why, v) ==
  /\ status' = why
  /\ validator' = v
  /\ builder' = NewBuilder
  /\ module' = EmptyModule
  /\ source' = NothingDeclared
  /\ refusals' = refusals + 1
  /\ UNCHANGED begun

\* The handler has run: the translation goes on with module m.
Translated(v, m, section, content) ==
  /\ validator' = v
  /\ module' = m
  /\ source' = [source EXCEPT ![section] = content]
  /\ UNCHANGED <<builder, status, begun, refusals>>

(***************************************************************************)
(* The handlers.                                                           *)
(***************************************************************************)
Version ==
  /\ status # "running"
  /\ begun < MaxModules
  /\ begun' = begun + 1
  /\ validator.state = "unparsed"
  /\ validator' = [validator EXCEPT !.state = "module"]
  /\ builder' = NewBuilder
  /\ module' = EmptyModule
  /\ source' = NothingDeclared
  /\ status' = "running"
  /\ UNCHANGED refusals

\* The validator is still in the middle of a module.
VersionRefused ==
  /\ status # "running"
  /\ begun < MaxModules
  /\ begun' = begun + 1
  /\ validator.state # "unparsed"
  /\ status' = "version"
  /\ builder' = NewBuilder
  /\ module' = EmptyModule
  /\ source' = NothingDeclared
  /\ refusals' = refusals + 1
  /\ UNCHANGED validator

\* One round of the loop over the groups of the type section.
InternDeclared(acc, group) ==
  LET vt == acc.validator.types
      id == acc.validator.ids[acc.type_index]
      g  == RecGroupIdOf(vt, id)
      b  == InternRecGroup(Asserted(acc.builder, "position", RecGroupElements(vt, g)[1] = id), vt, g)
      elems == GroupElements(b, b.seen_rec_groups[g])
  IN  IF acc.builder.todo THEN acc
      ELSE IF b.todo THEN [acc EXCEPT !.builder = b]
      ELSE [acc EXCEPT !.builder = b, !.types = @ \o elems,
                       !.type_index = @ + Len(elems)]

TypeSection(groups) ==
  /\ Accepted("type", TRUE)
  /\ LET v   == DeclareGroups(After("type"), groups)
         acc == FoldLeft(InternDeclared,
                         [validator |-> v, builder |-> builder, types |-> <<>>, type_index |-> 1],
                         groups)
     IN  IF acc.builder.todo
         THEN Abandon("panic", v)
         ELSE /\ builder' = acc.builder
              /\ validator' = v
              /\ module' = [module EXCEPT !.types = acc.types]
              /\ source' = [source EXCEPT !["types"] = groups]
              /\ UNCHANGED <<status, begun, refusals>>

\* convert_ref_type of an optional concrete type index (none: an abstract type).
ConvertRefType(ty) == Map(LAMBDA i : LookupHeapType(builder, module.types[i]), ty)

DEFAULT_PAGE_SIZE_LOG2 == 16

FunctionDesc(signature) == [signature |-> signature, func_ref |-> <<>>]
TableDesc(t)  == [element_type |-> ConvertRefType(t.ty), minimum |-> t.min]
MemoryDesc(t) == [minimum |-> t.min,
                  page_size_log2 |-> IF t.page = <<>> THEN DEFAULT_PAGE_SIZE_LOG2 ELSE t.page[1]]
GlobalDesc(t) == [content_type |-> ConvertRefType(t.ty), mutable |-> t.mutable]

Space(kind) == CASE kind = "func" -> "functions" [] kind = "table" -> "tables"
                 [] kind = "memory" -> "memories" [] kind = "global" -> "globals"
Desc(kind, ty) == CASE kind = "func" -> FunctionDesc(ty) [] kind = "table" -> TableDesc(ty)
                    [] kind = "memory" -> MemoryDesc(ty) [] kind = "global" -> GlobalDesc(ty)

TranslateImport(m, import) ==
  LET desc == Desc(import.kind, import.ty)
      ty   == IF import.kind = "func" THEN module.types[import.ty] ELSE desc
  IN  [m EXCEPT !.num_imported[import.kind] = @ + 1,
                ![Space(import.kind)] = Append(@, desc),
                !.imports = Append(@, [name |-> import.name, kind |-> import.kind, ty |-> ty])]

ValidImport(import) ==
  CASE import.kind = "func" -> import.ty \in DOMAIN module.types
    [] import.kind \in {"table", "global"} -> ValidRef(import.ty.ty)
    [] import.kind = "memory" -> TRUE

ImportSection(imports) ==
  /\ Accepted("import", \A i \in DOMAIN imports : ValidImport(imports[i]))
  /\ Translated(After("import"), FoldLeft(TranslateImport, module, imports), "imports", imports)

FunctionSection(signatures) ==
  /\ Accepted("function", ToSet(signatures) \subseteq DOMAIN module.types)
  /\ Translated(After("function"),
                [module EXCEPT !.functions = @ \o Map(FunctionDesc, signatures)],
                "functions", signatures)

\* TableInit::RefNull, or an expression.
InitialValue(init) == IF init = <<>> THEN <<"RefNull">> ELSE init

TranslateTable(m, t) ==
  [FlagEscaped([m EXCEPT !.tables = Append(@, TableDesc(t))], IF t.init = <<>> THEN <<>> ELSE t.init[1])
     EXCEPT !.initial_values = @ \o InitialValue(t.init)]

TableSection(tables) ==
  /\ Accepted("table", \A i \in DOMAIN tables :
                         ValidRef(tables[i].ty) /\ \A e \in ToSet(tables[i].init) : ValidExpr(e))
  /\ IF \E i \in DOMAIN tables : \E e \in ToSet(tables[i].init) : Unsupported(e)
     THEN Abandon("unsupported", After("table"))
     ELSE Translated(After("table"), FoldLeft(TranslateTable, module, tables), "tables", tables)

MemorySection(memories) ==
  /\ Accepted("memory", TRUE)
  /\ Translated(After("memory"), [module EXCEPT !.memories = @ \o Map(MemoryDesc, memories)],
                "memories", memories)

\* parse_tag_section
TagSection ==
  /\ Accepted("tag", TRUE)
  /\ Abandon("unsupported", After("tag"))

TranslateGlobal(m, g) ==
  [FlagEscaped([m EXCEPT !.globals = Append(@, GlobalDesc(g))], g.init)
     EXCEPT !.global_initializers = Append(@, g.init)]

GlobalSection(globals) ==
  /\ Accepted("global", \A i \in DOMAIN globals :
                          ValidRef(globals[i].ty) /\ ValidExpr(globals[i].init))
  /\ IF \E i \in DOMAIN globals : Unsupported(globals[i].init)
     THEN Abandon("unsupported", After("global"))
     ELSE Translated(After("global"), FoldLeft(TranslateGlobal, module, globals), "globals", globals)

NamedSpace(kind) == IF kind = "func" THEN "funcs" ELSE Space(kind)

\* Exports name their entity, too; functions escape.
TranslateExport(m, export) ==
  [(IF export.kind = "func" THEN FlagFuncAsEscaped(m, export.index) ELSE m)
     EXCEPT !.names[NamedSpace(export.kind)] = export.index :> export.name @@ @,
            !.exports = export.name :> [kind |-> export.kind, index |-> export.index] @@ @]

ExportSection(exports) ==
  /\ Accepted("export", \A i \in DOMAIN exports :
                          exports[i].index \in DOMAIN module[Space(exports[i].kind)])
  /\ Translated(After("export"), FoldLeft(TranslateExport, module, exports), "exports", exports)

StartSection(func) ==
  /\ Accepted("start", func \in DOMAIN module.functions)
  /\ validator' = After("start")
  /\ module' = [module EXCEPT !.start = <<func>>]
  /\ UNCHANGED <<builder, source, status, begun, refusals>>

\* Mutant: segments are numbered among those of their kind.
ElemIndex_Active(m, i) == Cardinality(m.active_table) + 1

\* The index of the i-th element segment.
ElemIndex(m, i) == i

\* Items that are function indices are kept as they are; expressions flag what they name.
TranslateElement(m, i, element) ==
  LET flagged == FoldLeft(FlagEscaped, m, element.exprs)
      elements == [funcs |-> element.funcs, exprs |-> element.exprs]
      elem_index == ElemIndex(m, i)
  IN  CASE element.kind = "active" ->
             [flagged EXCEPT !.segments = Append(@, [table |-> element.table, offset |-> element.offset,
                                                     elements |-> elements]),
                             !.active_table = @ \cup {elem_index}]
        [] element.kind = "passive" ->
             [flagged EXCEPT !.passive_table = elem_index :> elements @@ @]
        [] element.kind = "declared" -> flagged

ValidElement(e) ==
  /\ \A x \in ToSet(e.exprs) : ValidExpr(x)
  /\ ToSet(e.funcs) \subseteq DOMAIN module.functions
  /\ e.kind = "active" => e.table \in DOMAIN module.tables /\ EscapedIn(e.offset) = <<>>

ElementSection(elements) ==
  /\ Accepted("element", \A i \in DOMAIN elements : ValidElement(elements[i]))
  /\ IF \E i \in DOMAIN elements : \E e \in ToSet(elements[i].exprs) \cup {elements[i].offset} : Unsupported(e)
     THEN Abandon("unsupported", After("element"))
     ELSE Translated(After("element"),
                     FoldLeft(LAMBDA m, i : TranslateElement(m, i, elements[i]),
                              module, [i \in DOMAIN elements |-> i]),
                     "elements", elements)

DataCountSection(count) ==
  /\ Accepted("datacount", TRUE)
  /\ validator' = [After("datacount") EXCEPT !.data_count = <<count>>]
  /\ UNCHANGED <<builder, module, source, status, begun, refusals>>

CodeSectionStart ==
  /\ Accepted("code", TRUE)
  /\ validator' = After("code")
  /\ module' = [module EXCEPT !.code_section = TRUE]
  /\ UNCHANGED <<builder, source, status, begun, refusals>>

\* The parser yields a body for each function the validator expects.
BodiesMissing == module.code_section /\ module.function_bodies < Len(source.functions)

CodeSectionEntry ==
  /\ status = "running"
  /\ BodiesMissing
  /\ module' = [module EXCEPT !.function_bodies = @ + 1]
  /\ UNCHANGED <<validator, builder, source, status, begun, refusals>>

TranslateData(m, i, data) ==
  IF data.active
  THEN [m EXCEPT !.memory_initializers = Append(@, [memory |-> data.memory, offset |-> data.offset,
                                                    data |-> data.bytes]),
                 !.active_memory = @ \cup {i}]
  ELSE [m EXCEPT !.passive_memory = i :> data.bytes @@ @]

DataSection(data) ==
  /\ Accepted("data",
       /\ ~BodiesMissing
       /\ validator.data_count \in {<<>>, <<Len(data)>>}
       /\ \A i \in DOMAIN data : data[i].active =>
            data[i].memory \in DOMAIN module.memories /\ EscapedIn(data[i].offset) = <<>>)
  /\ IF \E i \in DOMAIN data : Unsupported(data[i].offset)
     THEN Abandon("unsupported", After("data"))
     ELSE Translated(After("data"),
                     FoldLeft(LAMBDA m, i : TranslateData(m, i, data[i]),
                              module, [i \in DOMAIN data |-> i]),
                     "data", data)

(***************************************************************************)
(* Custom sections.  The validator does not look at their contents.        *)
(***************************************************************************)
\* A subsection of names is [kind, names]: names are <<index, name>>, or for
\* locals, labels and fields <<index, names>>; a malformed one is an error.
IndirectKind == {"locals", "labels", "fields"}

Named(names) == FoldLeft(LAMBDA f, n : n[1] :> n[2] @@ f, <<>>, names)

Existing(m, names) == SelectSeq(names, LAMBDA n : n[1] <= Len(m.functions))

\* Functions, locals and labels of functions that do not exist are skipped; for
\* fields the check is made on the field's own index.
KeptNames(m, sub) ==
  CASE sub.kind = "funcs" -> Existing(m, sub.names)
    [] sub.kind \in {"locals", "labels"} ->
         Map(LAMBDA n : <<n[1], Named(n[2])>>, Existing(m, sub.names))
    [] sub.kind = "fields" -> Map(LAMBDA n : <<n[1], Named(Existing(m, n[2]))>>, sub.names)
    [] OTHER -> sub.names

TranslateNames(m, sub) ==
  [m EXCEPT !.names[sub.kind] = Named(KeptNames(m, sub)) @@ @]

\* The section has been read into module m.
ReadCustom(section, m) == Translated(validator, m, "custom", Append(source.custom, section))

NameSection(section) ==
  IF \E i \in DOMAIN section.subs : section.subs[i].kind = "malformed"
  THEN Abandon("malformed", validator)
  ELSE ReadCustom(section, FoldLeft(TranslateNames, module, section.subs))

\* An unknown field of a producers section is unreachable!().
ProducerField == {"language", "processed-by", "sdk"}

ProducersSection(section) ==
  IF \E i \in DOMAIN section.fields : section.fields[i].field \notin ProducerField
  THEN Abandon("panic", validator)
  ELSE ReadCustom(section, [module EXCEPT !.producers = @ \o section.fields])

KnownFeature == {"atomics", "bulk-memory", "simd128"}

\* Any prefix but + fails an assertion; unknown features are dropped.
TargetFeatureSection(section) ==
  IF \E i \in DOMAIN section.features : section.features[i].prefix # "+"
  THEN Abandon("panic", validator)
  ELSE ReadCustom(section,
         [module EXCEPT !.required_features =
            {section.features[i].feature : i \in DOMAIN section.features} \cap KnownFeature])

DwarfField == {".debug_abbrev", ".debug_info", ".debug_line", ".debug_str"}
DebugField == {".debug_loc", ".debug_ranges"}

\* Each section starts from an empty gimli::Dwarf, which replaces the one before.
DwarfSection(section) ==
  ReadCustom(section,
    CASE section.name \in DwarfField -> [module EXCEPT !.dwarf = {section.name}]
      [] section.name \in DebugField ->
           [module EXCEPT !.dwarf = {}, !.debug = @ \cup {section.name}]
      [] OTHER -> module)

CustomSection(section) ==
  /\ status = "running" /\ ~BodiesMissing
  /\ Len(source.custom) < MaxCustom
  /\ \/ section.name = "name" /\ NameSection(section)
     \/ section.name = "producers" /\ ProducersSection(section)
     \/ section.name = "target_features" /\ TargetFeatureSection(section)
     \/ section.name \notin {"name", "producers", "target_features"} /\ DwarfSection(section)

\* A payload of the component model.
ComponentSection ==
  /\ status = "running" /\ validator.last = 0
  /\ Abandon("unsupported", validator)

\* The parser or the validator rejects what comes next.
Refused ==
  /\ status = "running"
  /\ Abandon("refused", validator)

\* Mutant: the validator stays at the end of the module.
Finish_Kept(v) == [v EXCEPT !.state = "end"]

\* translate, after the last payload.
Finish(v) == Reset(v)

EndOfModule ==
  /\ status = "running" /\ ~BodiesMissing
  /\ source.functions # <<>> => module.code_section
  /\ validator.data_count \in {<<>>, <<Len(source.data)>>}
  /\ validator' = Finish(validator)
  /\ builder' = Asserted(builder, "counts",
                         \A k \in Kind \ {"func"} : NumDefined(k, module[Space(k)]) >= 0)
  /\ status' = "ok"
  /\ UNCHANGED <<module, source, begun, refusals>>

\* The caller resets their validator after a failure (external).
CallerResets ==
  /\ status \notin {"running", "idle", "ok"}
  /\ validator.state # "unparsed"
  /\ validator' = Reset(validator)
  /\ status' = "idle"
  /\ refusals' = 0
  /\ UNCHANGED <<builder, module, source, begun>>

Init ==
  /\ validator = NewValidator
  /\ builder = NewBuilder
  /\ module = EmptyModule
  /\ source = NothingDeclared
  /\ status = "idle"
  /\ begun = 0
  /\ refusals = 0

Payload ==
  \/ \E s \in TypeSections : TypeSection(s)
  \/ \E s \in ImportSections : ImportSection(s)
  \/ \E s \in FunctionSections : FunctionSection(s)
  \/ \E s \in TableSections : TableSection(s)
  \/ \E s \in MemorySections : MemorySection(s)
  \/ TagSection
  \/ \E s \in GlobalSections : GlobalSection(s)
  \/ \E s \in ExportSections : ExportSection(s)
  \/ \E f \in StartFunctions : StartSection(f)
  \/ \E s \in ElementSections : ElementSection(s)
  \/ \E s \in DataSections : DataCountSection(Len(s))
  \/ CodeSectionStart
  \/ CodeSectionEntry
  \/ \E s \in DataSections : DataSection(s)
  \/ \E s \in CustomSections : CustomSection(s)
  \/ ComponentSection
  \/ EndOfModule

Next == Version \/ VersionRefused \/ Payload \/ Refused \/ CallerResets

Spec == Init /\ [][Next]_vars

(***************************************************************************)
(* Properties.                                                             *)
(***************************************************************************)
\* The index spaces, counts and type tables have their types, and every interned type
\* and every exported entity is in its table.
TypeOK ==
  /\ validator.state \in {"unparsed", "module", "end"}
  /\ status \in {"idle", "running", "ok", "refused", "unsupported", "malformed", "panic", "version"}
  /\ begun \in 0..MaxModules /\ refusals \in 0..MaxModules
  /\ ToSet(module.types) \subseteq DOMAIN builder.wasm_types
  /\ module.num_imported \in [Kind -> Nat] /\ module.num_escaped \in Nat
  /\ \A n \in DOMAIN module.exports :
       module.exports[n].index \in DOMAIN module[Space(module.exports[n].kind)]

\* A declared type with the references of the module replaced by interned ones.
Interned(d) ==
  MapSub(LAMBDA r : [kind |-> FlattenSeq(source.types)[r].kind, index |-> module.types[r]],
         LAMBDA r : module.types[r], d)

\* translate_type_section: whatever types this and earlier modules left in the
\* validator, every type index of the module names an interned type that is the
\* declared one, reference by reference.
TypesInternedFaithfully ==
  LET declared == FlattenSeq(source.types)
  IN  /\ Len(module.types) = Len(declared)
      /\ \A i \in DOMAIN declared : builder.wasm_types[module.types[i]] = Interned(declared[i])

\* The contents of interned group g with references into the group made relative.
GroupContents(g) ==
  LET r == builder.rec_groups[g]
      Rel(i) == IF i >= r.start THEN <<"rec", i - r.start>> ELSE <<"index", i>>
  IN  Map(LAMBDA i : MapSub(LAMBDA t : <<t.kind, Rel(t.index)>>, Rel, builder.wasm_types[i]),
          GroupElements(builder, g))

\* What TypeRegistry::register_module_types relies on: the recursion groups cut the
\* interned types into consecutive ranges, a group refers to itself and to earlier
\* groups only, and no two groups are equal.
RecGroupsPartition ==
  LET n == Len(builder.rec_groups)
  IN  /\ FlattenSeq([g \in 1..n |-> GroupElements(builder, g)])
           = [i \in DOMAIN builder.wasm_types |-> i]
      /\ \A g \in 1..n : \A i \in ToSet(GroupElements(builder, g)) :
           /\ \A t \in ToSet(TraceComposite(builder.wasm_types[i])) : t.index < builder.rec_groups[g].end
           /\ \A s \in ToSet(builder.wasm_types[i].super) : s < i
      /\ \A g, h \in 1..n : GroupContents(g) = GroupContents(h) => g = h

\* The functions that leave the module: exported, or named by a constant expression.
Escaping ==
  {e.index : e \in {x \in ToSet(source.exports) : x.kind = "func"}}
    \cup UNION {ToSet(EscapedIn(x)) :
                  x \in UNION {ToSet(t.init) : t \in ToSet(source.tables)}
                    \cup {g.init : g \in ToSet(source.globals)}
                    \cup UNION {ToSet(e.exprs) : e \in ToSet(source.elements)}}

\* flag_func_as_escaped: exactly the escaping functions have a func ref, however often
\* they escape, and the func refs number 0 .. num_escaped_functions - 1 without gaps:
\* the array of VMFuncRefs in the context has one slot for each.
EscapesNumbered ==
  LET flagged == {f \in DOMAIN module.functions : module.functions[f].func_ref # <<>>}
      refs    == {module.functions[f].func_ref[1] : f \in flagged}
  IN  /\ flagged = Escaping
      /\ refs = 0..(module.num_escaped - 1)
      /\ Cardinality(flagged) = module.num_escaped

ImportsOf(kind) == SelectSeq(source.imports, LAMBDA i : i.kind = kind)

\* The counts of imports delimit the index spaces: the entities below are the imports
\* of that kind in order, those above are defined and have one initial value,
\* initializer or body each; segment k of the active ones has the k-th active index.
IndexSpacesAligned ==
  /\ \A k \in Kind :
       /\ module.num_imported[k] = Len(ImportsOf(k))
       /\ \A i \in 1..Len(ImportsOf(k)) : k # "func" =>
            module[Space(k)][i] = Desc(k, ImportsOf(k)[i].ty)
  /\ Map(LAMBDA f : f.signature, module.functions)
       = Map(LAMBDA i : i.ty, ImportsOf("func")) \o source.functions
  /\ Len(module.initial_values) = NumDefined("table", module.tables)
  /\ Len(module.global_initializers) = NumDefined("global", module.globals)
  /\ status = "ok" => module.function_bodies = NumDefined("func", module.functions)
  /\ module.active_table = {i \in DOMAIN source.elements : source.elements[i].kind = "active"}
  /\ DOMAIN module.passive_table = {i \in DOMAIN source.elements : source.elements[i].kind = "passive"}
  /\ Len(module.segments) = Cardinality(module.active_table)
  /\ module.active_memory \cup DOMAIN module.passive_memory = DOMAIN source.data

\* translate: the version header of a module is refused only when an earlier
\* translation with this validator failed; accepted modules leave it ready.
AcceptedLeavesReady ==
  /\ status = "version" => refusals > 1
  /\ status # "running" /\ refusals = 0 => validator.state = "unparsed"

\* The assertions of module_types.rs and of translate hold.
AssertionsHold == builder.bad = {}
=============================================================================
