----------------------------- MODULE LoadSteps ------------------------------
(***************************************************************************)
(* Proofs about ModuleLoad, for any modules, number of loads and threads,  *)
(* page size and address space, from what linking promises (LinkContract): *)
(* an inductive invariant, and that compiling, linking, mapping and        *)
(* publishing keep it.                                                     *)
(***************************************************************************)
EXTENDS ModuleLoad, LinkContract, SequenceTheorems, FiniteSetTheorems, TLAPS

-----------------------------------------------------------------------------
(* The invariant.                                                          *)

Output == [key : Key, from : SUBSET Key]

\* The contract of compiling and linking, for the modules that are loaded.
ModulesLink == \A m \in Modules : Contract(m)

\* The mapping of a text.
Backed(r) ==
  IF r.linked.text = <<>> THEN r.map = <<>>
  ELSE /\ r.map = <<r.map[1]>>
       /\ r.map[1] \in [base : Nat, len : Nat, prot : {"rw", "rx"}]
       /\ Len(r.linked.text) < r.map[1].len
       /\ r.map[1].base + r.map[1].len <= (Pages + 1) * PageSize

IsRecord(r) ==
  r = [status |-> r.status, module |-> r.module, jobs |-> r.jobs, builtins |-> r.builtins,
       ctx |-> r.ctx, outputs |-> r.outputs, linked |-> r.linked, types |-> r.types,
       map |-> r.map]

\* A load that has not begun, or that ended without a module.
IsIdle(r) ==
  /\ r.status \in {"unused", "failed", "oom"}
  /\ r = [Unused EXCEPT !.status = r.status]

\* A load that compiles: what is compiled and what is left are together the jobs of
\* the module.
IsCompiling(r) ==
  /\ r.status \in {"compiling", "building"}
  /\ r.module \in Modules
  /\ r.jobs \in Seq(Key)
  /\ r.builtins \in BOOLEAN
  /\ r.outputs \in Seq(Output)
  /\ \A i \in DOMAIN r.outputs : r.outputs[i].from = {r.outputs[i].key}
  /\ ToSet(Keys(r.outputs)) \cup ToSet(r.jobs) =
       FunctionKeys(r.module) \cup TrampolineKeys(r.module)
         \cup (IF r.builtins THEN Needed(r.module) ELSE {})
  /\ r.ctx = IF r.status = "building" THEN <<[func |-> {Head(r.jobs)}, builder |-> {}]>> ELSE <<>>
  /\ r.status = "building" => r.jobs # <<>>
  /\ r.linked = NoText /\ r.types = FALSE /\ r.map = <<>>

\* A load whose outputs are linked.
IsLinked(r) ==
  /\ r.status \in {"linked", "typed", "mapped", "published", "loaded", "dropped"}
  /\ r.module \in Modules
  /\ r.ctx = <<>> /\ r.outputs = <<>>
  /\ WellLinked(r.module, r.linked)
  /\ r.types = (r.status \notin {"linked", "dropped"})
  /\ r.status \in {"linked", "typed"} => r.map = <<>>
  /\ r.status \notin {"linked", "typed"} => Backed(r)
  /\ r.status \in {"published", "loaded", "dropped"} /\ r.map # <<>> => r.map[1].prot = "rx"

IsLoad(r) == IsRecord(r) /\ (IsIdle(r) \/ IsCompiling(r) \/ IsLinked(r))

LoadsOK == load = [l \in Loads |-> load[l]] /\ \A l \in Loads : IsLoad(load[l])

\* Contexts: those in the pool and those in use are no more than the threads.
InUse == {l \in Loads : load[l].ctx # <<>>}
Active == {l \in Loads : Running(l)}

ContextsOK ==
  /\ pool \in Seq({CompilationContext})
  /\ Cardinality(Active) <= MaxThreads
  /\ Len(pool) + Cardinality(InUse) <= MaxThreads

\* No two mappings overlap.
Apart == \A k, l \in Loads : k # l => Mapped(k) \cap Mapped(l) = {}

\* The registry has the regions of the loaded modules, also after they are dropped.
Registered == {l \in Loads : load[l].status \in {"loaded", "dropped"} /\ TextLen(l) > 0}
LastByte(l) == Base(l) + TextLen(l) - 1

RegistryOK ==
  /\ DOMAIN registry = {LastByte(l) : l \in Registered}
  /\ \A l \in Registered : registry[LastByte(l)] = [start |-> Base(l), code |-> l]

Inv == LoadsOK /\ ContextsOK /\ Apart /\ RegistryOK

-----------------------------------------------------------------------------
(* Steps.                                                                  *)

Ended == {"unused", "loaded", "dropped", "failed", "panicked", "oom"}

\* The addresses of the mapping of a load, where its text starts, and whether it is in the
\* registry.
Span(r) == IF r.map = <<>> THEN {} ELSE r.map[1].base .. r.map[1].base + r.map[1].len - 1
Start(r) == IF r.map = <<>> THEN 0 ELSE r.map[1].base
InRegistry(r) == r.status \in {"loaded", "dropped"} /\ Len(r.linked.text) > 0

\* The same parts of the state, seen through the loads.
LEMMA Views ==
  /\ \A l \in Loads : Mapped(l) = Span(load[l]) /\ Base(l) = Start(load[l])
                      /\ TextLen(l) = Len(load[l].linked.text)
                      /\ (Running(l) <=> load[l].status \notin Ended)
  /\ Registered = {l \in Loads : InRegistry(load[l])}
  BY DEF Mapped, Span, Base, Start, TextLen, Registered, InRegistry, Running, Ended

\* A step replaces the record of one load.
Step(l, r) ==
  /\ l \in Loads
  /\ load = [k \in Loads |-> load[k]]
  /\ load' = [load EXCEPT ![l] = r]

\* Such a step leaves the other loads as they are.
LEMMA OthersStay ==
  ASSUME NEW l, NEW r, Step(l, r)
  PROVE  /\ load' = [k \in Loads |-> load'[k]]
         /\ load'[l] = r
         /\ \A k \in Loads : k # l => load'[k] = load[k]
  BY DEF Step

\* The loads stay well formed when the one that changes does.
LEMMA StepsLoadsOK ==
  ASSUME NEW l, NEW r, Step(l, r), LoadsOK, IsLoad(r)
  PROVE  LoadsOK'
<1>1. \A k \in Loads : IsLoad(load'[k])
  BY OthersStay DEF LoadsOK
<1> QED BY <1>1, OthersStay DEF LoadsOK

\* A step that registers nothing keeps the registry in agreement with the loads.
LEMMA RegistryStays ==
  ASSUME NEW l, NEW r, Step(l, r), RegistryOK, registry' = registry,
         InRegistry(r) <=> InRegistry(load[l]),
         InRegistry(r) => Start(r) = Start(load[l]) /\ r.linked.text = load[l].linked.text
  PROVE  RegistryOK'
<1>1. /\ load'[l] = r
      /\ \A k \in Loads : k # l => load'[k] = load[k]
  BY OthersStay
<1>5. Registered = {k \in Loads : InRegistry(load[k])} /\ Registered' = {k \in Loads : InRegistry(load'[k])}
  BY DEF Registered, InRegistry, TextLen
<1>6. Registered' = Registered
  BY <1>1, <1>5
<1>7. ASSUME NEW k \in Registered PROVE Base(k)' = Base(k) /\ LastByte(k)' = LastByte(k)
  <2>1. k \in Loads /\ InRegistry(load[k])
    BY <1>5
  <2>2. Start(load'[k]) = Start(load[k]) /\ load'[k].linked.text = load[k].linked.text
    BY <1>1, <2>1
  <2> QED BY <2>2 DEF Base, Start, LastByte, TextLen
<1>8. DOMAIN registry = {LastByte(k)' : k \in Registered}
  BY <1>7 DEF RegistryOK
<1>9. \A k \in Registered : registry[LastByte(k)'] = [start |-> Base(k)', code |-> k]
  BY <1>7 DEF RegistryOK
<1> QED BY <1>6, <1>8, <1>9 DEF RegistryOK

\* Mappings stay apart when a step maps nothing outside of what the load has mapped, or
\* only what is free.
LEMMA StaysApart ==
  ASSUME NEW l, NEW r, Step(l, r), Apart,
         Span(r) \subseteq Span(load[l]) \/ \A k \in Loads : Span(r) \cap Mapped(k) = {}
  PROVE  Apart'
<1>1. /\ load'[l] = r
      /\ \A k \in Loads : k # l => load'[k] = load[k]
  BY OthersStay
<1>2. \A k \in Loads : Mapped(k) = Span(load[k]) /\ Mapped(k)' = Span(load'[k])
  BY DEF Mapped, Span
<1>3. ASSUME NEW j \in Loads, NEW k \in Loads, j # k PROVE Mapped(j)' \cap Mapped(k)' = {}
  <2>1. Mapped(j) \cap Mapped(k) = {}
    BY <1>3 DEF Apart
  <2>2. CASE j = l
    <3>1. Mapped(j)' = Span(r) /\ Mapped(k)' = Mapped(k) /\ Mapped(j) = Span(load[l])
      BY <1>1, <1>2, <1>3, <2>2
    <3> QED BY <2>1, <3>1
  <2>3. CASE k = l
    <3>1. Mapped(k)' = Span(r) /\ Mapped(j)' = Mapped(j) /\ Mapped(k) = Span(load[l])
      BY <1>1, <1>2, <1>3, <2>3
    <3> QED BY <2>1, <3>1
  <2>4. CASE j # l /\ k # l
    <3>1. Mapped(k)' = Mapped(k) /\ Mapped(j)' = Mapped(j)
      BY <1>1, <1>2, <2>4
    <3> QED BY <2>1, <3>1
  <2> QED BY <2>2, <2>3, <2>4
<1> QED BY <1>3 DEF Apart

\* Both hold of a step that maps nothing and registers nothing.
LEMMA Quiet ==
  ASSUME NEW l, NEW r, Step(l, r), Apart, RegistryOK, registry' = registry,
         Span(r) \subseteq Span(load[l]),
         InRegistry(r) <=> InRegistry(load[l]),
         InRegistry(r) => Start(r) = Start(load[l]) /\ r.linked.text = load[l].linked.text
  PROVE  Apart' /\ RegistryOK'
  BY StaysApart, RegistryStays

\* Loads are finitely many.
LEMMA Finite ==
  /\ IsFiniteSet(Active) /\ IsFiniteSet(InUse)
  /\ Cardinality(Active) \in Nat /\ Cardinality(InUse) \in Nat
<1>1. MaxLoads \in Nat
  BY LoadConstants
<1>2. IsFiniteSet(Loads)
  BY <1>1, FS_Interval DEF Loads
<1>3. Active \subseteq Loads /\ InUse \subseteq Loads
  BY DEF Active, InUse
<1>4. IsFiniteSet(Active) /\ IsFiniteSet(InUse)
  BY <1>2, <1>3, FS_Subset
<1> QED BY <1>4, FS_CardinalityType

\* A step that begins nothing and takes no context keeps the bound on contexts.
LEMMA NoMoreContexts ==
  ASSUME NEW l, NEW r, Step(l, r), ContextsOK, pool' = pool,
         r.status \notin Ended => load[l].status \notin Ended,
         r.ctx # <<>> => load[l].ctx # <<>>
  PROVE  ContextsOK'
<1>1. /\ load'[l] = r
      /\ \A k \in Loads : k # l => load'[k] = load[k]
  BY OthersStay
<1>2. Active' \subseteq Active
  BY <1>1 DEF Active, Running, Ended
<1>3. InUse' \subseteq InUse
  BY <1>1 DEF InUse
<1>4. /\ Cardinality(Active') <= Cardinality(Active) /\ Cardinality(Active') \in Nat
      /\ Cardinality(InUse') <= Cardinality(InUse) /\ Cardinality(InUse') \in Nat
  <2>1. IsFiniteSet(Active') /\ IsFiniteSet(InUse')
    BY <1>2, <1>3, Finite, FS_Subset
  <2> QED BY <1>2, <1>3, <2>1, Finite, FS_Subset, FS_CardinalityType
<1>5. Len(pool) \in Nat /\ MaxThreads \in Nat
  BY LoadConstants DEF ContextsOK
<1> QED BY <1>4, <1>5, Finite DEF ContextsOK

-----------------------------------------------------------------------------
(* Compiling.                                                              *)

\* A load that ends without a module: an error returned by from_bytes, on which it drops
\* what it owns.
LEMMA EndsOK ==
  ASSUME Inv, NEW l \in Loads, NEW status \in {"failed", "oom"}, Ends(l, status),
         load[l].status \notin {"loaded", "dropped"}, pool' = pool, registry' = registry
  PROVE  Inv'
<1>1. PICK r : r = [Unused EXCEPT !.status = status]
  OBVIOUS
<1>2. r.status = status /\ r.map = <<>> /\ r.ctx = <<>> /\ IsRecord(r)
  BY <1>1 DEF Unused, IsRecord
<1>3. Step(l, r)
  BY <1>1 DEF Ends, Inv, LoadsOK, Step
<1>4. IsLoad(r)
  BY <1>1, <1>2 DEF IsLoad, IsIdle
<1>5. r.status \in Ended /\ Span(r) = {} /\ ~InRegistry(r) /\ ~InRegistry(load[l])
  BY <1>2 DEF Ended, Span, InRegistry
<1>6. LoadsOK'
  BY <1>3, <1>4, StepsLoadsOK DEF Inv
<1>7. Apart' /\ RegistryOK'
  BY <1>3, <1>5, Quiet DEF Inv
<1>8. ContextsOK'
  BY <1>2, <1>3, <1>5, NoMoreContexts DEF Inv
<1> QED BY <1>6, <1>7, <1>8 DEF Inv

\* from_bytes begins: from_module starts the jobs of the functions and trampolines.
LEMMA BeginOK ==
  ASSUME ModulesLink, Inv, NEW l \in Loads, NEW m \in Modules, Begin(l, m)
  PROVE  Inv'
<1>1. PICK r : r = [Unused EXCEPT !.status = "compiling", !.module = m, !.jobs = FromModule(m)]
  OBVIOUS
<1>2. r = [status |-> "compiling", module |-> m, jobs |-> FromModule(m), builtins |-> FALSE,
           ctx |-> <<>>, outputs |-> <<>>, linked |-> NoText, types |-> FALSE, map |-> <<>>]
  BY <1>1 DEF Unused
<1>3. /\ r.status = "compiling" /\ r.module = m /\ r.jobs = FromModule(m) /\ r.builtins = FALSE
      /\ r.ctx = <<>> /\ r.outputs = <<>> /\ r.linked = NoText /\ r.types = FALSE /\ r.map = <<>>
      /\ IsRecord(r)
  BY <1>2 DEF IsRecord
<1>4. Step(l, r)
  BY <1>1 DEF Begin, Inv, LoadsOK, Step
<1>5. IsLoad(r)
  <2>2. FromModule(m) \in Seq(Key) /\ ToSet(FromModule(m)) = FunctionKeys(m) \cup TrampolineKeys(m)
    BY DEF ModulesLink, Contract, StartsJobs
  <2>3. <<>> \in Seq(Output) /\ DOMAIN <<>> = {} /\ ToSet(Keys(<<>>)) = {}
    BY DEF Keys, ToSet
  <2>4. IsCompiling(r)
    BY <1>3, <2>2, <2>3 DEF IsCompiling
  <2> QED BY <1>3, <2>4 DEF IsLoad
<1>6. load[l].status = "unused"
  BY DEF Begin
<1>7. Apart' /\ RegistryOK'
  <2>1. Span(r) = {} /\ ~InRegistry(r) /\ ~InRegistry(load[l])
    BY <1>3, <1>6 DEF Span, InRegistry
  <2> QED BY <1>4, <2>1, Quiet DEF Inv, Begin
<1>8. ContextsOK'
  <2>1. load'[l] = r /\ \A k \in Loads : k # l => load'[k] = load[k]
    BY <1>4, OthersStay
  <2>2. Active' \subseteq Active \cup {l}
    BY <2>1 DEF Active, Running
  <2>3. InUse' \subseteq InUse
    BY <1>3, <2>1 DEF InUse
  <2>4. Cardinality(Active \cup {l}) <= Cardinality(Active) + 1 /\ IsFiniteSet(Active \cup {l})
        /\ Cardinality(Active \cup {l}) \in Nat
    <3>1. IsFiniteSet(Active \cup {l})
          /\ Cardinality(Active \cup {l}) = IF l \in Active THEN Cardinality(Active) ELSE Cardinality(Active) + 1
      BY Finite, FS_AddElement
    <3> QED BY <3>1, Finite
  <2>5. Cardinality(Active') <= Cardinality(Active \cup {l}) /\ IsFiniteSet(Active')
    BY <2>2, <2>4, FS_Subset
  <2>6. Cardinality(InUse') <= Cardinality(InUse) /\ IsFiniteSet(InUse')
    BY <2>3, Finite, FS_Subset
  <2>7. Cardinality(Active') \in Nat /\ Cardinality(InUse') \in Nat
    BY <2>5, <2>6, FS_CardinalityType
  <2>8. Cardinality(Active) < MaxThreads /\ pool' = pool
    BY DEF Begin, Active
  <2>9. Len(pool) \in Nat /\ MaxThreads \in Nat
    BY LoadConstants DEF ContextsOK, Inv
  <2> QED BY <2>4, <2>5, <2>6, <2>7, <2>8, <2>9, Finite DEF ContextsOK, Inv
<1>9. LoadsOK'
  BY <1>4, <1>5, StepsLoadsOK DEF Inv
<1> QED BY <1>7, <1>8, <1>9 DEF Inv

\* What is known of a load by its status.
LEMMA Phases ==
  ASSUME Inv, NEW l \in Loads
  PROVE  /\ load[l].status \in {"compiling", "building"} => IsRecord(load[l]) /\ IsCompiling(load[l])
         /\ load[l].status \in {"linked", "typed", "mapped", "published", "loaded", "dropped"} =>
              IsRecord(load[l]) /\ IsLinked(load[l])
  BY DEF Inv, LoadsOK, IsLoad, IsIdle, IsCompiling, IsLinked

\* function_compiler takes a context that holds nothing, whether it comes from the pool or
\* is new.
LEMMA CleanContext ==
  ASSUME ContextsOK
  PROVE  /\ FunctionCompiler.ctx = CompilationContext
         /\ FunctionCompiler.pool \in Seq({CompilationContext})
         /\ pool = <<>> => Len(FunctionCompiler.pool) = 0
         /\ pool # <<>> => Len(FunctionCompiler.pool) = Len(pool) - 1
<1>1. pool \in Seq({CompilationContext})
  BY DEF ContextsOK
<1>2. CASE pool = <<>>
  BY <1>1, <1>2 DEF FunctionCompiler
<1>3. CASE pool # <<>>
  <2>1. Last(pool) = CompilationContext
    BY <1>1, <1>3 DEF Last
  <2>2. Front(pool) \in Seq({CompilationContext}) /\ Len(Front(pool)) = Len(pool) - 1
    <3>1. Front(pool) = SubSeq(pool, 1, Len(pool) - 1)
      BY DEF Front
    <3>2. PICK n \in Nat : n = Len(pool) /\ n # 0 /\ \A i \in 1 .. n : pool[i] \in {CompilationContext}
      BY <1>1, <1>3
    <3>3. 1 \in Int /\ n - 1 \in Int /\ \A i \in 1 .. n - 1 : pool[i] \in {CompilationContext}
      BY <3>2
    <3>4. /\ SubSeq(pool, 1, n - 1) \in Seq({CompilationContext})
          /\ Len(SubSeq(pool, 1, n - 1)) = IF 1 <= n - 1 THEN n - 1 - 1 + 1 ELSE 0
      BY <3>3, SubSeqProperties
    <3> QED BY <3>1, <3>2, <3>4
  <2>3. [CompilationContext EXCEPT !.func = {}] = CompilationContext
    BY DEF CompilationContext
  <2> QED BY <1>3, <2>1, <2>2, <2>3 DEF FunctionCompiler
<1> QED BY <1>2, <1>3

\* A job takes a context and builds its function in it.
LEMMA StartJobOK ==
  ASSUME Inv, NEW l \in Loads, StartJob(l)
  PROVE  Inv'
<1>1. PICK old : old = load[l]
  OBVIOUS
<1>2. IsRecord(old) /\ IsCompiling(old) /\ old.status = "compiling" /\ old.jobs # <<>>
  BY <1>1, Phases DEF StartJob
<1>3. PICK key : key = Head(old.jobs)
  OBVIOUS
<1>4. PICK ctx : ctx = <<[func |-> {key}, builder |-> {}]>>
  OBVIOUS
<1>5. PICK r : r = [old EXCEPT !.status = "building", !.ctx = ctx]
  OBVIOUS
<1>6. FunctionCompiler.ctx = CompilationContext /\ FunctionCompiler.ctx.func = {}
  BY CleanContext DEF Inv, CompilationContext
<1>7. load' = [load EXCEPT ![l] = r] /\ pool' = FunctionCompiler.pool /\ registry' = registry
  <2>1. [CompilationContext EXCEPT !.func = {} \cup {key}] = [func |-> {key}, builder |-> {}]
    BY DEF CompilationContext
  <2>2. (IF key.kind = WASM_FUNCTION_KIND THEN FunctionCompiler.ctx.func ELSE {}) = {}
    BY <1>6
  <2>3. load' = [load EXCEPT ![l].status = "building", ![l].ctx = ctx]
    BY <1>1, <1>3, <1>4, <1>6, <2>1, <2>2 DEF StartJob
  <2>4. load = [k \in Loads |-> load[k]]
    BY DEF Inv, LoadsOK
  <2> QED BY <1>1, <1>5, <2>3, <2>4 DEF StartJob
<1>8. Step(l, r)
  BY <1>7 DEF Inv, LoadsOK, Step
<1>9. r = [status |-> "building", module |-> old.module, jobs |-> old.jobs, builtins |-> old.builtins,
           ctx |-> ctx, outputs |-> old.outputs, linked |-> old.linked, types |-> old.types, map |-> old.map]
  BY <1>2, <1>5 DEF IsRecord
<1>10. /\ r.status = "building" /\ r.module = old.module /\ r.jobs = old.jobs
       /\ r.builtins = old.builtins /\ r.ctx = ctx /\ r.outputs = old.outputs
       /\ r.linked = old.linked /\ r.types = old.types /\ r.map = old.map /\ IsRecord(r)
  BY <1>9 DEF IsRecord
<1>11. IsLoad(r)
  <2>1. IsCompiling(r)
    BY <1>2, <1>3, <1>4, <1>10 DEF IsCompiling
  <2> QED BY <1>10, <2>1 DEF IsLoad
<1>12. LoadsOK'
  BY <1>8, <1>11, StepsLoadsOK DEF Inv
<1>13. Apart' /\ RegistryOK'
  <2>1. Span(r) = Span(load[l]) /\ ~InRegistry(r) /\ ~InRegistry(load[l])
    BY <1>1, <1>2, <1>10 DEF Span, InRegistry
  <2> QED BY <1>7, <1>8, <2>1, Quiet DEF Inv
<1>14. ContextsOK'
  <2>1. load'[l] = r /\ \A k \in Loads : k # l => load'[k] = load[k]
    BY <1>8, OthersStay
  <2>2. Active' = Active /\ l \in Active
    BY <1>1, <1>2, <1>10, <2>1 DEF Active, Running
  <2>3. InUse' = InUse \cup {l} /\ l \notin InUse
    <3>1. r.ctx # <<>> /\ load[l].ctx = <<>>
      BY <1>1, <1>2, <1>4, <1>10 DEF IsCompiling
    <3> QED BY <2>1, <3>1 DEF InUse
  <2>4. Cardinality(InUse') = Cardinality(InUse) + 1
    BY <2>3, Finite, FS_AddElement
  <2>5. pool' \in Seq({CompilationContext})
    BY <1>7, CleanContext DEF Inv
  <2>6. Len(pool) \in Nat /\ MaxThreads \in Nat
    BY LoadConstants DEF ContextsOK, Inv
  <2>7. Len(pool') + Cardinality(InUse') <= MaxThreads
    <3>1. CASE pool = <<>>
      <4>1. Len(pool') = 0
        BY <1>7, <3>1, CleanContext DEF Inv
      <4>2. InUse' \subseteq Active
        <5>1. ASSUME NEW k \in InUse PROVE k \in Active
          <6>1. k \in Loads /\ load[k].ctx # <<>>
            BY DEF InUse
          <6>2. IsLoad(load[k])
            BY <6>1 DEF Inv, LoadsOK
          <6>3. IsCompiling(load[k])
            <7>1. ~IsIdle(load[k])
              BY <6>1 DEF IsIdle, Unused
            <7>2. ~IsLinked(load[k])
              BY <6>1 DEF IsLinked
            <7> QED BY <6>2, <7>1, <7>2 DEF IsLoad
          <6> QED BY <6>1, <6>3 DEF IsCompiling, Active, Running
        <5> QED BY <2>2, <2>3, <5>1
      <4>3. Cardinality(InUse') <= Cardinality(Active)
        BY <4>2, Finite, FS_Subset
      <4> QED BY <2>4, <2>6, <4>1, <4>3, Finite DEF Inv, ContextsOK
    <3>2. CASE pool # <<>>
      <4>1. Len(pool') = Len(pool) - 1
        BY <1>7, <3>2, CleanContext DEF Inv
      <4> QED BY <2>4, <2>6, <4>1, Finite DEF Inv, ContextsOK
    <3> QED BY <3>1, <3>2
  <2> QED BY <2>2, <2>5, <2>7 DEF Inv, ContextsOK
<1> QED BY <1>12, <1>13, <1>14 DEF Inv

\* The keys of outputs are keys of jobs.
LEMMA KeysOfOutputs ==
  ASSUME NEW outputs \in Seq(Output)
  PROVE  Keys(outputs) \in Seq(Key) /\ ToSet(Keys(outputs)) = {x.key : x \in ToSet(outputs)}
<1>1. PICK n \in Nat : n = Len(outputs) /\ DOMAIN outputs = 1 .. n
  OBVIOUS
<1>2. \A i \in 1 .. n : outputs[i].key \in Key
  <2>1. \A i \in 1 .. n : outputs[i] \in Output
    BY <1>1
  <2> QED BY <2>1 DEF Output
<1>3. Keys(outputs) = [i \in 1 .. n |-> outputs[i].key]
  BY <1>1 DEF Keys
<1>4. Keys(outputs) \in [1 .. n -> Key]
  BY <1>2, <1>3
<1>5. Keys(outputs) \in Seq(Key)
  BY <1>4
<1>6. ToSet(Keys(outputs)) = {outputs[i].key : i \in 1 .. n}
  BY <1>3 DEF ToSet
<1>7. ToSet(outputs) = {outputs[i] : i \in 1 .. n}
  BY <1>1 DEF ToSet
<1>8. {outputs[i].key : i \in 1 .. n} = {x.key : x \in {outputs[i] : i \in 1 .. n}}
  OBVIOUS
<1> QED BY <1>5, <1>6, <1>7, <1>8

\* One output more.
OneMore(outputs, output, more) ==
  /\ more \in Seq(Output)
  /\ ToSet(Keys(more)) = ToSet(Keys(outputs)) \cup {output.key}
  /\ \A i \in DOMAIN more : more[i] = output \/ \E k \in DOMAIN outputs : more[i] = outputs[k]

\* That is so for an output that is appended.
LEMMA KeysOfMore ==
  ASSUME NEW outputs \in Seq(Output), NEW output \in Output, NEW more, more = Append(outputs, output)
  PROVE  OneMore(outputs, output, more)
<1>1. more \in Seq(Output) /\ ToSet(more) = ToSet(outputs) \cup {output}
  <2>1. PICK n \in Nat : n = Len(outputs) /\ DOMAIN outputs = 1 .. n
    OBVIOUS
  <2>2. /\ more \in Seq(Output) /\ Len(more) = n + 1 /\ more[n + 1] = output
        /\ \A i \in 1 .. n : more[i] = outputs[i]
    BY <2>1, AppendProperties
  <2>3. DOMAIN more = 1 .. n + 1
    BY <2>2, LenProperties
  <2>4. \A x : x \in ToSet(more) <=> x = output \/ x \in ToSet(outputs)
    <3>1. \A i \in 1 .. n + 1 : i = n + 1 \/ i \in 1 .. n
      OBVIOUS
    <3>2. n + 1 \in 1 .. n + 1 /\ \A i \in 1 .. n : i \in 1 .. n + 1
      OBVIOUS
    <3> QED BY <2>1, <2>2, <2>3, <3>1, <3>2 DEF ToSet
  <2> QED BY <2>2, <2>4
<1>2. ToSet(Keys(more)) = {x.key : x \in ToSet(more)} /\ ToSet(Keys(outputs)) = {x.key : x \in ToSet(outputs)}
  <2>1. \A s \in Seq(Output) : ToSet(Keys(s)) = {x.key : x \in ToSet(s)}
    BY KeysOfOutputs
  <2> QED BY ONLY <1>1, <2>1, outputs \in Seq(Output)
<1>3. \A i \in DOMAIN more : more[i] \in ToSet(outputs) \cup {output}
  BY <1>1 DEF ToSet
<1>4. \A i \in DOMAIN more : more[i] = output \/ \E k \in DOMAIN outputs : more[i] = outputs[k]
  BY <1>3 DEF ToSet
<1>5. {x.key : x \in ToSet(outputs) \cup {output}} = {x.key : x \in ToSet(outputs)} \cup {output.key}
  OBVIOUS
<1> QED BY <1>1, <1>2, <1>4, <1>5 DEF OneMore

\* The jobs without the first one.
LEMMA JobsLeft ==
  ASSUME NEW jobs \in Seq(Key), jobs # <<>>
  PROVE  Head(jobs) \in Key /\ Tail(jobs) \in Seq(Key) /\ ToSet(jobs) = {Head(jobs)} \cup ToSet(Tail(jobs))
<1>1. PICK n \in Nat : n = Len(jobs) /\ DOMAIN jobs = 1 .. n /\ n # 0
  OBVIOUS
<1>2. PICK rest : rest = Tail(jobs)
  OBVIOUS
<1>3. /\ Head(jobs) \in Key /\ rest \in Seq(Key) /\ Len(rest) = n - 1
      /\ \A i \in 1 .. n - 1 : rest[i] = jobs[i + 1]
  BY <1>1, <1>2, HeadTailProperties
<1>4. DOMAIN rest = 1 .. n - 1
  BY <1>3, LenProperties
<1>5. Head(jobs) = jobs[1]
  BY <1>1
<1>6. ToSet(jobs) \subseteq {Head(jobs)} \cup ToSet(rest)
  <2> SUFFICES ASSUME NEW i \in 1 .. n PROVE jobs[i] = Head(jobs) \/ jobs[i] \in ToSet(rest)
    BY <1>1 DEF ToSet
  <2>1. CASE i = 1
    BY <1>5, <2>1
  <2>2. CASE i # 1
    <3>1. i - 1 \in 1 .. n - 1 /\ (i - 1) + 1 = i
      BY <2>2
    <3>2. jobs[i] = rest[i - 1]
      BY <1>3, <3>1
    <3> QED BY <1>4, <3>1, <3>2 DEF ToSet
  <2> QED BY <2>1, <2>2
<1>7. ToSet(rest) \subseteq ToSet(jobs)
  <2> SUFFICES ASSUME NEW i \in 1 .. n - 1 PROVE rest[i] \in ToSet(jobs)
    BY <1>4 DEF ToSet
  <2>1. i + 1 \in 1 .. n
    BY <1>1
  <2> QED BY <1>1, <1>3, <2>1 DEF ToSet
<1>8. Head(jobs) \in ToSet(jobs)
  <2>1. 1 \in DOMAIN jobs
    BY <1>1
  <2> QED BY <1>5, <2>1 DEF ToSet
<1> QED BY <1>2, <1>3, <1>6, <1>7, <1>8

\* FunctionCompiler::finish adds the output of the job and returns the context.
LEMMA FinishOK ==
  ASSUME Inv, NEW l \in Loads, Finish(l)
  PROVE  Inv'
<1>1. PICK old : old = load[l]
  OBVIOUS
<1>2. IsRecord(old) /\ IsCompiling(old) /\ old.status = "building"
  BY <1>1, Phases DEF Finish
<1>3. PICK key : key = Head(old.jobs)
  OBVIOUS
<1>4. /\ old.jobs \in Seq(Key) /\ old.jobs # <<>>
      /\ old.ctx = <<[func |-> {key}, builder |-> {}]>>
      /\ old.outputs \in Seq(Output)
  BY <1>2, <1>3 DEF IsCompiling
<1>5. old.ctx[1].func = {key} /\ [old.ctx[1] EXCEPT !.func = {}] = CompilationContext
  <2>1. PICK c : c = [func |-> {key}, builder |-> {}]
    OBVIOUS
  <2>2. old.ctx[1] = c
    BY <1>4, <2>1
  <2>3. c.func = {key} /\ [c EXCEPT !.func = {}] = CompilationContext
    BY <2>1 DEF CompilationContext
  <2> QED BY <2>2, <2>3
<1>6. PICK output : output = [key |-> key, from |-> {key}]
  OBVIOUS
<1>7. PICK more : more = Append(old.outputs, output)
  OBVIOUS
<1>8. PICK rest : rest = Tail(old.jobs)
  OBVIOUS
<1>9. PICK r : r = [old EXCEPT !.status = "compiling", !.ctx = <<>>, !.jobs = rest, !.outputs = more]
  OBVIOUS
<1>10. pool' = Append(pool, CompilationContext) /\ registry' = registry
  BY <1>1, <1>5 DEF Finish
<1>11. Step(l, r)
  <2>1. load' = [load EXCEPT ![l].status = "compiling", ![l].ctx = <<>>, ![l].jobs = Tail(@),
                             ![l].outputs = Append(@, [key |-> Head(load[l].jobs), from |-> load[l].ctx[1].func])]
    BY DEF Finish
  <2>2. [key |-> Head(load[l].jobs), from |-> load[l].ctx[1].func] = output
    BY <1>1, <1>3, <1>5, <1>6
  <2>3. load' = [load EXCEPT ![l].status = "compiling", ![l].ctx = <<>>, ![l].jobs = Tail(@),
                             ![l].outputs = Append(@, output)]
    BY ONLY <2>1, <2>2
  <2>4. load = [k \in Loads |-> load[k]]
    BY DEF Inv, LoadsOK
  <2>5. load' = [load EXCEPT ![l] = r]
    BY <1>1, <1>7, <1>8, <1>9, <2>3, <2>4
  <2> QED BY <2>4, <2>5 DEF Step
<1>12. r = [status |-> "compiling", module |-> old.module, jobs |-> rest, builtins |-> old.builtins,
            ctx |-> <<>>, outputs |-> more, linked |-> old.linked, types |-> old.types, map |-> old.map]
  BY <1>2, <1>9 DEF IsRecord
<1>13. /\ r.status = "compiling" /\ r.module = old.module /\ r.jobs = rest
       /\ r.builtins = old.builtins /\ r.ctx = <<>> /\ r.outputs = more
       /\ r.linked = old.linked /\ r.types = old.types /\ r.map = old.map /\ IsRecord(r)
  BY <1>12 DEF IsRecord
<1>14. key \in Key /\ rest \in Seq(Key) /\ ToSet(old.jobs) = {key} \cup ToSet(rest)
  BY <1>3, <1>4, <1>8, JobsLeft
<1>15. output \in Output /\ output.key = key /\ output.from = {key}
  BY <1>6, <1>14 DEF Output
<1>16. /\ more \in Seq(Output)
       /\ ToSet(Keys(more)) = ToSet(Keys(old.outputs)) \cup {key}
       /\ \A i \in DOMAIN more : more[i] = output \/ \E k \in DOMAIN old.outputs : more[i] = old.outputs[k]
  <2>1. PICK outputs \in Seq(Output) : outputs = old.outputs
    BY <1>4
  <2>2. more = Append(outputs, output) /\ output \in Output
    BY <1>7, <1>15, <2>1
  <2>3. OneMore(outputs, output, more)
    BY <2>2, KeysOfMore
  <2>4. output.key = key
    BY <1>15
  <2> QED BY <2>1, <2>3, <2>4 DEF OneMore
<1>17. IsLoad(r)
  <2>1. ToSet(Keys(more)) \cup ToSet(rest) = ToSet(Keys(old.outputs)) \cup ToSet(old.jobs)
    BY <1>14, <1>16
  <2>2. \A i \in DOMAIN more : more[i].from = {more[i].key}
    <3>1. \A k \in DOMAIN old.outputs : old.outputs[k].from = {old.outputs[k].key}
      BY <1>2 DEF IsCompiling
    <3> QED BY <1>15, <1>16, <3>1
  <2>3. IsCompiling(r)
    BY <1>2, <1>13, <1>14, <1>16, <2>1, <2>2 DEF IsCompiling
  <2> QED BY <1>13, <2>3 DEF IsLoad
<1>18. LoadsOK'
  BY <1>11, <1>17, StepsLoadsOK DEF Inv
<1>19. Apart' /\ RegistryOK'
  <2>1. Span(r) = Span(load[l]) /\ ~InRegistry(r) /\ ~InRegistry(load[l])
    BY <1>1, <1>2, <1>13 DEF Span, InRegistry
  <2> QED BY <1>10, <1>11, <2>1, Quiet DEF Inv
<1>20. ContextsOK'
  <2>1. load'[l] = r /\ \A k \in Loads : k # l => load'[k] = load[k]
    BY <1>11, OthersStay
  <2>2. Active' = Active
    BY <1>1, <1>2, <1>13, <2>1 DEF Active, Running
  <2>3. InUse' = InUse \ {l} /\ l \in InUse
    <3>1. r.ctx = <<>> /\ load[l].ctx # <<>>
      BY <1>1, <1>4, <1>13
    <3> QED BY <2>1, <3>1 DEF InUse
  <2>4. Cardinality(InUse') = Cardinality(InUse) - 1
    BY <2>3, Finite, FS_RemoveElement
  <2>5. pool \in Seq({CompilationContext}) /\ Len(pool) \in Nat /\ MaxThreads \in Nat
    BY LoadConstants DEF ContextsOK, Inv
  <2>6. pool' \in Seq({CompilationContext}) /\ Len(pool') = Len(pool) + 1
    BY <1>10, <2>5, AppendProperties
  <2> QED BY <2>2, <2>4, <2>5, <2>6, Finite DEF Inv, ContextsOK
<1> QED BY <1>18, <1>19, <1>20 DEF Inv

\* A step of a load that takes no context, maps nothing and registers nothing.
Calm(old, r) ==
  /\ Span(r) \subseteq Span(old)
  /\ InRegistry(r) <=> InRegistry(old)
  /\ InRegistry(r) => Start(r) = Start(old) /\ r.linked.text = old.linked.text
  /\ r.status \notin Ended => old.status \notin Ended
  /\ r.ctx # <<>> => old.ctx # <<>>

\* Such a step keeps the invariant when it leaves its own load well formed.
LEMMA CalmStep ==
  ASSUME Inv, NEW l \in Loads, NEW r, Step(l, r), IsLoad(r), Calm(load[l], r),
         pool' = pool, registry' = registry
  PROVE  Inv'
<1>1. LoadsOK'
  BY StepsLoadsOK DEF Inv
<1>2. Apart' /\ RegistryOK'
  BY Quiet DEF Inv, Calm
<1>3. ContextsOK'
  BY NoMoreContexts DEF Inv, Calm
<1> QED BY <1>1, <1>2, <1>3 DEF Inv

\* compile_required_builtin_trampolines starts the jobs that are missing.
LEMMA RequireBuiltinsOK ==
  ASSUME ModulesLink, Inv, NEW l \in Loads, RequireBuiltins(l)
  PROVE  Inv'
<1>1. PICK old : old = load[l]
  OBVIOUS
<1>2. IsRecord(old) /\ IsCompiling(old) /\ old.status = "compiling" /\ old.jobs = <<>> /\ old.builtins = FALSE
  <2>1. IsRecord(old) /\ IsCompiling(old) /\ old.status = "compiling" /\ old.jobs = <<>> /\ ~old.builtins
    BY <1>1, Phases DEF RequireBuiltins
  <2> QED BY <2>1 DEF IsCompiling
<1>3. PICK outputs \in Seq(Output) : outputs = old.outputs
  BY <1>2 DEF IsCompiling
<1>4. PICK jobs : jobs = BuiltinJobs(old.module, Keys(outputs))
  OBVIOUS
<1>5. PICK r : r = [old EXCEPT !.builtins = TRUE, !.jobs = jobs]
  OBVIOUS
<1>6. Step(l, r) /\ pool' = pool /\ registry' = registry
  <2>1. load = [k \in Loads |-> load[k]]
    BY DEF Inv, LoadsOK
  <2>2. load' = [load EXCEPT ![l].builtins = TRUE, ![l].jobs = jobs]
    BY <1>1, <1>3, <1>4 DEF RequireBuiltins
  <2>3. load' = [load EXCEPT ![l] = r]
    BY <1>1, <1>5, <2>1, <2>2
  <2> QED BY <2>1, <2>3 DEF Step, RequireBuiltins
<1>7. r = [status |-> "compiling", module |-> old.module, jobs |-> jobs, builtins |-> TRUE,
           ctx |-> old.ctx, outputs |-> outputs, linked |-> old.linked, types |-> old.types, map |-> old.map]
  BY <1>2, <1>3, <1>5 DEF IsRecord
<1>8. /\ r.status = "compiling" /\ r.module = old.module /\ r.jobs = jobs
      /\ r.builtins = TRUE /\ r.ctx = old.ctx /\ r.outputs = outputs
      /\ r.linked = old.linked /\ r.types = old.types /\ r.map = old.map /\ IsRecord(r)
  BY <1>7 DEF IsRecord
<1>9. Keys(outputs) \in Seq(Key)
  BY KeysOfOutputs
<1>10. ToSet(Keys(outputs)) = FunctionKeys(old.module) \cup TrampolineKeys(old.module)
  <2>1. ToSet(Keys(outputs)) \cup ToSet(<<>>) = FunctionKeys(old.module) \cup TrampolineKeys(old.module) \cup {}
    BY <1>2, <1>3 DEF IsCompiling
  <2>2. ToSet(<<>>) = {}
    BY DEF ToSet
  <2> QED BY <2>1, <2>2
<1>11. jobs \in Seq(Key) /\ ToSet(jobs) = Needed(old.module)
  <2>1. old.module \in Modules
    BY <1>2 DEF IsCompiling
  <2>2. StartsBuiltins(old.module)
    BY <2>1 DEF ModulesLink, Contract
  <2> QED BY <1>4, <1>9, <1>10, <2>2 DEF StartsBuiltins
<1>12. IsLoad(r)
  <2>1. ToSet(Keys(outputs)) \cup ToSet(jobs) =
          FunctionKeys(old.module) \cup TrampolineKeys(old.module) \cup Needed(old.module)
    BY <1>10, <1>11
  <2>2. IsCompiling(r)
    BY <1>2, <1>3, <1>8, <1>11, <2>1 DEF IsCompiling
  <2> QED BY <1>8, <2>2 DEF IsLoad
<1>13. Calm(load[l], r)
  BY <1>1, <1>2, <1>8 DEF Calm, Span, InRegistry, Ended
<1> QED BY <1>6, <1>12, <1>13, CalmStep

\* link_and_finish gets the outputs of exactly the jobs of the module, so that it does not
\* panic and links them well.
LEMMA LinkOutputsOK ==
  ASSUME ModulesLink, Inv, NEW l \in Loads, LinkOutputs(l)
  PROVE  Inv'
<1>1. PICK old : old = load[l]
  OBVIOUS
<1>2. IsRecord(old) /\ IsCompiling(old) /\ old.status = "compiling" /\ old.jobs = <<>> /\ old.builtins = TRUE
  <2>1. IsRecord(old) /\ IsCompiling(old) /\ old.status = "compiling" /\ old.jobs = <<>> /\ old.builtins
    BY <1>1, Phases DEF LinkOutputs
  <2> QED BY <2>1 DEF IsCompiling
<1>3. PICK outputs \in Seq(Output) : outputs = old.outputs
  BY <1>2 DEF IsCompiling
<1>4. PICK linked : linked = LinkAndFinish(old.module, Keys(outputs))
  OBVIOUS
<1>5. PICK r : r = [old EXCEPT !.status = "linked", !.linked = linked, !.outputs = <<>>]
  OBVIOUS
<1>6. Complete(old.module, Keys(outputs))
  <2>1. Keys(outputs) \in Seq(Key)
    BY KeysOfOutputs
  <2>2. ToSet(Keys(outputs)) \cup ToSet(<<>>) =
          FunctionKeys(old.module) \cup TrampolineKeys(old.module) \cup Needed(old.module)
    BY <1>2, <1>3 DEF IsCompiling
  <2>3. ToSet(<<>>) = {}
    BY DEF ToSet
  <2> QED BY <2>1, <2>2, <2>3 DEF Complete
<1>7. WellLinked(old.module, linked)
  <2>1. old.module \in Modules
    BY <1>2 DEF IsCompiling
  <2>2. LinksWell(old.module)
    BY <2>1 DEF ModulesLink, Contract
  <2> QED BY <1>4, <1>6, <2>2 DEF LinksWell
<1>8. linked.panics = FALSE
  BY <1>7 DEF WellLinked
<1>9. Step(l, r) /\ pool' = pool /\ registry' = registry
  <2>1. load = [k \in Loads |-> load[k]]
    BY DEF Inv, LoadsOK
  <2>2. load' = [load EXCEPT ![l].status = "linked", ![l].linked = linked, ![l].outputs = <<>>]
    BY <1>1, <1>3, <1>4, <1>8 DEF LinkOutputs
  <2>3. load' = [load EXCEPT ![l] = r]
    BY <1>1, <1>5, <2>1, <2>2
  <2> QED BY <2>1, <2>3 DEF Step, LinkOutputs
<1>10. r = [status |-> "linked", module |-> old.module, jobs |-> old.jobs, builtins |-> old.builtins,
            ctx |-> old.ctx, outputs |-> <<>>, linked |-> linked, types |-> old.types, map |-> old.map]
  BY <1>2, <1>5 DEF IsRecord
<1>11. /\ r.status = "linked" /\ r.module = old.module
       /\ r.ctx = old.ctx /\ r.outputs = <<>>
       /\ r.linked = linked /\ r.types = old.types /\ r.map = old.map /\ IsRecord(r)
  BY <1>10 DEF IsRecord
<1>12. IsLoad(r)
  <2>1. old.ctx = <<>> /\ old.module \in Modules /\ old.types = FALSE /\ old.map = <<>>
    BY <1>2 DEF IsCompiling
  <2>2. IsLinked(r)
    BY <1>7, <1>11, <2>1 DEF IsLinked
  <2> QED BY <1>11, <2>2 DEF IsLoad
<1>13. Calm(load[l], r)
  BY <1>1, <1>2, <1>11 DEF Calm, Span, InRegistry, Ended
<1> QED BY <1>9, <1>12, <1>13, CalmStep

\* The types of the module are registered.
LEMMA RegisterTypesOK ==
  ASSUME Inv, NEW l \in Loads, RegisterTypes(l)
  PROVE  Inv'
<1>1. PICK old : old = load[l]
  OBVIOUS
<1>2. IsRecord(old) /\ IsLinked(old) /\ old.status = "linked"
  BY <1>1, Phases DEF RegisterTypes
<1>3. PICK r : r = [old EXCEPT !.status = "typed", !.types = TRUE]
  OBVIOUS
<1>4. Step(l, r) /\ pool' = pool /\ registry' = registry
  <2>1. load = [k \in Loads |-> load[k]]
    BY DEF Inv, LoadsOK
  <2>2. load' = [load EXCEPT ![l] = r]
    BY <1>1, <1>3, <2>1 DEF RegisterTypes
  <2> QED BY <2>1, <2>2 DEF Step, RegisterTypes
<1>5. r = [status |-> "typed", module |-> old.module, jobs |-> old.jobs, builtins |-> old.builtins,
           ctx |-> old.ctx, outputs |-> old.outputs, linked |-> old.linked, types |-> TRUE, map |-> old.map]
  BY <1>2, <1>3 DEF IsRecord
<1>6. /\ r.status = "typed" /\ r.module = old.module /\ r.ctx = old.ctx /\ r.outputs = old.outputs
      /\ r.linked = old.linked /\ r.types = TRUE /\ r.map = old.map /\ IsRecord(r)
  BY <1>5 DEF IsRecord
<1>7. IsLoad(r)
  <2>1. IsLinked(r)
    BY <1>2, <1>6 DEF IsLinked
  <2> QED BY <1>6, <2>1 DEF IsLoad
<1>8. Calm(load[l], r)
  BY <1>1, <1>2, <1>6 DEF Calm, Span, InRegistry, Ended
<1> QED BY <1>4, <1>7, <1>8, CalmStep

\* The last handle of a module is dropped.
LEMMA DropModuleOK ==
  ASSUME Inv, NEW l \in Loads, DropModule(l)
  PROVE  Inv'
<1>1. PICK old : old = load[l]
  OBVIOUS
<1>2. IsRecord(old) /\ IsLinked(old) /\ old.status = "loaded"
  BY <1>1, Phases DEF DropModule
<1>3. PICK r : r = [old EXCEPT !.status = "dropped", !.types = FALSE]
  OBVIOUS
<1>4. Step(l, r) /\ pool' = pool /\ registry' = registry
  <2>1. load = [k \in Loads |-> load[k]]
    BY DEF Inv, LoadsOK
  <2>2. load' = [load EXCEPT ![l] = r]
    BY <1>1, <1>3, <2>1 DEF DropModule
  <2> QED BY <2>1, <2>2 DEF Step, DropModule
<1>5. r = [status |-> "dropped", module |-> old.module, jobs |-> old.jobs, builtins |-> old.builtins,
           ctx |-> old.ctx, outputs |-> old.outputs, linked |-> old.linked, types |-> FALSE, map |-> old.map]
  BY <1>2, <1>3 DEF IsRecord
<1>6. /\ r.status = "dropped" /\ r.module = old.module /\ r.ctx = old.ctx /\ r.outputs = old.outputs
      /\ r.linked = old.linked /\ r.types = FALSE /\ r.map = old.map /\ IsRecord(r)
  BY <1>5 DEF IsRecord
<1>7. IsLoad(r)
  <2>1. Backed(r)
    BY <1>2, <1>6 DEF IsLinked, Backed
  <2>2. IsLinked(r)
    BY <1>2, <1>6, <2>1 DEF IsLinked
  <2> QED BY <1>6, <2>2 DEF IsLoad
<1>8. Calm(load[l], r)
  BY <1>1, <1>2, <1>6 DEF Calm, Span, Start, InRegistry, Ended
<1> QED BY <1>4, <1>7, <1>8, CalmStep

-----------------------------------------------------------------------------
(* Code memory.                                                            *)

\* translate_body fails.
LEMMA TranslateFailsOK ==
  ASSUME Inv, NEW l \in Loads, TranslateFails(l)
  PROVE  Inv'
<1>1. Ends(l, "failed") /\ load[l].status = "building" /\ pool' = pool /\ registry' = registry
  BY DEF TranslateFails, GivesUp
<1> QED BY <1>1, EndsOK

\* FunctionCompiler::finish fails.
LEMMA FinishFailsOK ==
  ASSUME Inv, NEW l \in Loads, FinishFails(l)
  PROVE  Inv'
<1>1. Ends(l, "failed") /\ load[l].status = "building" /\ pool' = pool /\ registry' = registry
  BY DEF FinishFails
<1> QED BY <1>1, EndsOK

\* round_up_to_pages is 0 for 0 bytes only.
LEMMA Rounding ==
  ASSUME NEW n \in Nat
  PROVE  RoundUpToPages(n) \in Nat /\ (RoundUpToPages(n) = 0 <=> n = 0)
<1> DEFINE a == n + PageSize - 1
           q == a \div PageSize
<1>1. PageSize \in Nat /\ PageSize > 0
  BY PageSizePositive
<1>2. a \in Nat
  BY <1>1
<1>3. q \in Nat /\ a = (PageSize * q) + (a % PageSize) /\ a % PageSize \in 0 .. PageSize - 1
  BY <1>1, <1>2
<1>4. RoundUpToPages(n) = q * PageSize
  BY DEF RoundUpToPages
<1>5. q = 0 <=> n = 0
  <2> HIDE DEF q
  <2>1. ASSUME q = 0 PROVE n = 0
    BY <1>1, <1>3, <2>1
  <2>2. ASSUME n = 0, q # 0 PROVE FALSE
    <3>1. PageSize * q >= PageSize
      BY <1>1, <1>3, <2>2
    <3> QED BY <1>1, <1>3, <2>2, <3>1
  <2> QED BY <2>1, <2>2
<1> HIDE DEF q
<1>6. q * PageSize \in Nat /\ (q * PageSize = 0 <=> q = 0)
  BY <1>1, <1>3
<1> QED BY <1>4, <1>5, <1>6

\* A placement is an address, the mapping there ends inside the address space, and it
\* meets no other.
LEMMA Placing ==
  ASSUME NEW len \in Nat, NEW base \in Placements(len)
  PROVE  /\ base \in Nat
         /\ base + len <= (Pages + 1) * PageSize
         /\ \A k \in Loads : (base .. base + len - 1) \cap Mapped(k) = {}
<1>1. PICK p \in 1 .. Pages : base = p * PageSize
  BY DEF Placements
<1>2. PageSize \in Nat /\ Pages \in Nat
  BY PageSizePositive, LoadConstants
<1>3. base \in Nat
  BY <1>1, <1>2
<1> QED BY <1>3 DEF Placements

\* MmapVec::from_slice maps the text to free pages, fails, or panics because the text
\* fills its pages.
LEMMA FromSliceOK ==
  ASSUME Inv, NEW l \in Loads, FromSlice(l)
  PROVE  Inv'
<1>1. PICK old : old = load[l]
  OBVIOUS
<1>2. IsRecord(old) /\ IsLinked(old) /\ old.status = "typed" /\ old.map = <<>>
  <2>1. IsRecord(old) /\ IsLinked(old) /\ old.status = "typed"
    BY <1>1, Phases DEF FromSlice
  <2> QED BY <2>1 DEF IsLinked
<1>3. PICK n \in Nat : n = Len(old.linked.text) /\ (n = 0 <=> old.linked.text = <<>>)
  <2>1. old.linked.text \in Seq(Byte)
    BY <1>2 DEF IsLinked, WellLinked
  <2> QED BY <2>1
<1>4. PICK len : len = RoundUpToPages(n)
  OBVIOUS
<1>5. len \in Nat /\ (len = 0 <=> n = 0)
  BY <1>4, Rounding
<1>6. TextLen(l) = n
  BY <1>1, <1>3 DEF TextLen
<1>7. pool' = pool /\ registry' = registry
  BY DEF FromSlice
<1>8. load = [k \in Loads |-> load[k]]
  BY DEF Inv, LoadsOK
<1>9. CASE len = 0 /\ load' = [load EXCEPT ![l].status = "mapped"]
  <2>1. PICK r : r = [old EXCEPT !.status = "mapped"]
    OBVIOUS
  <2>2. Step(l, r)
    <3>1. load' = [load EXCEPT ![l] = r]
      BY <1>1, <1>8, <1>9, <2>1
    <3> QED BY <1>8, <3>1 DEF Step
  <2>3. r = [status |-> "mapped", module |-> old.module, jobs |-> old.jobs, builtins |-> old.builtins,
             ctx |-> old.ctx, outputs |-> old.outputs, linked |-> old.linked, types |-> old.types, map |-> old.map]
    BY <1>2, <2>1 DEF IsRecord
  <2>4. /\ r.status = "mapped" /\ r.module = old.module /\ r.ctx = old.ctx /\ r.outputs = old.outputs
        /\ r.linked = old.linked /\ r.types = old.types /\ r.map = old.map /\ IsRecord(r)
    BY <2>3 DEF IsRecord
  <2>5. IsLoad(r)
    <3>1. Backed(r)
      BY <1>2, <1>3, <1>5, <1>9, <2>4 DEF Backed
    <3>2. IsLinked(r)
      BY <1>2, <2>4, <3>1 DEF IsLinked
    <3> QED BY <2>4, <3>2 DEF IsLoad
  <2>6. Calm(load[l], r)
    BY <1>1, <1>2, <2>4 DEF Calm, Span, InRegistry, Ended
  <2> QED BY <1>7, <2>2, <2>5, <2>6, CalmStep
<1>10. ASSUME HasRoom(WithReserved(len), n), len > 0, NEW base \in Placements(len),
              load' = [load EXCEPT ![l].status = "mapped",
                         ![l].map = <<[base |-> base, len |-> len, prot |-> "rw"]>>]
       PROVE  Inv'
  <2>1. PICK map : map = [base |-> base, len |-> len, prot |-> "rw"]
    OBVIOUS
  <2>2. PICK r : r = [old EXCEPT !.status = "mapped", !.map = <<map>>]
    OBVIOUS
  <2>3. Step(l, r)
    <3>1. load' = [load EXCEPT ![l] = r]
      BY <1>1, <1>8, <1>10, <2>1, <2>2
    <3> QED BY <1>8, <3>1 DEF Step
  <2>4. r = [status |-> "mapped", module |-> old.module, jobs |-> old.jobs, builtins |-> old.builtins,
             ctx |-> old.ctx, outputs |-> old.outputs, linked |-> old.linked, types |-> old.types, map |-> <<map>>]
    BY <1>2, <2>2 DEF IsRecord
  <2>5. /\ r.status = "mapped" /\ r.module = old.module /\ r.ctx = old.ctx /\ r.outputs = old.outputs
        /\ r.linked = old.linked /\ r.types = old.types /\ r.map = <<map>> /\ IsRecord(r)
    BY <2>4 DEF IsRecord
  <2>6. /\ base \in Nat /\ base + len <= (Pages + 1) * PageSize
        /\ \A k \in Loads : (base .. base + len - 1) \cap Mapped(k) = {}
    BY <1>5, <1>10, Placing
  <2>7. n < len
    BY <1>3, <1>5, <1>10 DEF HasRoom, WithReserved
  <2>8. r.map[1] = map /\ r.map # <<>> /\ map.base = base /\ map.len = len /\ map.prot = "rw"
    BY <2>1, <2>5
  <2>9. Backed(r)
    <3>1. map \in [base : Nat, len : Nat, prot : {"rw", "rx"}]
      BY <1>5, <2>1, <2>6
    <3>2. r.linked.text # <<>> /\ Len(r.linked.text) < map.len /\ map.base + map.len <= (Pages + 1) * PageSize
      BY <1>3, <1>5, <1>10, <2>5, <2>6, <2>7, <2>8
    <3> QED BY <2>5, <2>8, <3>1, <3>2 DEF Backed
  <2>10. IsLoad(r)
    <3>1. IsLinked(r)
      BY <1>2, <2>5, <2>9 DEF IsLinked
    <3> QED BY <2>5, <3>1 DEF IsLoad
  <2>11. Span(r) = base .. base + len - 1
    BY <2>8 DEF Span
  <2>12. LoadsOK'
    BY <2>3, <2>10, StepsLoadsOK DEF Inv
  <2>13. Apart'
    BY <2>3, <2>6, <2>11, StaysApart DEF Inv
  <2>14. ~InRegistry(r) /\ ~InRegistry(load[l])
    BY <1>1, <1>2, <2>5 DEF InRegistry
  <2>15. RegistryOK'
    BY <1>7, <2>3, <2>14, RegistryStays DEF Inv
  <2>16. ContextsOK'
    <3>1. load[l].status \notin Ended /\ (r.ctx # <<>> => load[l].ctx # <<>>)
      BY <1>1, <1>2, <2>5 DEF Ended
    <3> QED BY <1>7, <2>3, <3>1, NoMoreContexts DEF Inv
  <2> QED BY <2>12, <2>13, <2>15, <2>16 DEF Inv
<1>11. CASE Ends(l, "oom") \/ Ends(l, "failed")
  BY <1>1, <1>2, <1>7, <1>11, EndsOK
<1> QED BY <1>4, <1>6, <1>9, <1>10, <1>11 DEF FromSlice

\* CodeMemory::publish makes the text executable or fails.
LEMMA PublishCodeOK ==
  ASSUME Inv, NEW l \in Loads, PublishCode(l)
  PROVE  Inv'
<1>1. PICK old : old = load[l]
  OBVIOUS
<1>2. IsRecord(old) /\ IsLinked(old) /\ old.status = "mapped" /\ Backed(old)
  <2>1. IsRecord(old) /\ IsLinked(old) /\ old.status = "mapped"
    BY <1>1, Phases DEF PublishCode
  <2> QED BY <2>1 DEF IsLinked
<1>3. pool' = pool /\ registry' = registry
  BY DEF PublishCode
<1>4. load = [k \in Loads |-> load[k]]
  BY DEF Inv, LoadsOK
<1>5. CASE old.map = <<>> /\ load' = [load EXCEPT ![l].status = "published"]
  <2>1. PICK r : r = [old EXCEPT !.status = "published"]
    OBVIOUS
  <2>2. Step(l, r)
    <3>1. load' = [load EXCEPT ![l] = r]
      BY <1>1, <1>4, <1>5, <2>1
    <3> QED BY <1>4, <3>1 DEF Step
  <2>3. r = [status |-> "published", module |-> old.module, jobs |-> old.jobs, builtins |-> old.builtins,
             ctx |-> old.ctx, outputs |-> old.outputs, linked |-> old.linked, types |-> old.types, map |-> old.map]
    BY <1>2, <2>1 DEF IsRecord
  <2>4. /\ r.status = "published" /\ r.module = old.module /\ r.ctx = old.ctx /\ r.outputs = old.outputs
        /\ r.linked = old.linked /\ r.types = old.types /\ r.map = old.map /\ IsRecord(r)
    BY <2>3 DEF IsRecord
  <2>5. IsLoad(r)
    <3>1. Backed(r)
      BY <1>2, <2>4 DEF Backed
    <3>2. IsLinked(r)
      BY <1>2, <1>5, <2>4, <3>1 DEF IsLinked
    <3> QED BY <2>4, <3>2 DEF IsLoad
  <2>6. Calm(load[l], r)
    BY <1>1, <1>2, <2>4 DEF Calm, Span, InRegistry, Ended
  <2> QED BY <1>3, <2>2, <2>5, <2>6, CalmStep
<1>6. CASE old.map # <<>> /\ load' = [load EXCEPT ![l].status = "published", ![l].map[1].prot = "rx"]
  <2>1. PICK map : map = old.map[1]
    OBVIOUS
  <2>2. /\ old.linked.text # <<>> /\ old.map = <<map>>
        /\ map \in [base : Nat, len : Nat, prot : {"rw", "rx"}]
        /\ Len(old.linked.text) < map.len
        /\ map.base + map.len <= (Pages + 1) * PageSize
    BY <1>2, <1>6, <2>1 DEF Backed
  <2>3. PICK new : new = [map EXCEPT !.prot = "rx"]
    OBVIOUS
  <2>4. /\ new \in [base : Nat, len : Nat, prot : {"rw", "rx"}]
        /\ new.base = map.base /\ new.len = map.len /\ new.prot = "rx"
    BY <2>2, <2>3
  <2>5. PICK r : r = [old EXCEPT !.status = "published", !.map = <<new>>]
    OBVIOUS
  <2>6. Step(l, r)
    <3>1. load' = [load EXCEPT ![l] = [old EXCEPT !.status = "published", !.map[1].prot = "rx"]]
      BY <1>1, <1>4, <1>6
    <3>2. [old.map EXCEPT ![1].prot = "rx"] = <<new>>
      BY <2>2, <2>3
    <3>3. [old EXCEPT !.status = "published", !.map[1].prot = "rx"] = r
      BY <1>2, <2>5, <3>2 DEF IsRecord
    <3> QED BY <1>4, <3>1, <3>3 DEF Step
  <2>7. r = [status |-> "published", module |-> old.module, jobs |-> old.jobs, builtins |-> old.builtins,
             ctx |-> old.ctx, outputs |-> old.outputs, linked |-> old.linked, types |-> old.types, map |-> <<new>>]
    BY <1>2, <2>5 DEF IsRecord
  <2>8. /\ r.status = "published" /\ r.module = old.module /\ r.ctx = old.ctx /\ r.outputs = old.outputs
        /\ r.linked = old.linked /\ r.types = old.types /\ r.map = <<new>> /\ IsRecord(r)
    BY <2>7 DEF IsRecord
  <2>9. r.map[1] = new /\ r.map # <<>>
    BY <2>8
  <2>10. Backed(r)
    <3>1. r.linked.text # <<>> /\ Len(r.linked.text) < new.len /\ new.base + new.len <= (Pages + 1) * PageSize
      BY <2>2, <2>4, <2>8
    <3> QED BY <2>4, <2>8, <2>9, <3>1 DEF Backed
  <2>11. IsLoad(r)
    <3>1. IsLinked(r)
      BY <1>2, <2>4, <2>8, <2>9, <2>10 DEF IsLinked
    <3> QED BY <2>8, <3>1 DEF IsLoad
  <2>12. Span(r) = Span(old)
    BY <1>6, <2>1, <2>4, <2>9 DEF Span
  <2>13. Calm(load[l], r)
    BY <1>1, <1>2, <2>8, <2>12 DEF Calm, InRegistry, Ended
  <2> QED BY <1>3, <2>6, <2>11, <2>13, CalmStep
<1>7. CASE Ends(l, "failed")
  BY <1>1, <1>2, <1>3, <1>7, EndsOK
<1> QED BY <1>1, <1>5, <1>6, <1>7 DEF PublishCode, Publish
=============================================================================
