----------------------------- MODULE LinkProofs -----------------------------
(***************************************************************************)
(* Proofs about Link, for every module that IsModule: compiling starts the *)
(* jobs the module needs, and linking their outputs does not panic, makes  *)
(* every call land, describes every function in the function table, and    *)
(* records every trap where its instruction lies.                          *)
(***************************************************************************)
EXTENDS LinkLayout, FiniteSetTheorems

-----------------------------------------------------------------------------
(* The jobs of a module.                                                   *)

\* Every job that compiling a module may start.
JobKeys(m) == FunctionKeys(m) \cup TrampolineKeys(m) \cup BuiltinKeys

\* Whatever job is started for a module: its output is what the code generator
\* promises of a function.
LEMMA JobsCompile ==
  ASSUME NEW m, IsModule(m), NEW key \in JobKeys(m)
  PROVE  key \in Key /\ IsCompiled(m, CompiledFunction(m, key))
<1>1. PICK n \in Nat : n = Len(m.funcs) /\ DOMAIN m.funcs = 1 .. n
  BY LenProperties DEF IsModule
<1>2. CASE key \in FunctionKeys(m)
  <2>1. PICK d \in DOMAIN m.funcs : key = WasmFunction(d - 1)
    BY <1>2 DEF FunctionKeys
  <2>2. d - 1 \in Nat /\ (d - 1) + 1 = d
    BY <1>1
  <2>3. CompiledFunction(m, key) = m.funcs[d].body
    BY <2>1, <2>2, OutputOf
  <2> QED BY <2>1, <2>2, <2>3, KindsOfKeys DEF IsModule
<1>3. CASE key \in TrampolineKeys(m)
  <2>1. PICK d \in DOMAIN m.funcs : key = ArrayToWasmTrampoline(d - 1)
    BY <1>3 DEF TrampolineKeys
  <2>2. d - 1 \in Nat
    BY <1>1
  <2>3. CompiledFunction(m, key) = TrampolineBody(FuncIndex(m, d - 1))
    BY <2>1, OutputOf
  <2> QED BY <2>1, <2>2, <2>3, KindsOfKeys, TrampolinesCompile
<1>4. CASE key \in BuiltinKeys
  <2>1. PICK b \in Nat : key = WasmToBuiltinTrampoline(b)
    BY <1>4 DEF BuiltinKeys
  <2>2. CompiledFunction(m, key) = BuiltinBody
    BY <2>1, OutputOf
  <2> QED BY <2>1, <2>2, KindsOfKeys, BuiltinsCompile
<1> QED BY <1>2, <1>3, <1>4 DEF JobKeys

\* from_module starts exactly the jobs of the functions and of the trampolines of those
\* that escape.
LEMMA FromModuleIs ==
  ASSUME NEW m, IsModule(m)
  PROVE  /\ FromModule(m) \in Seq(Key)
         /\ ToSet(FromModule(m)) = FunctionKeys(m) \cup TrampolineKeys(m)
<1> DEFINE Tramp(i) == IF m.funcs[i].escapes THEN <<ArrayToWasmTrampoline(i - 1)>> ELSE <<>>
           Job(i) == <<WasmFunction(i - 1)>> \o Tramp(i)
           seqs == [i \in DOMAIN m.funcs |-> Job(i)]
<1>1. PICK n \in Nat : n = Len(m.funcs) /\ DOMAIN m.funcs = 1 .. n
  BY LenProperties DEF IsModule
<1>2. ASSUME NEW i \in 1 .. n
      PROVE  /\ Job(i) \in Seq(Key)
             /\ ToSet(Job(i)) = {WasmFunction(i - 1)}
                  \cup {ArrayToWasmTrampoline(j - 1) : j \in {e \in {i} : m.funcs[e].escapes}}
  <2>1. WasmFunction(i - 1) \in Key /\ ArrayToWasmTrampoline(i - 1) \in Key
    <3>1. i - 1 \in Nat
      OBVIOUS
    <3> QED BY <3>1, KindsOfKeys
  <2>2. \A x : x \in Key => <<x>> \in Seq(Key) /\ ToSet(<<x>>) = {x}
    BY DEF ToSet
  <2>3. <<>> \in Seq(Key) /\ ToSet(<<>>) = {}
    BY DEF ToSet
  <2>4. CASE m.funcs[i].escapes
    <3>1. Tramp(i) = <<ArrayToWasmTrampoline(i - 1)>>
      BY <2>4
    <3>2. Tramp(i) \in Seq(Key) /\ ToSet(Tramp(i)) = {ArrayToWasmTrampoline(i - 1)}
      BY <2>1, <2>2, <3>1
    <3>3. <<WasmFunction(i - 1)>> \in Seq(Key) /\ ToSet(<<WasmFunction(i - 1)>>) = {WasmFunction(i - 1)}
      BY <2>1, <2>2
    <3>4. {ArrayToWasmTrampoline(j - 1) : j \in {e \in {i} : m.funcs[e].escapes}} = {ArrayToWasmTrampoline(i - 1)}
      BY <2>4
    <3> HIDE DEF Tramp
    <3>5. Job(i) \in Seq(Key) /\ ToSet(Job(i)) = ToSet(<<WasmFunction(i - 1)>>) \cup ToSet(Tramp(i))
      <4>1. PICK a, b : a = <<WasmFunction(i - 1)>> /\ b = Tramp(i)
        OBVIOUS
      <4>2. a \in Seq(Key) /\ b \in Seq(Key)
        BY <3>2, <3>3, <4>1
      <4>3. a \o b \in Seq(Key) /\ ToSet(a \o b) = ToSet(a) \cup ToSet(b)
        BY <4>2, ElementsOfJoin
      <4> QED BY <4>1, <4>3
    <3> HIDE DEF Job
    <3> QED BY <3>2, <3>3, <3>4, <3>5
  <2>5. CASE ~m.funcs[i].escapes
    <3>1. Tramp(i) \in Seq(Key) /\ ToSet(Tramp(i)) = {}
      BY <2>3, <2>5
    <3>3. <<WasmFunction(i - 1)>> \in Seq(Key) /\ ToSet(<<WasmFunction(i - 1)>>) = {WasmFunction(i - 1)}
      BY <2>1, <2>2
    <3>4. {ArrayToWasmTrampoline(j - 1) : j \in {e \in {i} : m.funcs[e].escapes}} = {}
      BY <2>5
    <3> HIDE DEF Tramp
    <3>5. Job(i) \in Seq(Key) /\ ToSet(Job(i)) = ToSet(<<WasmFunction(i - 1)>>) \cup ToSet(Tramp(i))
      <4>1. PICK a, b : a = <<WasmFunction(i - 1)>> /\ b = Tramp(i)
        OBVIOUS
      <4>2. a \in Seq(Key) /\ b \in Seq(Key)
        BY <3>1, <3>3, <4>1
      <4>3. a \o b \in Seq(Key) /\ ToSet(a \o b) = ToSet(a) \cup ToSet(b)
        BY <4>2, ElementsOfJoin
      <4> QED BY <4>1, <4>3
    <3> HIDE DEF Job
    <3> QED BY <3>1, <3>3, <3>4, <3>5
  <2> QED BY <2>4, <2>5
<1>3. seqs \in Seq(Seq(Key)) /\ DOMAIN seqs = 1 .. n /\ \A i \in 1 .. n : seqs[i] = Job(i)
  <2>1. seqs = [i \in 1 .. n |-> Job(i)]
    BY <1>1
  <2> HIDE DEF Job
  <2>2. seqs \in [1 .. n -> Seq(Key)] /\ DOMAIN seqs = 1 .. n /\ \A i \in 1 .. n : seqs[i] = Job(i)
    BY <1>2, <2>1
  <2>3. PICK T : T = Seq(Key)
    OBVIOUS
  <2> HIDE DEF seqs
  <2>4. seqs \in [1 .. n -> T]
    BY <2>2, <2>3
  <2>5. seqs \in Seq(T)
    BY <2>4
  <2> QED BY <2>2, <2>3, <2>5
<1>4. FromModule(m) = FlattenSeq(seqs)
  BY DEF FromModule
<1>5. FromModule(m) \in Seq(Key) /\ ToSet(FromModule(m)) = UNION {ToSet(seqs[i]) : i \in 1 .. n}
  <2> HIDE DEF seqs
  <2> QED BY <1>3, <1>4, ElementsOfFlat
<1>6. UNION {ToSet(seqs[i]) : i \in 1 .. n} = FunctionKeys(m) \cup TrampolineKeys(m)
  <2> DEFINE B(i) == {ArrayToWasmTrampoline(j - 1) : j \in {e \in {i} : m.funcs[e].escapes}}
  <2>1. \A i \in 1 .. n : ToSet(seqs[i]) = {WasmFunction(i - 1)} \cup B(i)
    <3> HIDE DEF seqs, Job
    <3> QED BY <1>2, <1>3
  <2>2. FunctionKeys(m) = UNION {{WasmFunction(i - 1)} : i \in 1 .. n}
    BY <1>1 DEF FunctionKeys
  <2>3. TrampolineKeys(m) = UNION {B(i) : i \in 1 .. n}
    BY <1>1 DEF TrampolineKeys
  <2> HIDE DEF B, seqs
  <2> QED BY <2>1, <2>2, <2>3
<1> QED BY <1>5, <1>6

\* Collecting the builtins, as a run over the relocations.
NeedBuiltinOf(p, jobs, r) == NeedBuiltin(jobs, r)
NeedFold == INSTANCE Folding WITH Op <- NeedBuiltinOf

\* One more relocation: a builtin is asked for once.
LEMMA NeedsBuiltin ==
  ASSUME NEW jobs \in Seq(Key), NEW r \in Reloc, NEW new, new = NeedBuiltin(jobs, r)
  PROVE  new \in Seq(Key) /\ ToSet(new) = ToSet(jobs) \cup Builtins({r})
<1>1. WasmToBuiltinTrampoline(r.index) \in Key
  <2>1. r.index \in Nat
    BY DEF Reloc
  <2> QED BY <2>1, KindsOfKeys
<1>2. CASE r.target # "Builtin"
  BY <1>2 DEF NeedBuiltin, Builtins
<1>3. CASE r.target = "Builtin" /\ Contains(jobs, WasmToBuiltinTrampoline(r.index))
  <2>1. WasmToBuiltinTrampoline(r.index) \in ToSet(jobs)
    <3>1. DOMAIN jobs = 1 .. Len(jobs)
      OBVIOUS
    <3> QED BY <1>3, <3>1 DEF Contains, ToSet
  <2>2. Builtins({r}) = {WasmToBuiltinTrampoline(r.index)}
    BY <1>3 DEF Builtins
  <2> QED BY <1>3, <2>1, <2>2 DEF NeedBuiltin
<1>4. CASE r.target = "Builtin" /\ ~Contains(jobs, WasmToBuiltinTrampoline(r.index))
  <2>1. new = Append(jobs, WasmToBuiltinTrampoline(r.index))
    BY <1>4 DEF NeedBuiltin
  <2>2. Builtins({r}) = {WasmToBuiltinTrampoline(r.index)}
    BY <1>4 DEF Builtins
  <2>3. new \in Seq(Key) /\ ToSet(new) = ToSet(jobs) \cup {WasmToBuiltinTrampoline(r.index)}
    BY <1>1, <2>1, ElementsOfAppend
  <2> QED BY <2>2, <2>3
<1> QED BY <1>2, <1>3, <1>4

\* The relocations of a function lie in it, and a call by FuncIndex is to a defined
\* function.
LEMMA RelocationsAre ==
  ASSUME NEW m, NEW fn, IsCompiled(m, fn)
  PROVE  /\ Relocations(fn) \in Seq(Reloc)
         /\ \A r \in ToSet(Relocations(fn)) :
              /\ r.at < fn.len
              /\ r.target = "Wasm" => DefinedFuncIndex(m, r.index) \in 0 .. Len(m.funcs) - 1
<1> DEFINE N == [namespace : {NS_WASM_FUNC, NS_BUILTIN}, index : Nat]
           R == [at : Nat, name : Nat]
           rs == Relocations(fn)
<1>1. fn.names \in Seq(N) /\ fn.relocs \in Seq(R)
  BY DEF IsCompiled
<1>2. PICK n \in Nat : n = Len(fn.relocs) /\ DOMAIN fn.relocs = 1 .. n
  BY <1>1, LenProperties
<1>3. ASSUME NEW i \in 1 .. n
      PROVE  /\ rs[i] \in Reloc
             /\ rs[i].at < fn.len
             /\ rs[i].target = "Wasm" => DefinedFuncIndex(m, rs[i].index) \in 0 .. Len(m.funcs) - 1
  <2>1. PICK reloc : reloc = fn.relocs[i]
    OBVIOUS
  <2>2. PICK name : name = fn.names[reloc.name]
    OBVIOUS
  <2>3. reloc \in R /\ reloc.at < fn.len /\ reloc.name \in DOMAIN fn.names
    <3>1. reloc \in R
      <4> HIDE DEF R
      <4> QED BY <1>1, <1>2, <2>1
    <3> QED BY <1>2, <2>1, <3>1 DEF IsCompiled
  <2>4. name \in N
    <3> HIDE DEF N
    <3> QED BY <1>1, <2>2, <2>3
  <2>5. name.namespace = NS_WASM_FUNC => DefinedFuncIndex(m, name.index) \in 0 .. Len(m.funcs) - 1
    BY <2>2, <2>3 DEF IsCompiled
  <2>6. rs[i] = [at |-> reloc.at, target |-> IF name.namespace = NS_WASM_FUNC THEN "Wasm" ELSE "Builtin",
                 index |-> name.index]
    BY <1>2, <2>1, <2>2 DEF Relocations
  <2>7. rs[i].at = reloc.at /\ rs[i].index = name.index
        /\ (rs[i].target = "Wasm" => name.namespace = NS_WASM_FUNC)
    <3> HIDE DEF rs
    <3> QED BY <2>6
  <2>8. rs[i] \in Reloc
    <3> HIDE DEF rs
    <3> QED BY <2>3, <2>4, <2>6 DEF Reloc
  <2> HIDE DEF rs
  <2> QED BY <2>3, <2>5, <2>7, <2>8
<1>4. rs \in [1 .. n -> Reloc]
  <2>1. rs = [i \in 1 .. n |-> rs[i]]
    BY <1>2 DEF Relocations
  <2> HIDE DEF rs
  <2> QED BY <1>3, <2>1
<1> HIDE DEF rs
<1>5. rs \in Seq(Reloc) /\ DOMAIN rs = 1 .. n
  BY <1>4
<1>6. \A r \in ToSet(rs) : /\ r.at < fn.len
                           /\ r.target = "Wasm" => DefinedFuncIndex(m, r.index) \in 0 .. Len(m.funcs) - 1
  BY <1>3, <1>5 DEF ToSet
<1> QED BY <1>5, <1>6 DEF rs

\* compile_required_builtin_trampolines starts exactly the jobs of the builtins that
\* some output calls.
LEMMA BuiltinJobsAre ==
  ASSUME NEW m, IsModule(m), NEW outputs \in Seq(Key),
         ToSet(outputs) = FunctionKeys(m) \cup TrampolineKeys(m)
  PROVE  /\ BuiltinJobs(m, outputs) \in Seq(Key)
         /\ ToSet(BuiltinJobs(m, outputs)) = Needed(m)
<1> DEFINE Rel(i) == Relocations(CompiledFunction(m, outputs[i]))
           seqs == [i \in DOMAIN outputs |-> Rel(i)]
           relocs == FlattenSeq(seqs)
<1>1. PICK n \in Nat : n = Len(outputs) /\ DOMAIN outputs = 1 .. n
  OBVIOUS
<1>2. \A i \in 1 .. n : Rel(i) \in Seq(Reloc)
  <2> SUFFICES ASSUME NEW i \in 1 .. n PROVE Rel(i) \in Seq(Reloc)
    OBVIOUS
  <2>1. outputs[i] \in JobKeys(m)
    BY <1>1 DEF ToSet, JobKeys
  <2>2. IsCompiled(m, CompiledFunction(m, outputs[i]))
    BY <2>1, JobsCompile
  <2> QED BY <2>2, RelocationsAre
<1>3. seqs \in Seq(Seq(Reloc)) /\ DOMAIN seqs = 1 .. n /\ \A i \in 1 .. n : seqs[i] = Rel(i)
  <2>1. seqs = [i \in 1 .. n |-> Rel(i)]
    BY <1>1
  <2> HIDE DEF Rel
  <2>2. seqs \in [1 .. n -> Seq(Reloc)] /\ DOMAIN seqs = 1 .. n /\ \A i \in 1 .. n : seqs[i] = Rel(i)
    BY <1>2, <2>1
  <2>3. PICK T : T = Seq(Reloc)
    OBVIOUS
  <2> HIDE DEF seqs
  <2>4. seqs \in [1 .. n -> T]
    BY <2>2, <2>3
  <2>5. seqs \in Seq(T)
    BY <2>4
  <2> QED BY <2>2, <2>3, <2>5
<1>4. relocs \in Seq(Reloc) /\ ToSet(relocs) = UNION {ToSet(seqs[i]) : i \in 1 .. n}
  <2> HIDE DEF seqs
  <2> QED BY <1>3, ElementsOfFlat
<1>5. PICK jobs : jobs = BuiltinJobs(m, outputs)
  OBVIOUS
<1>6. jobs = NeedFold!Fold(0, <<>>, relocs)
  BY <1>5 DEF FoldLeft, MapThenFoldSet, Max, NeedFold!Fold, NeedBuiltinOf, BuiltinJobs,
     NeedFold!Largest
<1> HIDE DEF relocs
<1>7. PICK len \in Nat : len = Len(relocs) /\ DOMAIN relocs = 1 .. len
  BY <1>4
<1>8. PICK acc : /\ acc[0] = <<>>
                 /\ \A i \in 1 .. len : acc[i] = NeedBuiltinOf(0, acc[i - 1], relocs[i])
                 /\ jobs = acc[len]
  <2>1. NeedFold!Inductive
    BY SetInduction DEF NeedFold!Inductive
  <2> QED BY <1>4, <1>6, <1>7, <2>1, NeedFold!FoldRuns, SMTT(30)
<1> DEFINE First(k) == {relocs[i] : i \in 1 .. k}
           Good(k) == acc[k] \in Seq(Key) /\ ToSet(acc[k]) = Builtins(First(k))
           S == {k \in Nat : k <= len => Good(k)}
<1>9. 0 \in S
  <2>1. Builtins(First(0)) = {}
    BY DEF Builtins
  <2>2. <<>> \in Seq(Key) /\ ToSet(<<>>) = {}
    BY DEF ToSet
  <2> QED BY <1>8, <2>1, <2>2
<1>10. \A k \in Nat : k \in S => k + 1 \in S
  <2> SUFFICES ASSUME NEW k \in Nat, k \in S PROVE k + 1 \in S
    OBVIOUS
  <2> SUFFICES ASSUME k + 1 <= len PROVE Good(k + 1)
    <3> HIDE DEF Good
    <3> QED OBVIOUS
  <2>1. Good(k) /\ k + 1 \in 1 .. len /\ (k + 1) - 1 = k
    OBVIOUS
  <2>2. acc[k + 1] = NeedBuiltin(acc[k], relocs[k + 1]) /\ relocs[k + 1] \in Reloc
    BY <1>4, <1>7, <1>8, <2>1 DEF NeedBuiltinOf
  <2>3. acc[k + 1] \in Seq(Key) /\ ToSet(acc[k + 1]) = ToSet(acc[k]) \cup Builtins({relocs[k + 1]})
    <3>1. acc[k] \in Seq(Key)
      BY <2>1
    <3> QED BY <2>2, <3>1, NeedsBuiltin
  <2>4. First(k + 1) = First(k) \cup {relocs[k + 1]}
    <3>1. 1 .. k + 1 = (1 .. k) \cup {k + 1}
      OBVIOUS
    <3> QED BY <3>1
  <2>5. Builtins(First(k) \cup {relocs[k + 1]}) = Builtins(First(k)) \cup Builtins({relocs[k + 1]})
    <3> HIDE DEF First
    <3> QED BY DEF Builtins
  <2> HIDE DEF First
  <2> QED BY <2>1, <2>3, <2>4, <2>5
<1>11. Nat \subseteq S
  <2> HIDE DEF S
  <2> QED BY <1>9, <1>10, SetInduction
<1>12. jobs \in Seq(Key) /\ ToSet(jobs) = Builtins(First(len))
  BY <1>8, <1>11
<1>13. First(len) = ToSet(relocs)
  BY <1>7 DEF ToSet
<1>14. ToSet(relocs) = UNION {CallsOf(m, key) : key \in FunctionKeys(m) \cup TrampolineKeys(m)}
  <2>1. \A i \in 1 .. n : ToSet(seqs[i]) = CallsOf(m, outputs[i])
    BY <1>3 DEF CallsOf
  <2>2. FunctionKeys(m) \cup TrampolineKeys(m) = {outputs[i] : i \in 1 .. n}
    BY <1>1 DEF ToSet
  <2> HIDE DEF seqs
  <2> QED BY <1>4, <2>1, <2>2
<1> QED BY <1>5, <1>12, <1>13, <1>14 DEF Needed

\* The position of an output is that of its key.
LEMMA Positions ==
  ASSUME NEW outputs \in Seq(Key), NEW key \in ToSet(outputs)
  PROVE  Position(outputs, key) \in DOMAIN outputs /\ outputs[Position(outputs, key)] = key
<1>1. PICK n \in Nat : n = Len(outputs) /\ DOMAIN outputs = 1 .. n
  OBVIOUS
<1> DEFINE I == {i \in DOMAIN outputs : outputs[i] = key}
           D == {k \in Nat : n - k \in I}
<1>2. PICK i \in I : TRUE
  BY DEF ToSet
<1>3. n - i \in D
  BY <1>1
<1>4. PICK k \in D : \A j \in D : k <= j
  <2> HIDE DEF D
  <2>1. D \subseteq Nat /\ D # {}
    BY <1>3 DEF D
  <2> QED BY <2>1, Least
<1>5. n - k \in I /\ \A j \in I : n - k >= j
  <2>1. \A j \in I : n - j \in D /\ j \in Nat
    BY <1>1
  <2>2. \A j \in I : k <= n - j
    BY <1>4, <2>1
  <2>3. k \in Nat /\ n - k \in I
    BY <1>4
  <2>4. ASSUME NEW j \in I PROVE n - k >= j
    <3>1. j \in Nat /\ k <= n - j
      BY <2>1, <2>2
    <3> QED BY <2>3, <3>1
  <2> QED BY <2>3, <2>4
<1>6. Max(I) \in I
  <2> HIDE DEF I
  <2> QED BY <1>5 DEF Max
<1> QED BY <1>6 DEF Position

-----------------------------------------------------------------------------
(* Linking the outputs of a module.                                        *)

\* The promises of the code generator, in the terms of the layout and the trap table.
LEMMA CompiledIs ==
  ASSUME NEW m, NEW fn, IsCompiled(m, fn)
  PROVE  Sized(fn) /\ Trapping(fn) /\ fn.len > 0 /\ \A i \in DOMAIN fn.traps : fn.traps[i].at < fn.len
<1>1. fn.len \in Nat \ {0} /\ fn.align \in Nat \ {0} /\ fn.traps \in Seq([at : Nat, code : Nat])
  BY DEF IsCompiled
<1>2. \A i \in DOMAIN fn.traps : fn.traps[i] \in Info
  <2>1. \A i \in DOMAIN fn.traps : fn.traps[i] \in [at : Nat, code : Nat]
    <3> DEFINE T == [at : Nat, code : Nat]
    <3>1. fn.traps \in Seq(T)
      BY <1>1
    <3> HIDE DEF T
    <3>2. \A i \in DOMAIN fn.traps : fn.traps[i] \in T
      BY <3>1
    <3> QED BY <3>2 DEF T
  <2>2. \A i \in DOMAIN fn.traps : \E trap \in Trap : fn.traps[i].code = TrapCode(trap)
    BY Zenon DEF IsCompiled, Trap
  <2> QED BY <2>1, <2>2 DEF Info
<1>3. fn.traps \in Seq(Info)
  <2>1. fn.traps \in [1 .. Len(fn.traps) -> Info] /\ Len(fn.traps) \in Nat
    <3>1. fn.traps = [i \in 1 .. Len(fn.traps) |-> fn.traps[i]] /\ DOMAIN fn.traps = 1 .. Len(fn.traps)
          /\ Len(fn.traps) \in Nat
      BY <1>1
    <3> QED BY <1>2, <3>1
  <2> QED BY <2>1
<1> QED BY <1>1, <1>3 DEF Sized, Trapping, IsCompiled, Ascending

\* Of a module's outputs: each is what the code generator promises of a function, and
\* what it calls, a function or a builtin, is among the outputs too.
LEMMA CompleteIs ==
  ASSUME NEW m, IsModule(m), NEW outputs, Complete(m, outputs)
  PROVE  /\ outputs \in Seq(Key)
         /\ \A i \in DOMAIN outputs : IsCompiled(m, CompiledFunction(m, outputs[i]))
         /\ \A i \in DOMAIN outputs : \A r \in CallsOf(m, outputs[i]) :
              IF r.target = "Wasm"
              THEN WasmFunction(DefinedFuncIndex(m, r.index)) \in ToSet(outputs)
              ELSE WasmToBuiltinTrampoline(r.index) \in ToSet(outputs)
<1>1. \A r \in UNION {CallsOf(m, key) : key \in FunctionKeys(m) \cup TrampolineKeys(m)} :
        r.target \in {"Wasm", "Builtin"} /\ r.index \in Nat
  <2> SUFFICES ASSUME NEW key \in FunctionKeys(m) \cup TrampolineKeys(m), NEW r \in CallsOf(m, key)
               PROVE  r.target \in {"Wasm", "Builtin"} /\ r.index \in Nat
    OBVIOUS
  <2>1. IsCompiled(m, CompiledFunction(m, key))
    BY JobsCompile DEF JobKeys
  <2>2. Relocations(CompiledFunction(m, key)) \in Seq(Reloc)
    BY <2>1, RelocationsAre
  <2>3. r \in Reloc
    BY <2>2 DEF CallsOf, ToSet
  <2> QED BY <2>3 DEF Reloc
<1>2. Needed(m) \subseteq BuiltinKeys
  BY <1>1 DEF Needed, Builtins, BuiltinKeys
<1>3. ASSUME NEW i \in DOMAIN outputs PROVE outputs[i] \in JobKeys(m)
  BY <1>2 DEF Complete, JobKeys, ToSet
<1>4. ASSUME NEW i \in DOMAIN outputs PROVE IsCompiled(m, CompiledFunction(m, outputs[i]))
  BY <1>3, JobsCompile
<1>5. ASSUME NEW i \in DOMAIN outputs, NEW r \in CallsOf(m, outputs[i])
      PROVE  IF r.target = "Wasm"
             THEN WasmFunction(DefinedFuncIndex(m, r.index)) \in ToSet(outputs)
             ELSE WasmToBuiltinTrampoline(r.index) \in ToSet(outputs)
  <2>1. outputs[i] \notin BuiltinKeys
    <3> SUFFICES ASSUME outputs[i] \in BuiltinKeys PROVE FALSE
      OBVIOUS
    <3>1. CompiledFunction(m, outputs[i]) = BuiltinBody
      BY OutputOf DEF BuiltinKeys
    <3>2. BuiltinBody.relocs = <<>>
      BY DEF BuiltinBody
    <3>3. Relocations(BuiltinBody) = <<>>
      BY <3>2 DEF Relocations
    <3> QED BY <3>1, <3>3 DEF CallsOf, ToSet
  <2>2. outputs[i] \in FunctionKeys(m) \cup TrampolineKeys(m)
    BY <1>3, <2>1 DEF JobKeys
  <2>3. r.target \in {"Wasm", "Builtin"} /\ r.index \in Nat
    BY <1>1, <2>2
  <2>4. CASE r.target = "Wasm"
    <3>1. PICK n \in Nat : n = Len(m.funcs) /\ DOMAIN m.funcs = 1 .. n
      BY LenProperties DEF IsModule
    <3>2. DefinedFuncIndex(m, r.index) \in 0 .. n - 1
      BY <1>4, <2>4, <3>1, RelocationsAre DEF CallsOf
    <3>3. PICK d : d = DefinedFuncIndex(m, r.index) + 1
      OBVIOUS
    <3>4. d \in DOMAIN m.funcs /\ d - 1 = DefinedFuncIndex(m, r.index)
      BY <3>1, <3>2, <3>3
    <3>5. WasmFunction(DefinedFuncIndex(m, r.index)) \in FunctionKeys(m)
      BY <3>4 DEF FunctionKeys
    <3> QED BY <2>4, <3>5 DEF Complete
  <2>5. CASE r.target = "Builtin"
    <3>1. WasmToBuiltinTrampoline(r.index) \in Needed(m)
      BY <2>2, <2>5 DEF Needed, Builtins
    <3> QED BY <2>5, <3>1 DEF Complete
  <2> QED BY <2>3, <2>4, <2>5
<1> QED BY <1>4, <1>5 DEF Complete

\* The parts of what link_and_finish returns, for the locations it laid out.
PartsOf(m, outputs, linked, locs) ==
  /\ Laid(m, outputs, Len(outputs), linked.text, locs)
  /\ linked.calls = ResolvedCalls(m, outputs, locs)
  /\ linked.info = FunctionInfo(m, outputs, locs)
  /\ linked.offsets = TrapTable(m, outputs, locs).offsets
  /\ linked.traps = TrapTable(m, outputs, locs).traps

\* link_and_finish lays the outputs of a module out and does not panic.
LEMMA LinksLaidOut ==
  ASSUME NEW m, IsModule(m), NEW outputs, Complete(m, outputs),
         NEW linked, linked = LinkAndFinish(m, outputs)
  PROVE  linked.panics = FALSE /\ \E locs : PartsOf(m, outputs, linked, locs)
<1>1. PICK appended : appended = AppendOutputs(m, outputs)
  OBVIOUS
<1>2. PICK locs : locs = appended.locs
  OBVIOUS
<1>3. PICK table : table = TrapTable(m, outputs, locs)
  OBVIOUS
<1>4. /\ linked.text = appended.text
      /\ linked.calls = ResolvedCalls(m, outputs, locs)
      /\ linked.info = FunctionInfo(m, outputs, locs)
      /\ linked.offsets = table.offsets
      /\ linked.traps = table.traps
      /\ linked.panics = (\/ DebugAssertions /\ ~table.sorted
                          \/ \E i \in DOMAIN outputs :
                               \E r \in ToSet(Relocations(CompiledFunction(m, outputs[i]))) :
                                 r.target = "Wasm" /\ IsImportedFunc(m, r.index))
  BY <1>1, <1>2, <1>3 DEF LinkAndFinish
<1>5. /\ outputs \in Seq(Key)
      /\ \A i \in DOMAIN outputs : IsCompiled(m, CompiledFunction(m, outputs[i]))
  BY CompleteIs
<1>6. \A i \in DOMAIN outputs : Sized(CompiledFunction(m, outputs[i])) /\ Trapping(CompiledFunction(m, outputs[i]))
  BY <1>5, CompiledIs
<1>7. Laid(m, outputs, Len(outputs), linked.text, locs)
  BY <1>1, <1>2, <1>4, <1>5, <1>6, OutputsLaidOut
<1>8. table.sorted = TRUE
  <2>1. IsTable(table)
    BY <1>3, <1>5, <1>6, <1>7, TrapTableIs
  <2> QED BY <2>1 DEF IsTable
<1>9. ASSUME NEW i \in DOMAIN outputs, NEW r \in ToSet(Relocations(CompiledFunction(m, outputs[i]))),
              r.target = "Wasm"
       PROVE  ~IsImportedFunc(m, r.index)
  <2>1. DefinedFuncIndex(m, r.index) \in 0 .. Len(m.funcs) - 1
    BY <1>5, <1>9, RelocationsAre
  <2>2. r.index \in Nat
    <3>1. Relocations(CompiledFunction(m, outputs[i])) \in Seq(Reloc)
      BY <1>5, RelocationsAre
    <3>2. r \in Reloc
      BY <3>1 DEF ToSet
    <3> QED BY <3>2 DEF Reloc
  <2>3. m.imports \in Nat
    BY DEF IsModule
  <2> QED BY <2>1, <2>2, <2>3 DEF DefinedFuncIndex, IsImportedFunc
<1>10. linked.panics = FALSE
  BY <1>4, <1>8, <1>9
<1>11. PartsOf(m, outputs, linked, locs)
  BY <1>3, <1>4, <1>7 DEF PartsOf
<1> QED BY <1>10, <1>11

\* Every output lies whole at its place in the text, and all other bytes are padding.
Placed(m, outputs, text, locs) ==
  /\ text \in Seq(Byte) /\ Len(text) \in Nat /\ DOMAIN text = 1 .. Len(text)
  /\ \A i \in DOMAIN outputs :
       /\ locs[i].start \in Nat /\ locs[i].length \in Nat \ {0}
       /\ locs[i].length = CompiledFunction(m, outputs[i]).len
       /\ locs[i].start + locs[i].length <= Len(text)
       /\ \A j \in 0 .. locs[i].length - 1 : text[locs[i].start + j + 1] = <<outputs[i], j>>
  /\ \A b \in DOMAIN text : text[b] # <<>> =>
       \E i \in DOMAIN outputs, j \in Nat :
          j < locs[i].length /\ b = locs[i].start + j + 1 /\ text[b] = <<outputs[i], j>>

\* That is so for what link_and_finish lays out.
LEMMA BytesOf ==
  ASSUME NEW m, IsModule(m), NEW outputs, Complete(m, outputs), NEW text, NEW locs,
         Laid(m, outputs, Len(outputs), text, locs)
  PROVE  Placed(m, outputs, text, locs)
<1>1. PICK n \in Nat : n = Len(outputs) /\ DOMAIN outputs = 1 .. n
  BY LenProperties DEF Complete
<1>2. text \in Seq(Byte) /\ Len(text) \in Nat /\ DOMAIN text = 1 .. Len(text)
  <2>1. text \in Seq(Byte)
    BY DEF Laid
  <2> QED BY <2>1, LenProperties
<1>3. \A i \in DOMAIN outputs : locs[i] \in Loc
  <2>1. locs \in Seq(Loc) /\ Len(locs) = n
    BY <1>1 DEF Laid
  <2> QED BY <1>1, <2>1
<1>4. ASSUME NEW i \in DOMAIN outputs
      PROVE  /\ locs[i].start \in Nat /\ locs[i].length \in Nat \ {0}
             /\ locs[i].length = CompiledFunction(m, outputs[i]).len
             /\ locs[i].start + locs[i].length <= Len(text)
             /\ \A j \in 0 .. locs[i].length - 1 : text[locs[i].start + j + 1] = <<outputs[i], j>>
  <2>1. IsCompiled(m, CompiledFunction(m, outputs[i]))
    BY CompleteIs
  <2>2. CompiledFunction(m, outputs[i]).len > 0
    BY <2>1, CompiledIs
  <2>3. locs[i].start \in Nat /\ locs[i].length \in Nat
    BY <1>3 DEF Loc
  <2>4. /\ locs[i].length = CompiledFunction(m, outputs[i]).len
        /\ locs[i].start + locs[i].length <= Len(text)
        /\ \A j \in 0 .. locs[i].length - 1 : text[locs[i].start + j + 1] = <<outputs[i], j>>
    BY <1>1 DEF Laid
  <2> QED BY <2>2, <2>3, <2>4
<1>5. ASSUME NEW b \in DOMAIN text, text[b] # <<>>
      PROVE  \E i \in DOMAIN outputs, j \in Nat :
                j < locs[i].length /\ b = locs[i].start + j + 1 /\ text[b] = <<outputs[i], j>>
  <2>1. PICK i \in DOMAIN outputs : \E j \in 0 .. locs[i].length - 1 : b = locs[i].start + j + 1
    <3>1. b \in 1 .. Len(text)
      BY <1>2
    <3>2. \E i \in 1 .. Len(outputs) : \E j \in 0 .. locs[i].length - 1 : b = locs[i].start + j + 1
      BY <1>5, <3>1 DEF Laid
    <3> QED BY <1>1, <3>2
  <2>2. PICK j \in 0 .. locs[i].length - 1 : b = locs[i].start + j + 1
    BY <2>1
  <2>3. j \in Nat /\ j < locs[i].length
    BY <1>4
  <2> QED BY <1>4, <2>2, <2>3
<1> QED BY <1>2, <1>4, <1>5 DEF Placed

\* In a build with debug assertions link_and_finish resolves every call in the text to
\* the first byte of what it was compiled to call: the function with its FuncIndex, or
\* the trampoline of the builtin.
THEOREM CallsAreRelocated ==
  ASSUME NEW m, IsModule(m), NEW outputs, Complete(m, outputs), DebugAssertions,
         NEW linked, linked = LinkAndFinish(m, outputs),
         NEW i \in DOMAIN linked.text, linked.text[i] # <<>>,
         NEW r \in CallsOf(m, linked.text[i][1]), r.at = linked.text[i][2]
  PROVE  \E call \in linked.calls :
           /\ call.at = i - 1
           /\ call.to \in 0 .. Len(linked.text) - 1
           /\ linked.text[call.to + 1] =
                IF r.target = "Wasm"
                THEN <<WasmFunction(DefinedFuncIndex(m, r.index)), 0>>
                ELSE <<WasmToBuiltinTrampoline(r.index), 0>>
<1>1. PICK locs : PartsOf(m, outputs, linked, locs)
  BY LinksLaidOut
<1>2. PICK text : text = linked.text
  OBVIOUS
<1>3. Placed(m, outputs, text, locs)
  BY <1>1, <1>2, BytesOf DEF PartsOf
<1>4. PICK k \in DOMAIN outputs, j \in Nat : i = locs[k].start + j + 1 /\ text[i] = <<outputs[k], j>>
  BY <1>2, <1>3 DEF Placed
<1>5. r \in CallsOf(m, outputs[k]) /\ r.at = j
  BY <1>2, <1>4
<1>6. PICK target : target = IF r.target = "Wasm" THEN WasmFunction(DefinedFuncIndex(m, r.index))
                             ELSE WasmToBuiltinTrampoline(r.index)
  OBVIOUS
<1>7. outputs \in Seq(Key) /\ target \in ToSet(outputs)
  BY <1>5, <1>6, CompleteIs
<1>8. PICK t \in DOMAIN outputs : t = TargetPosition(m, outputs, r) /\ outputs[t] = target
  BY <1>6, <1>7, Positions DEF TargetPosition
<1>9. PICK call : call = [at |-> locs[k].start + r.at, to |-> locs[t].start]
  OBVIOUS
<1>10. call \in linked.calls
  <2> DEFINE relocs == Relocations(CompiledFunction(m, outputs[k]))
  <2>1. PICK q \in DOMAIN relocs : r = relocs[q]
    BY <1>5 DEF CallsOf, ToSet
  <2>2. call = [at |-> locs[k].start + relocs[q].at,
                to |-> IF DebugAssertions THEN locs[TargetPosition(m, outputs, relocs[q])].start
                       ELSE Placeholder]
    BY <1>8, <1>9, <2>1
  <2>3. linked.calls = ResolvedCalls(m, outputs, locs)
    BY <1>1 DEF PartsOf
  <2> DEFINE RelocsOf(o) == Relocations(CompiledFunction(m, outputs[o]))
             CallsIn(o) == {[at |-> locs[o].start + RelocsOf(o)[x].at,
                             to |-> IF DebugAssertions
                                    THEN locs[TargetPosition(m, outputs, RelocsOf(o)[x])].start
                                    ELSE Placeholder] : x \in DOMAIN RelocsOf(o)}
  <2>4. call \in CallsIn(k)
    BY <2>2, Zenon
  <2>5. linked.calls = UNION {CallsIn(o) : o \in DOMAIN outputs}
    BY <2>3, Zenon DEF ResolvedCalls
  <2> HIDE DEF CallsIn
  <2> QED BY <2>4, <2>5
<1>11. call.at = i - 1 /\ call.to = locs[t].start
  <2>1. PICK start \in Nat : start = locs[k].start
    BY <1>3 DEF Placed
  <2>2. call.at = start + j /\ call.to = locs[t].start /\ i = start + j + 1
    BY <1>4, <1>5, <1>9, <2>1
  <2> QED BY <2>2
<1>12. locs[t].start \in 0 .. Len(text) - 1 /\ text[locs[t].start + 1] = <<target, 0>>
  <2>1. locs[t].start \in Nat /\ locs[t].length \in Nat \ {0} /\ locs[t].start + locs[t].length <= Len(text)
    BY <1>3 DEF Placed
  <2>2. 0 \in 0 .. locs[t].length - 1 /\ locs[t].start + 0 + 1 = locs[t].start + 1
    BY <2>1
  <2>3. text[locs[t].start + 0 + 1] = <<target, 0>>
    BY <1>3, <1>8, <2>2 DEF Placed
  <2>4. Len(text) \in Nat
    BY <1>3 DEF Placed
  <2>5. text[locs[t].start + 1] = <<target, 0>>
    BY <2>2, <2>3
  <2>6. PICK start \in Nat, length \in Nat \ {0} : start = locs[t].start /\ length = locs[t].length
    BY <2>1
  <2>7. start \in 0 .. Len(text) - 1
    BY <2>1, <2>4, <2>6
  <2> QED BY <2>5, <2>6, <2>7
<1> QED BY <1>2, <1>6, <1>10, <1>11, <1>12

-----------------------------------------------------------------------------
(* The function table.                                                     *)

\* The keys of the functions in the order of the BTreeMap that the function table is
\* built from: the d-th one is that of the d-th defined function.
LEMMA SortedKeys ==
  ASSUME NEW m, IsModule(m), NEW keys, keys = FunctionKeys(m),
         NEW sorted, sorted = CHOOSE s \in [1 .. Cardinality(keys) -> keys] :
                                \A i, j \in DOMAIN s : i < j => s[i].index < s[j].index
  PROVE  DOMAIN sorted = DOMAIN m.funcs /\ \A d \in DOMAIN m.funcs : sorted[d] = WasmFunction(d - 1)
<1>1. PICK n \in Nat : n = Len(m.funcs) /\ DOMAIN m.funcs = 1 .. n
  BY LenProperties DEF IsModule
<1>2. keys = {WasmFunction(d - 1) : d \in 1 .. n}
  BY <1>1 DEF FunctionKeys
<1> DEFINE f == [d \in 1 .. n |-> WasmFunction(d - 1)]
<1>3. \A d \in 1 .. n : f[d] = WasmFunction(d - 1) /\ f[d].index = d - 1
  BY KindsOfKeys
<1>4. f \in [1 .. n -> keys] /\ DOMAIN f = 1 .. n
  BY <1>2
<1> HIDE DEF f
<1>5. Cardinality(keys) = n
  <2>1. \A d, e \in 1 .. n : f[d] = f[e] => d = e
    <3> SUFFICES ASSUME NEW d \in 1 .. n, NEW e \in 1 .. n, f[d] = f[e] PROVE d = e
      OBVIOUS
    <3>1. d - 1 = e - 1
      BY <1>3
    <3> QED BY <3>1
  <2>2. \A k \in keys : \E d \in 1 .. n : f[d] = k
    BY <1>2, <1>3
  <2>3. f \in Bijection(1 .. n, keys)
    BY <1>4, <2>1, <2>2 DEF Bijection, Injection, Surjection, IsInjective
  <2>4. IsFiniteSet(1 .. n) /\ Cardinality(1 .. n) = n
    <3>1. 1 \in Int /\ n \in Int
      OBVIOUS
    <3>2. IsFiniteSet(1 .. n) /\ Cardinality(1 .. n) = IF 1 > n THEN 0 ELSE n - 1 + 1
      BY <3>1, FS_Interval
    <3> QED BY <3>2
  <2>5. ExistsBijection(1 .. n, keys)
    BY <2>3 DEF ExistsBijection
  <2> QED BY <2>4, <2>5, FS_Bijection
<1>6. /\ sorted \in [1 .. n -> keys]
      /\ \A i, j \in 1 .. n : i < j => sorted[i].index < sorted[j].index
  <2>1. \A i, j \in DOMAIN f : i < j => f[i].index < f[j].index
    BY <1>3, <1>4
  <2>2. \E s \in [1 .. n -> keys] : \A i, j \in DOMAIN s : i < j => s[i].index < s[j].index
    BY <1>4, <2>1
  <2>3. sorted = CHOOSE s \in [1 .. n -> keys] :
                   \A i, j \in DOMAIN s : i < j => s[i].index < s[j].index
    BY <1>5
  <2> QED BY <2>2, <2>3
<1> DEFINE g == [i \in 1 .. n |-> sorted[i].index]
<1>7. ASSUME NEW i \in 1 .. n
      PROVE  \E d \in 1 .. n : sorted[i] = WasmFunction(d - 1) /\ sorted[i].index = d - 1
  <2>1. sorted[i] \in keys
    BY <1>6
  <2>2. PICK d \in 1 .. n : sorted[i] = WasmFunction(d - 1)
    BY <1>2, <2>1
  <2>3. sorted[i].index = d - 1
    BY <2>2, KindsOfKeys
  <2> QED BY <2>2, <2>3
<1>8. \A i \in 1 .. n : g[i] \in 0 .. n - 1
  <2> SUFFICES ASSUME NEW i \in 1 .. n PROVE sorted[i].index \in 0 .. n - 1
    OBVIOUS
  <2>1. PICK d \in 1 .. n : sorted[i].index = d - 1
    BY <1>7
  <2> QED BY <2>1
<1>9. \A i, j \in 1 .. n : i < j => g[i] < g[j]
  <2> SUFFICES ASSUME NEW i \in 1 .. n, NEW j \in 1 .. n, i < j PROVE g[i] < g[j]
    BY Zenon
  <2>1. sorted[i].index < sorted[j].index
    BY <1>6
  <2>2. g[i] = sorted[i].index /\ g[j] = sorted[j].index
    BY Zenon
  <2> HIDE DEF g
  <2> QED BY <2>1, <2>2
<1>10. \A i \in 1 .. n : g[i] = i - 1
  <2> HIDE DEF g
  <2> QED BY <1>8, <1>9, CountsUp
<1>11. ASSUME NEW i \in 1 .. n PROVE sorted[i] = WasmFunction(i - 1)
  <2>1. PICK d \in 1 .. n : sorted[i] = WasmFunction(d - 1) /\ sorted[i].index = d - 1
    BY <1>7
  <2>2. sorted[i].index = i - 1
    BY <1>10
  <2>3. d - 1 = i - 1
    BY <2>1, <2>2
  <2> QED BY <2>1, <2>3
<1> QED BY <1>1, <1>6, <1>11

\* Where the output of a key is found, the whole of it lies.
LEMMA PositionsWhole ==
  ASSUME NEW m, NEW outputs \in Seq(Key), NEW text, NEW locs, Placed(m, outputs, text, locs),
         NEW key \in ToSet(outputs)
  PROVE  IsWhole(m, text, locs[Position(outputs, key)], key)
<1>1. PICK p \in DOMAIN outputs : p = Position(outputs, key) /\ outputs[p] = key
  BY Positions
<1>2. IsWhole(m, text, locs[p], outputs[p])
  BY DEF Placed, IsWhole
<1> QED BY <1>1, <1>2

\* link_and_finish makes a function table with an entry for each defined function, which
\* is the whole of it, and with its own trampoline exactly when the function escapes.
THEOREM FunctionsAreFound ==
  ASSUME NEW m, IsModule(m), NEW outputs, Complete(m, outputs),
         NEW linked, linked = LinkAndFinish(m, outputs)
  PROVE  /\ DOMAIN linked.info = DOMAIN m.funcs
         /\ \A d \in DOMAIN m.funcs : Describes(m, linked.text, d, linked.info[d])
<1>1. PICK locs : PartsOf(m, outputs, linked, locs)
  BY LinksLaidOut
<1>2. PICK text : text = linked.text
  OBVIOUS
<1>3. Placed(m, outputs, text, locs)
  BY <1>1, <1>2, BytesOf DEF PartsOf
<1>4. outputs \in Seq(Key)
  BY DEF Complete
<1>5. PICK n \in Nat : n = Len(m.funcs) /\ DOMAIN m.funcs = 1 .. n
  BY LenProperties DEF IsModule
<1> DEFINE keys == {k \in ToSet(outputs) : k.kind = WASM_FUNCTION_KIND}
           sorted == CHOOSE s \in [1 .. Cardinality(keys) -> keys] :
                       \A i, j \in DOMAIN s : i < j => s[i].index < s[j].index
           Tramp(d) == ArrayToWasmTrampoline(sorted[d].index)
           At(d) == [loc   |-> locs[Position(outputs, sorted[d])],
                     tramp |-> IF Contains(outputs, Tramp(d))
                               THEN <<locs[Position(outputs, Tramp(d))]>> ELSE <<>>]
<1>6. linked.info = [d \in DOMAIN sorted |-> At(d)]
  <2>1. linked.info = FunctionInfo(m, outputs, locs)
    BY <1>1 DEF PartsOf
  <2>2. FunctionInfo(m, outputs, locs) = [d \in DOMAIN sorted |-> At(d)]
    BY DEF FunctionInfo
  <2> QED BY ONLY <2>1, <2>2
<1>7. keys = FunctionKeys(m)
  <2>1. \A k \in FunctionKeys(m) : k.kind = 0
    BY KindsOfKeys DEF FunctionKeys
  <2>2. \A k \in TrampolineKeys(m) : k.kind = 2
    BY KindsOfKeys DEF TrampolineKeys
  <2>3. \A k \in Needed(m) : k.kind = 4
    BY KindsOfKeys DEF Needed, Builtins
  <2> QED BY <2>1, <2>2, <2>3 DEF Complete, WASM_FUNCTION_KIND
<1>8. DOMAIN sorted = DOMAIN m.funcs /\ \A d \in DOMAIN m.funcs : sorted[d] = WasmFunction(d - 1)
  <2> HIDE DEF keys
  <2>1. sorted = CHOOSE s \in [1 .. Cardinality(keys) -> keys] :
                   \A i, j \in DOMAIN s : i < j => s[i].index < s[j].index
    OBVIOUS
  <2> HIDE DEF sorted
  <2> QED BY <1>7, <2>1, SortedKeys
<1> HIDE DEF keys, sorted
<1>9. ASSUME NEW d \in DOMAIN m.funcs PROVE Describes(m, text, d, linked.info[d])
  <2>1. PICK entry : entry = linked.info[d]
    OBVIOUS
  <2>2. PICK tramp : tramp = ArrayToWasmTrampoline(d - 1)
    OBVIOUS
  <2>3. Tramp(d) = tramp /\ sorted[d] = WasmFunction(d - 1)
    BY <1>8, <2>2, KindsOfKeys
  <2>4. /\ entry.loc = locs[Position(outputs, WasmFunction(d - 1))]
        /\ entry.tramp = IF Contains(outputs, tramp) THEN <<locs[Position(outputs, tramp)]>> ELSE <<>>
    <3>1. entry = At(d)
      BY <1>8, <1>6, <2>1
    <3>2. entry = [loc   |-> locs[Position(outputs, WasmFunction(d - 1))],
                   tramp |-> IF Contains(outputs, tramp) THEN <<locs[Position(outputs, tramp)]>> ELSE <<>>]
      BY <2>3, <3>1
    <3> QED BY <3>2
  <2>5. WasmFunction(d - 1) \in ToSet(outputs)
    BY DEF Complete, FunctionKeys
  <2>6. IsWhole(m, text, entry.loc, WasmFunction(d - 1))
    BY <1>3, <1>4, <2>4, <2>5, PositionsWhole
  <2>7. m.funcs[d].escapes <=> tramp \in ToSet(outputs)
    <3>1. tramp \notin FunctionKeys(m) /\ tramp \notin Needed(m)
      BY <2>2, KindsOfKeys DEF FunctionKeys, Needed, Builtins
    <3>2. m.funcs[d].escapes <=> tramp \in TrampolineKeys(m)
      <4>1. ASSUME NEW e \in DOMAIN m.funcs, tramp = ArrayToWasmTrampoline(e - 1) PROVE e = d
        <5>1. e - 1 = d - 1
          BY <2>2, <4>1, KindsOfKeys
        <5> QED BY <1>5, <5>1
      <4> QED BY <2>2, <4>1 DEF TrampolineKeys
    <3> QED BY <3>1, <3>2 DEF Complete
  <2>8. Contains(outputs, tramp) <=> tramp \in ToSet(outputs)
    <3>1. DOMAIN outputs = 1 .. Len(outputs)
      BY <1>4
    <3> QED BY <3>1 DEF Contains, ToSet
  <2>9. entry.tramp # <<>> <=> tramp \in ToSet(outputs)
    BY <2>4, <2>8
  <2>10. ASSUME tramp \in ToSet(outputs) PROVE IsWhole(m, text, entry.tramp[1], tramp)
    <3>1. entry.tramp[1] = locs[Position(outputs, tramp)]
      BY <2>4, <2>8, <2>10
    <3> QED BY <1>3, <1>4, <2>10, <3>1, PositionsWhole
  <2> QED BY <2>1, <2>2, <2>6, <2>7, <2>9, <2>10 DEF Describes
<1>10. DOMAIN linked.info = DOMAIN m.funcs
  BY <1>8, <1>6
<1> QED BY <1>2, <1>9, <1>10

-----------------------------------------------------------------------------
(* Looking traps up.                                                       *)

\* At an instruction that has a trap, that is the only one.
LEMMA RecordedOnce ==
  ASSUME NEW m, NEW key, Trapping(CompiledFunction(m, key)), NEW traps,
         traps = CompiledFunction(m, key).traps, NEW q \in DOMAIN traps
  PROVE  Recorded(m, <<key, traps[q].at>>) = {traps[q].code}
<1>1. PICK n \in Nat : DOMAIN traps = 1 .. n
  BY LenProperties DEF Trapping
<1>2. \A i \in 1 .. n : traps[i].at \in Nat
  <2>1. traps \in Seq(Info)
    BY DEF Trapping
  <2>2. \A i \in 1 .. n : traps[i] \in Info
    BY <1>1, <2>1
  <2> QED BY <2>2 DEF Info
<1>3. ASSUME NEW i \in 1 .. n, traps[i].at = traps[q].at PROVE i = q
  <2>1. i < q => i \in 1 .. q - 1
    BY <1>1
  <2>2. q < i => q \in 1 .. i - 1
    BY <1>1
  <2>3. \A a, b \in DOMAIN traps : b \in 1 .. a - 1 => traps[b].at < traps[a].at
    BY DEF Trapping, Ascending
  <2>4. CASE i < q
    <3>1. traps[i].at < traps[q].at
      BY <1>1, <2>1, <2>3, <2>4
    <3> QED BY <1>1, <1>2, <1>3, <3>1
  <2>5. CASE q < i
    <3>1. traps[q].at < traps[i].at
      BY <1>1, <2>2, <2>3, <2>5
    <3> QED BY <1>1, <1>2, <1>3, <3>1
  <2> QED BY <1>1, <2>4, <2>5
<1>4. {j \in DOMAIN traps : traps[j].at = traps[q].at} = {q}
  BY <1>1, <1>3
<1>5. PICK byte : byte = <<key, traps[q].at>>
  OBVIOUS
<1>6. byte # <<>> /\ byte[1] = key /\ byte[2] = traps[q].at
  BY <1>5
<1> QED BY <1>4, <1>5, <1>6 DEF Recorded

\* lookup_trap_code finds a trap at exactly the instructions that have one, and it is
\* that one (push_traps of src/compile/mod.rs, lookup_trap_code of
\* src/runtime/code_memory.rs).
THEOREM TrapsAreFound ==
  ASSUME NEW m, IsModule(m), NEW outputs, Complete(m, outputs),
         NEW linked, linked = LinkAndFinish(m, outputs),
         NEW offset \in 0 .. Len(linked.text) - 1
  PROVE  Found(linked, offset) = Recorded(m, linked.text[offset + 1])
<1>1. PICK locs : PartsOf(m, outputs, linked, locs)
  BY LinksLaidOut
<1>2. PICK text : text = linked.text
  OBVIOUS
<1>3. Placed(m, outputs, text, locs)
  BY <1>1, <1>2, BytesOf DEF PartsOf
<1>4. PICK n \in Nat : n = Len(outputs) /\ DOMAIN outputs = 1 .. n
  BY LenProperties DEF Complete
<1>5. PICK table : table = TrapTable(m, outputs, locs)
  OBVIOUS
<1>6. \A i \in DOMAIN outputs : /\ Trapping(CompiledFunction(m, outputs[i]))
                                /\ \A q \in DOMAIN CompiledFunction(m, outputs[i]).traps :
                                     CompiledFunction(m, outputs[i]).traps[q].at < CompiledFunction(m, outputs[i]).len
  BY CompleteIs, CompiledIs
<1>7. IsTable(table) /\ Pairs(table) = Entries(m, outputs, locs, n)
  <2>1. outputs \in Seq(Key) /\ Laid(m, outputs, Len(outputs), linked.text, locs)
    BY <1>1 DEF PartsOf, Complete
  <2> QED BY <1>4, <1>5, <1>6, <2>1, TrapTableIs
<1>8. linked.offsets = table.offsets /\ linked.traps = table.traps
  BY <1>1, <1>5 DEF PartsOf
<1> DEFINE Traps(i) == CompiledFunction(m, outputs[i]).traps
<1>9. ASSUME NEW i \in DOMAIN outputs, NEW q \in DOMAIN Traps(i)
      PROVE  /\ Traps(i)[q].at \in Nat
             /\ text[locs[i].start + Traps(i)[q].at + 1] = <<outputs[i], Traps(i)[q].at>>
             /\ TrapCode(FromTrapCode(Traps(i)[q].code)) = Traps(i)[q].code
  <2>1. PICK at : at = Traps(i)[q].at
    OBVIOUS
  <2>2. Traps(i)[q] \in Info
    <3>1. Traps(i) \in Seq(Info)
      BY <1>6 DEF Trapping
    <3> HIDE DEF Traps
    <3> QED BY <3>1
  <2>3. at \in Nat /\ at < locs[i].length
    <3>1. at \in Nat
      BY <2>1, <2>2 DEF Info
    <3>2. at < CompiledFunction(m, outputs[i]).len
      BY <1>6, <2>1
    <3> QED BY <1>3, <3>1, <3>2 DEF Placed
  <2>4. locs[i].length \in Nat /\ at \in 0 .. locs[i].length - 1
    BY <1>3, <2>3, SMTT(30) DEF Placed
  <2>5. text[locs[i].start + at + 1] = <<outputs[i], at>>
    BY <1>3, <2>4 DEF Placed
  <2>6. PICK trap \in Trap : Traps(i)[q].code = TrapCode(trap)
    BY <2>2 DEF Info
  <2>7. FromTrapCode(TrapCode(trap)) = trap
    BY TrapsRoundTrip
  <2> QED BY <2>1, <2>3, <2>5, <2>6, <2>7
<1>10. ASSUME NEW e
       PROVE  e \in Entries(m, outputs, locs, n) <=>
                \E i \in DOMAIN outputs : \E q \in DOMAIN Traps(i) : e = Entry(locs[i], Traps(i)[q])
  <2> DEFINE E(i) == {Entry(locs[i], trap) : trap \in ToSet(Traps(i))}
  <2>1. Entries(m, outputs, locs, n) = UNION {E(i) : i \in DOMAIN outputs}
    BY <1>4 DEF Entries
  <2>2. ASSUME NEW i \in DOMAIN outputs
        PROVE  e \in E(i) <=> \E q \in DOMAIN Traps(i) : e = Entry(locs[i], Traps(i)[q])
    <3> HIDE DEF Traps
    <3> QED BY DEF ToSet
  <2> HIDE DEF E, Traps
  <2> QED BY <2>1, <2>2
<1>11. CASE \E k \in DOMAIN linked.offsets : linked.offsets[k] = offset
  <2>1. PICK k \in DOMAIN table.offsets : /\ table.offsets[k] = offset
                                          /\ LookupTrapCode(linked.offsets, linked.traps, offset) = <<table.traps[k]>>
    BY <1>8, <1>11 DEF LookupTrapCode
  <2>2. <<offset, table.traps[k]>> \in Entries(m, outputs, locs, n)
    BY <1>7, <2>1 DEF Pairs
  <2>3. PICK i \in DOMAIN outputs : \E q \in DOMAIN Traps(i) :
          <<offset, table.traps[k]>> = Entry(locs[i], Traps(i)[q])
    BY <1>10, <2>2
  <2>4. PICK q \in DOMAIN Traps(i) : <<offset, table.traps[k]>> = Entry(locs[i], Traps(i)[q])
    BY <2>3
  <2>5. offset = locs[i].start + Traps(i)[q].at /\ table.traps[k] = FromTrapCode(Traps(i)[q].code)
    BY <2>4 DEF Entry
  <2>6. text[offset + 1] = <<outputs[i], Traps(i)[q].at>>
    BY <1>9, <2>5
  <2>7. TrapCode(table.traps[k]) = Traps(i)[q].code
    BY <1>9, <2>5
  <2>8. Recorded(m, text[offset + 1]) = {Traps(i)[q].code}
    <3>1. PICK key, traps : key = outputs[i] /\ traps = Traps(i)
      OBVIOUS
    <3>2. Trapping(CompiledFunction(m, key)) /\ traps = CompiledFunction(m, key).traps /\ q \in DOMAIN traps
      BY <1>6, <3>1
    <3>3. Recorded(m, <<key, traps[q].at>>) = {traps[q].code}
      BY <3>2, RecordedOnce
    <3> QED BY <2>6, <3>1, <3>3
  <2>9. ToSet(<<table.traps[k]>>) = {table.traps[k]}
    BY DEF ToSet
  <2>10. Found(linked, offset) = {TrapCode(table.traps[k])}
    BY <2>1, <2>9 DEF Found
  <2> QED BY <1>2, <2>7, <2>8, <2>10
<1>12. CASE ~\E k \in DOMAIN linked.offsets : linked.offsets[k] = offset
  <2>1. Found(linked, offset) = {}
    BY <1>12 DEF Found, LookupTrapCode, ToSet
  <2>2. ASSUME NEW code \in Recorded(m, text[offset + 1]) PROVE FALSE
    <3>1. text[offset + 1] # <<>>
      BY <2>2 DEF Recorded
    <3>2. offset + 1 \in DOMAIN text
      <4>1. Len(text) \in Nat /\ DOMAIN text = 1 .. Len(text)
        BY <1>3 DEF Placed
      <4> QED BY <1>2, <4>1
    <3>3. PICK i \in DOMAIN outputs, j \in Nat : offset + 1 = locs[i].start + j + 1 /\ text[offset + 1] = <<outputs[i], j>>
      BY <1>3, <3>1, <3>2 DEF Placed
    <3>4. text[offset + 1][1] = outputs[i] /\ text[offset + 1][2] = j
      BY <3>3
    <3>5. PICK q \in DOMAIN Traps(i) : Traps(i)[q].at = j
      BY <2>2, <3>1, <3>4 DEF Recorded
    <3>6. offset = locs[i].start + Traps(i)[q].at
      <4>1. locs[i].start \in Nat
        BY <1>3 DEF Placed
      <4> QED BY <3>3, <3>5, <4>1
    <3>7. Entry(locs[i], Traps(i)[q]) \in Entries(m, outputs, locs, n)
      BY <1>10, SMTT(30)
    <3>8. PICK k \in DOMAIN table.offsets : Entry(locs[i], Traps(i)[q]) = <<table.offsets[k], table.traps[k]>>
      BY <1>7, <3>7 DEF Pairs
    <3>9. table.offsets[k] = offset
      BY <3>6, <3>8 DEF Entry
    <3> QED BY <1>8, <1>12, <3>9
  <2> QED BY <1>2, <2>1, <2>2
<1> QED BY <1>11, <1>12

-----------------------------------------------------------------------------
(* The contract.                                                           *)

\* What link_and_finish makes of the outputs of a module.
LEMMA LinkedWell ==
  ASSUME NEW m, IsModule(m), NEW outputs, Complete(m, outputs),
         NEW linked, linked = LinkAndFinish(m, outputs)
  PROVE  WellLinked(m, linked)
<1>1. linked.panics = FALSE /\ linked.text \in Seq(Byte)
  <2>1. linked.panics = FALSE /\ \E locs : PartsOf(m, outputs, linked, locs)
    BY LinksLaidOut
  <2> QED BY <2>1 DEF PartsOf, Laid
<1>2. FunctionsDescribed(m, linked)
  BY FunctionsAreFound DEF FunctionsDescribed
<1>3. TrapsFound(m, linked)
  <2> SUFFICES ASSUME NEW offset \in 0 .. Len(linked.text) - 1
               PROVE  Found(linked, offset) = Recorded(m, linked.text[offset + 1])
    BY DEF TrapsFound
  <2> QED BY TrapsAreFound
<1>4. ASSUME DebugAssertions PROVE CallsResolved(m, linked)
  <2> SUFFICES ASSUME NEW i \in DOMAIN linked.text, linked.text[i] # <<>>,
                      NEW r \in CallsOf(m, linked.text[i][1]), r.at = linked.text[i][2]
               PROVE  Lands(m, linked, i, r)
    BY DEF CallsResolved
  <2>1. \E call \in linked.calls :
           /\ call.at = i - 1
           /\ call.to \in 0 .. Len(linked.text) - 1
           /\ linked.text[call.to + 1] =
                IF r.target = "Wasm"
                THEN <<WasmFunction(DefinedFuncIndex(m, r.index)), 0>>
                ELSE <<WasmToBuiltinTrampoline(r.index), 0>>
    BY <1>4, CallsAreRelocated, SMTT(30)
  <2> QED BY <2>1 DEF Lands
<1> QED BY <1>1, <1>2, <1>3, <1>4 DEF WellLinked

\* Compiling and linking a module keep the contract that loading relies on.
THEOREM LinkKeepsContract ==
  ASSUME NEW m, IsModule(m)
  PROVE  Contract(m)
<1>1. StartsJobs(m)
  BY FromModuleIs DEF StartsJobs
<1>2. StartsBuiltins(m)
  BY BuiltinJobsAre DEF StartsBuiltins
<1>3. LinksWell(m)
  <2> SUFFICES ASSUME NEW outputs, Complete(m, outputs)
               PROVE  WellLinked(m, LinkAndFinish(m, outputs))
    BY DEF LinksWell
  <2>1. PICK linked : linked = LinkAndFinish(m, outputs)
    OBVIOUS
  <2>2. WellLinked(m, linked)
    BY <2>1, LinkedWell
  <2> QED BY <2>1, <2>2
<1> QED BY <1>1, <1>2, <1>3 DEF Contract
=============================================================================
