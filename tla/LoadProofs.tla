----------------------------- MODULE LoadProofs -----------------------------
(***************************************************************************)
(* The properties of ModuleLoad, for any modules, number of loads and      *)
(* threads, page size and address space.  First the code registry alone;   *)
(* then registering code, which completes the proof that the invariant of  *)
(* LoadSteps is one; then what the invariant implies, and, with the proof  *)
(* that linking keeps its contract (LinkProofs), the theorems.             *)
(***************************************************************************)
EXTENDS LoadSteps, LinkProofs

-----------------------------------------------------------------------------
(* The code registry.                                                      *)

\* Regions are not empty, and no two of them share an address.
Separate(regions) ==
  /\ DOMAIN regions \subseteq Nat
  /\ \A e \in DOMAIN regions : regions[e].start \in Nat /\ regions[e].start <= e
  /\ \A e, f \in DOMAIN regions :
       e # f => e < regions[f].start \/ f < regions[e].start

\* An address lies in the region that ends at e.
LiesIn(regions, e, pc) == regions[e].start <= pc /\ pc <= e

\* Among the last bytes that are not below an address there is a least one, so
\* that range(pc..).next() of the code is what FirstFrom chooses.
LEMMA FirstFromExists ==
  ASSUME NEW regions, Separate(regions), NEW pc \in Nat,
         \E e \in DOMAIN regions : e >= pc
  PROVE  /\ FirstFrom(regions, pc) \in DOMAIN regions
         /\ FirstFrom(regions, pc) >= pc
<1> DEFINE above == {e \in DOMAIN regions : e >= pc}
           less == {pair \in Nat \X Nat : pair[1] < pair[2]}
<1>1. above \subseteq Nat /\ above # {}
  BY DEF Separate
<1>2. IsWellFoundedOn(less, Nat)
  BY NatLessThanWellFounded DEF OpToRel
<1>3. PICK e \in above : \A f \in above : ~(<<f, e>> \in less)
  <2> HIDE DEF above, less
  <2> QED BY <1>1, <1>2, WFMin
<1>4. \A f \in DOMAIN regions : f >= pc => e <= f
  <2> SUFFICES ASSUME NEW f \in DOMAIN regions, f >= pc, ~(e <= f) PROVE FALSE
    OBVIOUS
  <2>1. f \in Nat /\ e \in Nat /\ f < e
    BY <1>1
  <2>2. <<f, e>> \in less
    BY <2>1
  <2> QED BY <1>3, <2>2
<1> QED BY <1>3, <1>4 DEF FirstFrom

\* lookup_code finds the code whose region an address lies in, and the offset of
\* the address in it, whatever other code is registered next to it.
THEOREM LookupFinds ==
  ASSUME NEW regions, Separate(regions), NEW pc \in Nat,
         NEW e \in DOMAIN regions, LiesIn(regions, e, pc)
  PROVE  LookupCode(regions, pc) =
           <<[code |-> regions[e].code, offset |-> pc - regions[e].start]>>
<1>1. e >= pc /\ e \in Nat
  BY DEF Separate, LiesIn
<1>2. \A f \in DOMAIN regions : f >= pc => e <= f
  BY DEF Separate, LiesIn
<1>3. FirstFrom(regions, pc) = e
  <2>1. \A f \in DOMAIN regions :
          (f >= pc /\ \A g \in DOMAIN regions : g >= pc => f <= g) => f = e
    BY <1>1, <1>2 DEF Separate
  <2> QED BY <1>1, <1>2, <2>1 DEF FirstFrom
<1> QED BY <1>1, <1>3 DEF LookupCode, LiesIn, Separate

\* lookup_code finds nothing for an address that lies in no region, also between
\* two regions and in the padding behind a text.
THEOREM LookupMisses ==
  ASSUME NEW regions, Separate(regions), NEW pc \in Nat,
         \A e \in DOMAIN regions : ~LiesIn(regions, e, pc)
  PROVE  LookupCode(regions, pc) = <<>>
<1>1. CASE \E e \in DOMAIN regions : e >= pc
  <2>1. FirstFrom(regions, pc) \in DOMAIN regions /\ FirstFrom(regions, pc) >= pc
    BY <1>1, FirstFromExists
  <2>2. ~(pc >= regions[FirstFrom(regions, pc)].start)
    BY <2>1 DEF LiesIn, Separate
  <2> QED BY <1>1, <2>2 DEF LookupCode
<1>2. CASE ~\E e \in DOMAIN regions : e >= pc
  BY <1>2 DEF LookupCode
<1> QED BY <1>1, <1>2

\* register_code keeps regions apart when the kernel mapped the text where no other
\* text is, its assertion holds, and no other region changes.
THEOREM RegisterSeparates ==
  ASSUME NEW regions, Separate(regions), NEW start \in Nat, NEW len \in Nat, NEW code,
         \A e \in DOMAIN regions : start + len <= regions[e].start \/ e < start
  PROVE  /\ RegistersAnew(regions, start, len)
         /\ Separate(RegisterCode(regions, start, len, code))
         /\ \A e \in DOMAIN regions : RegisterCode(regions, start, len, code)[e] = regions[e]
<1>1. CASE len = 0
  BY <1>1 DEF RegistersAnew, RegisterCode
<1>2. CASE len # 0
  <2> DEFINE last == start + len - 1
             new == RegisterCode(regions, start, len, code)
  <2>1. last \in Nat /\ start <= last /\ last \notin DOMAIN regions
    BY <1>2 DEF Separate
  <2>2. /\ DOMAIN new = DOMAIN regions \cup {last}
        /\ new[last].start = start
        /\ \A e \in DOMAIN regions : new[e] = regions[e]
    BY <1>2, <2>1 DEF RegisterCode
  <2>3. Separate(new)
    <3> HIDE DEF new
    <3>1. \A e \in DOMAIN regions : last < regions[e].start \/ e < start
      BY <2>1 DEF Separate
    <3> HIDE DEF last
    <3> QED BY <2>1, <2>2, <3>1 DEF Separate
  <2> QED BY <1>2, <2>1, <2>2, <2>3 DEF RegistersAnew
<1> QED BY <1>1, <1>2

-----------------------------------------------------------------------------
(* Registering code.                                                       *)

\* The text of published code lies in the mapping of its load.
LEMMA TextIsMapped ==
  ASSUME Inv, NEW l \in Loads, load[l].status \in {"published", "loaded", "dropped"}
  PROVE  /\ TextLen(l) \in Nat /\ Base(l) \in Nat
         /\ TextLen(l) > 0 => /\ load[l].map # <<>> /\ load[l].map[1].prot = "rx"
                              /\ LastByte(l) \in Nat /\ Base(l) <= LastByte(l)
                              /\ Base(l) .. LastByte(l) \subseteq Mapped(l)
                              /\ LastByte(l) <= (Pages + 1) * PageSize
<1>1. PICK r : r = load[l]
  OBVIOUS
<1>2. IsLinked(r) /\ Backed(r) /\ r.linked.text \in Seq(Byte)
      /\ (r.map # <<>> => r.map[1].prot = "rx")
  <2>1. IsLinked(r)
    BY <1>1, Phases
  <2> QED BY <1>1, <2>1 DEF IsLinked, WellLinked
<1>3. PICK n \in Nat : n = Len(r.linked.text) /\ (n = 0 <=> r.linked.text = <<>>)
  BY <1>2
<1>4. TextLen(l) = n
  BY <1>1, <1>3 DEF TextLen
<1>5. CASE n = 0
  <2>1. r.map = <<>>
    BY <1>2, <1>3, <1>5 DEF Backed
  <2> QED BY <1>1, <1>4, <1>5, <2>1 DEF Base
<1>6. CASE n # 0
  <2>1. PICK map : map = r.map[1]
    OBVIOUS
  <2>2. /\ r.map = <<map>> /\ map \in [base : Nat, len : Nat, prot : {"rw", "rx"}]
        /\ n < map.len /\ map.base + map.len <= (Pages + 1) * PageSize
    BY <1>2, <1>3, <1>6, <2>1 DEF Backed
  <2>3. r.map # <<>>
    BY <2>2
  <2>4. PICK base, len : base = map.base /\ len = map.len /\ base \in Nat /\ len \in Nat
    BY <2>2
  <2>5. Base(l) = base /\ LastByte(l) = base + n - 1 /\ Mapped(l) = base .. base + len - 1
    BY <1>1, <1>4, <2>1, <2>3, <2>4 DEF Base, LastByte, Mapped
  <2>6. PageSize \in Nat /\ Pages \in Nat
    BY PageSizePositive, LoadConstants
  <2>7. PICK end \in Nat : end = (Pages + 1) * PageSize
    BY <2>6
  <2>8. /\ base + n - 1 \in Nat /\ base <= base + n - 1 /\ base + n - 1 <= end
        /\ base .. base + n - 1 \subseteq base .. base + len - 1
    BY <1>6, <2>2, <2>4, <2>7
  <2> QED BY <1>1, <1>2, <1>4, <2>3, <2>4, <2>5, <2>7, <2>8
<1> QED BY <1>5, <1>6

\* Texts that lie in different mappings have no address in common.
LEMMA TextsApart ==
  ASSUME Inv, NEW k \in Loads, NEW l \in Loads, k # l,
         load[k].status \in {"published", "loaded", "dropped"}, TextLen(k) > 0,
         load[l].status \in {"published", "loaded", "dropped"}, TextLen(l) > 0
  PROVE  LastByte(k) < Base(l) \/ LastByte(l) < Base(k)
<1>1. PICK a, b, c, d : a = Base(k) /\ b = LastByte(k) /\ c = Base(l) /\ d = LastByte(l)
  OBVIOUS
<1>2. /\ a \in Nat /\ b \in Nat /\ c \in Nat /\ d \in Nat /\ a <= b /\ c <= d
      /\ a .. b \subseteq Mapped(k) /\ c .. d \subseteq Mapped(l)
  BY <1>1, TextIsMapped
<1>3. (a .. b) \cap (c .. d) = {}
  <2>1. Mapped(k) \cap Mapped(l) = {}
    BY DEF Inv, Apart
  <2> QED BY <1>2, <2>1
<1>4. b < c \/ d < a
  <2> SUFFICES ASSUME c <= b, a <= d PROVE FALSE
    BY <1>2
  <2>1. CASE a <= c
    <3>1. c \in (a .. b) /\ c \in (c .. d)
      BY <1>2, <2>1
    <3> QED BY <1>3, <3>1
  <2>2. CASE c <= a
    <3>1. a \in (a .. b) /\ a \in (c .. d)
      BY <1>2, <2>2
    <3> QED BY <1>3, <3>1
  <2> QED BY <1>2, <2>1, <2>2
<1> QED BY <1>1, <1>4

\* register_code enters the text under its last byte, which no other text has: its
\* assertion holds.
LEMMA RegisterOK ==
  ASSUME Inv, NEW l \in Loads, Register(l)
  PROVE  Inv'
<1>1. PICK old : old = load[l]
  OBVIOUS
<1>2. IsRecord(old) /\ IsLinked(old) /\ old.status = "published" /\ Backed(old)
  <2>1. IsRecord(old) /\ IsLinked(old) /\ old.status = "published"
    BY <1>1, Phases DEF Register
  <2> QED BY <2>1 DEF IsLinked
<1>3. PICK n \in Nat : n = TextLen(l) /\ n = Len(old.linked.text)
  BY <1>1, <1>2, TextIsMapped DEF TextLen
<1>4. load = [k \in Loads |-> load[k]]
  BY DEF Inv, LoadsOK
<1>5. \A k \in Registered : k \in Loads /\ k # l /\ load[k].status \in {"loaded", "dropped"} /\ TextLen(k) > 0
  BY <1>1, <1>2 DEF Registered
<1>6. n > 0 => LastByte(l) \notin DOMAIN registry
  <2> SUFFICES ASSUME n > 0, NEW k \in Registered, LastByte(l) = LastByte(k) PROVE FALSE
    BY DEF Inv, RegistryOK
  <2>1. LastByte(k) < Base(l) \/ LastByte(l) < Base(k)
    BY <1>1, <1>2, <1>3, <1>5, TextsApart
  <2>2. /\ LastByte(k) \in Nat /\ Base(k) \in Nat /\ Base(k) <= LastByte(k)
        /\ LastByte(l) \in Nat /\ Base(l) \in Nat /\ Base(l) <= LastByte(l)
    BY <1>1, <1>2, <1>3, <1>5, TextIsMapped
  <2> QED BY <2>1, <2>2
<1>7. RegistersAnew(registry, Base(l), TextLen(l))
  BY <1>3, <1>6 DEF RegistersAnew, LastByte
<1>8. PICK r : r = [old EXCEPT !.status = "loaded", !.jobs = <<>>]
  OBVIOUS
<1>9. Step(l, r) /\ pool' = pool
  <2>1. load' = [load EXCEPT ![l].status = "loaded", ![l].jobs = <<>>]
    BY <1>7 DEF Register
  <2>2. load' = [load EXCEPT ![l] = r]
    BY <1>1, <1>4, <1>8, <2>1
  <2> QED BY <1>4, <2>2 DEF Step, Register
<1>10. r = [status |-> "loaded", module |-> old.module, jobs |-> <<>>, builtins |-> old.builtins,
            ctx |-> old.ctx, outputs |-> old.outputs, linked |-> old.linked, types |-> old.types, map |-> old.map]
  BY <1>2, <1>8 DEF IsRecord
<1>11. /\ r.status = "loaded" /\ r.module = old.module /\ r.ctx = old.ctx /\ r.outputs = old.outputs
       /\ r.linked = old.linked /\ r.types = old.types /\ r.map = old.map /\ IsRecord(r)
  BY <1>10 DEF IsRecord
<1>12. IsLoad(r)
  <2>1. Backed(r)
    BY <1>2, <1>11 DEF Backed
  <2>2. IsLinked(r)
    BY <1>2, <1>11, <2>1 DEF IsLinked
  <2> QED BY <1>11, <2>2 DEF IsLoad
<1>13. LoadsOK'
  BY <1>9, <1>12, StepsLoadsOK DEF Inv
<1>14. Apart'
  <2>1. Span(r) \subseteq Span(load[l])
    BY <1>1, <1>11 DEF Span
  <2> QED BY <1>9, <2>1, StaysApart DEF Inv
<1>15. ContextsOK'
  <2>1. r.status \in Ended /\ (r.ctx # <<>> => load[l].ctx # <<>>)
    BY <1>1, <1>11 DEF Ended
  <2> QED BY <1>9, <2>1, NoMoreContexts DEF Inv
<1>16. load'[l] = r /\ \A k \in Loads : k # l => load'[k] = load[k]
  BY <1>9, OthersStay
<1>17. \A k \in Loads : Base(k)' = Base(k) /\ TextLen(k)' = TextLen(k) /\ LastByte(k)' = LastByte(k)
  <2>1. \A k \in Loads : load'[k].map = load[k].map /\ load'[k].linked = load[k].linked
    BY <1>1, <1>11, <1>16
  <2>2. \A k \in Loads : Base(k)' = Base(k) /\ TextLen(k)' = TextLen(k)
    BY <2>1 DEF Base, TextLen
  <2> QED BY <2>2 DEF LastByte
<1>18. Registered' = IF n > 0 THEN Registered \cup {l} ELSE Registered
  <2>1. Registered' = {k \in Loads : load'[k].status \in {"loaded", "dropped"} /\ TextLen(k) > 0}
    BY <1>17 DEF Registered
  <2>2. \A k \in Loads : load'[k].status \in {"loaded", "dropped"} <=> k = l \/ load[k].status \in {"loaded", "dropped"}
    BY <1>11, <1>16
  <2>3. Registered' = {k \in Loads : (k = l \/ load[k].status \in {"loaded", "dropped"}) /\ TextLen(k) > 0}
    BY <2>1, <2>2
  <2> QED BY <1>3, <2>3 DEF Registered
<1>19. registry' = RegisterCode(registry, Base(l), n, l)
  BY <1>3 DEF Register
<1>20. RegistryOK'
  <2>1. CASE n = 0
    <3>1. registry' = registry
      BY <1>19, <2>1 DEF RegisterCode
    <3>2. Registered' = Registered
      BY <1>18, <2>1
    <3>3. DOMAIN registry = {LastByte(k)' : k \in Registered}
      BY <1>5, <1>17 DEF Inv, RegistryOK
    <3>4. \A k \in Registered : registry[LastByte(k)'] = [start |-> Base(k)', code |-> k]
      BY <1>5, <1>17 DEF Inv, RegistryOK
    <3> QED BY <3>1, <3>2, <3>3, <3>4 DEF RegistryOK
  <2>2. CASE n > 0
    <3>1. PICK last : last = LastByte(l)
      OBVIOUS
    <3>2. Base(l) + n - 1 = last
      BY <1>3, <3>1 DEF LastByte
    <3>3. registry' = [e \in DOMAIN registry \cup {last} |->
                         IF e = last THEN [start |-> Base(l), code |-> l] ELSE registry[e]]
      BY <1>19, <2>2, <3>2 DEF RegisterCode
    <3>4. last \notin DOMAIN registry
      BY <1>6, <2>2, <3>1
    <3>5. Registered' = Registered \cup {l}
      BY <1>18, <2>2
    <3>6. DOMAIN registry = {LastByte(k) : k \in Registered}
      BY DEF Inv, RegistryOK
    <3>7. DOMAIN registry' = {LastByte(k)' : k \in Registered'}
      <4>1. DOMAIN registry' = {LastByte(k) : k \in Registered} \cup {last}
        BY <3>3, <3>6
      <4>2. {LastByte(k)' : k \in Registered \cup {l}} = {LastByte(k) : k \in Registered \cup {l}}
        BY <1>5, <1>17
      <4> QED BY <3>1, <3>5, <4>1, <4>2
    <3>8. ASSUME NEW k \in Registered' PROVE registry'[LastByte(k)'] = [start |-> Base(k)', code |-> k]
      <4>1. CASE k = l
        BY <1>17, <3>1, <3>3, <4>1
      <4>2. CASE k \in Registered
        <5>1. LastByte(k) \in DOMAIN registry /\ registry[LastByte(k)] = [start |-> Base(k), code |-> k]
          BY <4>2 DEF Inv, RegistryOK
        <5>2. registry'[LastByte(k)] = registry[LastByte(k)]
          BY <3>3, <3>4, <5>1
        <5>3. LastByte(k)' = LastByte(k) /\ Base(k)' = Base(k)
          BY <1>5, <1>17, <4>2
        <5> QED BY <5>1, <5>2, <5>3
      <4> QED BY <3>5, <4>1, <4>2
    <3> QED BY <3>7, <3>8 DEF RegistryOK
  <2> QED BY <2>1, <2>2
<1> QED BY <1>13, <1>14, <1>15, <1>20 DEF Inv

\* The invariant holds when nothing has been loaded.
LEMMA InitOK ==
  ASSUME Init
  PROVE  Inv
<1>1. \A l \in Loads : load[l] = Unused
  BY DEF Init
<1>2. LoadsOK
  <2>1. IsLoad(Unused)
    BY DEF IsLoad, IsRecord, IsIdle, Unused
  <2> QED BY <1>1, <2>1 DEF LoadsOK, Init
<1>3. Unused.status = "unused" /\ Unused.ctx = <<>> /\ Unused.map = <<>>
  BY DEF Unused
<1>4. ContextsOK
  <2>1. Active = {} /\ InUse = {}
    BY <1>1, <1>3 DEF Active, InUse, Running
  <2>2. Cardinality({}) = 0
    BY FS_EmptySet
  <2>3. pool = <<>> /\ MaxThreads \in Nat
    BY LoadConstants DEF Init
  <2> QED BY <2>1, <2>2, <2>3 DEF ContextsOK
<1>5. Apart
  BY <1>1, <1>3 DEF Apart, Mapped
<1>6. RegistryOK
  <2>1. Registered = {}
    BY <1>1, <1>3 DEF Registered
  <2>2. DOMAIN registry = {}
    BY DEF Init, NoCode
  <2> QED BY <2>1, <2>2 DEF RegistryOK
<1> QED BY <1>2, <1>4, <1>5, <1>6 DEF Inv

\* It holds when nothing changes.
LEMMA StutterOK ==
  ASSUME Inv, UNCHANGED vars
  PROVE  Inv'
<1>1. load' = load /\ pool' = pool /\ registry' = registry
  BY DEF vars
<1>2. LoadsOK' /\ Apart'
  BY <1>1 DEF Inv, LoadsOK, Apart, Mapped
<1>3. ContextsOK'
  BY <1>1 DEF Inv, ContextsOK, Active, InUse, Running
<1>4. RegistryOK'
  <2>1. \A l : Base(l)' = Base(l) /\ TextLen(l)' = TextLen(l)
    BY <1>1 DEF Base, TextLen
  <2>2. Registered' = Registered /\ \A l : LastByte(l)' = LastByte(l)
    BY <1>1, <2>1 DEF Registered, LastByte
  <2> QED BY <1>1, <2>1, <2>2 DEF Inv, RegistryOK
<1> QED BY <1>2, <1>3, <1>4 DEF Inv

\* Every step keeps it.
LEMMA NextOK ==
  ASSUME ModulesLink, Inv, [Next]_vars
  PROVE  Inv'
<1>1. CASE UNCHANGED vars
  BY <1>1, StutterOK
<1>2. CASE Next
  <2>1. PICK l \in Loads :
          \/ \E m \in Modules : Begin(l, m)
          \/ StartJob(l) \/ TranslateFails(l) \/ Finish(l) \/ FinishFails(l)
          \/ RequireBuiltins(l) \/ LinkOutputs(l) \/ RegisterTypes(l) \/ FromSlice(l)
          \/ PublishCode(l) \/ Register(l) \/ DropModule(l)
    BY <1>2 DEF Next
  <2> QED BY <2>1, BeginOK, StartJobOK, TranslateFailsOK, FinishOK, FinishFailsOK, RequireBuiltinsOK,
             LinkOutputsOK, RegisterTypesOK, FromSliceOK, PublishCodeOK, RegisterOK, DropModuleOK
<1> QED BY <1>1, <1>2

-----------------------------------------------------------------------------
(* What the invariant implies.                                             *)

\* The invariant says that contexts are clean and bounded.
LEMMA ContextsClean ==
  ASSUME Inv
  PROVE  ContextsCleanAndBounded
<1>1. \A i \in DOMAIN pool : pool[i] = CompilationContext
  BY DEF Inv, ContextsOK
<1>2. ASSUME NEW l \in Loads
      PROVE  /\ \A i \in DOMAIN load[l].outputs : load[l].outputs[i].from = {load[l].outputs[i].key}
             /\ load[l].ctx # <<>> => load[l].ctx[1].builder = {}
  <2>1. PICK r : r = load[l]
    OBVIOUS
  <2>2. IsLoad(r)
    BY <2>1 DEF Inv, LoadsOK
  <2>3. CASE IsIdle(r)
    <3>1. r.outputs = <<>> /\ r.ctx = <<>>
      BY <2>3 DEF IsIdle, Unused
    <3> QED BY <2>1, <3>1
  <2>4. CASE IsCompiling(r)
    <3>1. \A i \in DOMAIN r.outputs : r.outputs[i].from = {r.outputs[i].key}
      BY <2>4 DEF IsCompiling
    <3>2. ASSUME r.ctx # <<>> PROVE r.ctx[1].builder = {}
      <4>1. r.ctx = <<[func |-> {Head(r.jobs)}, builder |-> {}]>>
        BY <2>4, <3>2 DEF IsCompiling
      <4> QED BY <4>1
    <3> QED BY <2>1, <3>1, <3>2
  <2>5. CASE IsLinked(r)
    <3>1. r.outputs = <<>> /\ r.ctx = <<>>
      BY <2>5 DEF IsLinked
    <3> QED BY <2>1, <3>1
  <2> QED BY <2>2, <2>3, <2>4, <2>5 DEF IsLoad
<1>3. Len(pool) + Cardinality({l \in Loads : load[l].ctx # <<>>}) <= MaxThreads
  BY DEF Inv, ContextsOK, InUse
<1> QED BY <1>1, <1>2, <1>3 DEF ContextsCleanAndBounded

\* What the status of a load, and whether it has a text, say about it.
LEMMA Statuses ==
  ASSUME Inv, NEW l \in Loads
  PROVE  /\ load[l].status # "panicked"
         /\ load[l].linked # NoText => IsLinked(load[l])
         /\ load[l].status \in {"failed", "oom"} => load[l] = [Unused EXCEPT !.status = load[l].status]
<1>1. PICK r : r = load[l]
  OBVIOUS
<1>2. IsLoad(r)
  BY <1>1 DEF Inv, LoadsOK
<1>3. CASE IsIdle(r)
  <2>1. r.linked = NoText
    BY <1>3 DEF IsIdle, Unused
  <2> QED BY <1>1, <1>3, <2>1 DEF IsIdle
<1>4. CASE IsCompiling(r)
  BY <1>1, <1>4 DEF IsCompiling
<1>5. CASE IsLinked(r)
  BY <1>1, <1>5 DEF IsLinked
<1> QED BY <1>2, <1>3, <1>4, <1>5 DEF IsLoad

\* The entries of the registry are those of the loaded modules.
LEMMA RegistryEntries ==
  ASSUME Inv
  PROVE  /\ \A k \in Registered : /\ LastByte(k) \in DOMAIN registry
                                /\ registry[LastByte(k)].start = Base(k)
                                /\ registry[LastByte(k)].code = k
         /\ \A e \in DOMAIN registry :
              \E k \in Registered : e = LastByte(k) /\ registry[e].start = Base(k) /\ registry[e].code = k
<1>1. ASSUME NEW k \in Registered
      PROVE  /\ LastByte(k) \in DOMAIN registry
             /\ registry[LastByte(k)].start = Base(k)
             /\ registry[LastByte(k)].code = k
  <2>1. LastByte(k) \in DOMAIN registry
    BY DEF Inv, RegistryOK
  <2>2. registry[LastByte(k)] = [start |-> Base(k), code |-> k]
    BY DEF Inv, RegistryOK
  <2> QED BY <2>1, <2>2
<1>2. ASSUME NEW e \in DOMAIN registry PROVE \E k \in Registered : e = LastByte(k)
  BY DEF Inv, RegistryOK
<1> QED BY <1>1, <1>2

\* The invariant says that a load that failed left nothing behind.
LEMMA FailuresLeaveNothing ==
  ASSUME Inv
  PROVE  FailedLoadsLeaveNothing
<1> SUFFICES ASSUME NEW l \in Loads
             PROVE  /\ load[l].status \in {"failed", "panicked", "oom"} =>
                         load[l] = [Unused EXCEPT !.status = load[l].status]
                    /\ load[l].status = "loaded" => load[l].types
                    /\ load[l].status = "dropped" => ~load[l].types
                    /\ (\E e \in DOMAIN registry : registry[e].code = l) <=>
                         load[l].status \in {"loaded", "dropped"} /\ TextLen(l) > 0
                    /\ load[l].status \in {"loaded", "dropped"} /\ TextLen(l) > 0 =>
                         load[l].map # <<>> /\ load[l].map[1].prot = "rx"
  BY DEF FailedLoadsLeaveNothing
<1>1. load[l].status \in {"failed", "panicked", "oom"} => load[l] = [Unused EXCEPT !.status = load[l].status]
  BY Statuses
<1>2. (load[l].status = "loaded" => load[l].types = TRUE) /\ (load[l].status = "dropped" => load[l].types = FALSE)
  <2>1. load[l].status \in {"loaded", "dropped"} => IsLinked(load[l])
    BY Phases
  <2> QED BY <2>1 DEF IsLinked
<1>3. (\E e \in DOMAIN registry : registry[e].code = l) <=>
        load[l].status \in {"loaded", "dropped"} /\ TextLen(l) > 0
  <2>4. (\E e \in DOMAIN registry : registry[e].code = l) <=> l \in Registered
    BY RegistryEntries
  <2> QED BY <2>4 DEF Registered
<1>4. load[l].status \in {"loaded", "dropped"} /\ TextLen(l) > 0 =>
        load[l].map # <<>> /\ load[l].map[1].prot = "rx"
  BY TextIsMapped
<1> QED BY <1>1, <1>2, <1>3, <1>4

\* The invariant says that the function tables are exact.
LEMMA EntriesAreExact ==
  ASSUME Inv
  PROVE  EntriesExact
<1> SUFFICES ASSUME NEW l \in Loads, load[l].linked # NoText
             PROVE  LET m == load[l].module
                        info == load[l].linked.info
                    IN /\ DOMAIN info = DOMAIN m.funcs
                       /\ \A d \in DOMAIN info :
                            /\ Covers(l, info[d].loc, WasmFunction(d - 1))
                            /\ m.funcs[d].escapes <=> info[d].tramp # <<>>
                            /\ info[d].tramp # <<>> =>
                                 Covers(l, info[d].tramp[1], ArrayToWasmTrampoline(d - 1))
  BY DEF EntriesExact
<1>1. PICK m, linked : m = load[l].module /\ linked = load[l].linked
  OBVIOUS
<1>2. FunctionsDescribed(m, linked)
  BY <1>1, Statuses DEF IsLinked, WellLinked
<1>3. ASSUME NEW loc, NEW key, IsWhole(m, linked.text, loc, key) PROVE Covers(l, loc, key)
  <2>1. TextLen(l) = Len(linked.text) /\ \A j : ByteAt(l, loc.start + j) = linked.text[loc.start + j + 1]
    BY <1>1 DEF TextLen, ByteAt
  <2> QED BY <1>1, <1>3, <2>1 DEF IsWhole, Covers
<1>4. DOMAIN linked.info = DOMAIN m.funcs /\ \A d \in DOMAIN m.funcs : Describes(m, linked.text, d, linked.info[d])
  BY <1>2 DEF FunctionsDescribed
<1>5. ASSUME NEW d \in DOMAIN m.funcs, NEW entry, entry = linked.info[d]
      PROVE  /\ Covers(l, entry.loc, WasmFunction(d - 1))
             /\ m.funcs[d].escapes <=> entry.tramp # <<>>
             /\ entry.tramp # <<>> => Covers(l, entry.tramp[1], ArrayToWasmTrampoline(d - 1))
  <2>1. Describes(m, linked.text, d, entry)
    BY <1>4, <1>5
  <2> QED BY <1>3, <2>1 DEF Describes
<1> QED BY <1>1, <1>4, <1>5

\* The regions of the registry do not overlap.
LEMMA RegistrySeparate ==
  ASSUME Inv
  PROVE  Separate(registry)
<1>1. \A l \in Registered : l \in Loads /\ load[l].status \in {"loaded", "dropped"} /\ TextLen(l) > 0
  BY DEF Registered
<1>2. \A l \in Registered : LastByte(l) \in Nat /\ Base(l) \in Nat /\ Base(l) <= LastByte(l)
  BY <1>1, TextIsMapped
<1>3. \A k, l \in Registered : k # l => LastByte(k) < Base(l) \/ LastByte(l) < Base(k)
  BY <1>1, TextsApart
<1>4. \A e \in DOMAIN registry : \E l \in Registered : e = LastByte(l) /\ registry[e].start = Base(l)
  BY RegistryEntries
<1>5. DOMAIN registry \subseteq Nat
  BY <1>2, <1>4
<1>6. \A e \in DOMAIN registry : registry[e].start \in Nat /\ registry[e].start <= e
  BY <1>2, <1>4
<1>7. ASSUME NEW e \in DOMAIN registry, NEW f \in DOMAIN registry, e # f
      PROVE  e < registry[f].start \/ f < registry[e].start
  <2>1. PICK k \in Registered : e = LastByte(k) /\ registry[e].start = Base(k)
    BY <1>4
  <2>2. PICK l \in Registered : f = LastByte(l) /\ registry[f].start = Base(l)
    BY <1>4
  <2> QED BY <1>3, <1>7, <2>1, <2>2
<1> QED BY <1>5, <1>6, <1>7 DEF Separate

\* So faults are attributed to the code, and to the trap, they belong to.
LEMMA FaultsAreAttributed ==
  ASSUME Inv
  PROVE  FaultsAttributed
<1>1. Separate(registry)
  BY RegistrySeparate
<1>2. ASSUME NEW l \in Loads, NEW pc \in LoadedText(l)
      PROVE  /\ LookupCode(registry, pc) = <<[code |-> l, offset |-> pc - Base(l)]>>
             /\ {TrapCode(trap) : trap \in ToSet(LookupTrapCode(load[l].linked.offsets, load[l].linked.traps, pc - Base(l)))}
                  = TrapsRecorded(l, pc - Base(l))
  <2>1. PICK base, n : base = Base(l) /\ n = TextLen(l)
    OBVIOUS
  <2>2. load[l].status \in {"loaded", "dropped"} /\ pc \in base .. base + n - 1
    BY <2>1 DEF LoadedText
  <2>3. base \in Nat /\ n \in Nat
    BY <2>1, <2>2, TextIsMapped
  <2>4. n > 0 /\ pc \in Nat /\ pc - base \in 0 .. n - 1
    BY <2>2, <2>3
  <2>5. l \in Registered
    BY <2>1, <2>2, <2>4 DEF Registered
  <2>6. PICK e : e = LastByte(l)
    OBVIOUS
  <2>7. e \in DOMAIN registry /\ registry[e].start = base /\ registry[e].code = l
    BY <2>1, <2>5, <2>6, RegistryEntries
  <2>9. e = base + n - 1
    BY <2>1, <2>6 DEF LastByte
  <2>10. LiesIn(registry, e, pc)
    BY <2>2, <2>3, <2>7, <2>9 DEF LiesIn
  <2>11. LookupCode(registry, pc) = <<[code |-> registry[e].code, offset |-> pc - registry[e].start]>>
    BY <1>1, <2>4, <2>7, <2>10, LookupFinds
  <2>12. PICK m, linked, offset : m = load[l].module /\ linked = load[l].linked /\ offset = pc - base
    OBVIOUS
  <2>13. TrapsFound(m, linked)
    <3>1. IsLinked(load[l])
      BY <2>2, Phases
    <3> QED BY <2>12, <3>1 DEF IsLinked, WellLinked
  <2>14. n = Len(linked.text)
    BY <2>1, <2>12 DEF TextLen
  <2>15. Found(linked, offset) = Recorded(m, linked.text[offset + 1])
    BY <2>4, <2>12, <2>13, <2>14 DEF TrapsFound
  <2>16. Recorded(m, linked.text[offset + 1]) = TrapsRecorded(l, offset)
    BY <2>12 DEF Recorded, TrapsRecorded, ByteAt
  <2>17. {TrapCode(trap) : trap \in ToSet(LookupTrapCode(linked.offsets, linked.traps, offset))} = TrapsRecorded(l, offset)
    BY <2>15, <2>16 DEF Found
  <2> QED BY <2>1, <2>7, <2>11, <2>12, <2>17
<1>3. ASSUME NEW pc \in (0 .. (Pages + 1) * PageSize) \ UNION {LoadedText(l) : l \in Loads}
      PROVE  LookupCode(registry, pc) = <<>>
  <2>1. PICK end \in Nat : end = (Pages + 1) * PageSize
    <3>1. PageSize \in Nat /\ Pages \in Nat
      BY PageSizePositive, LoadConstants
    <3> QED BY <3>1
  <2>2. pc \in Nat
    BY <2>1
  <2>3. ASSUME NEW e \in DOMAIN registry, LiesIn(registry, e, pc) PROVE FALSE
    <3>1. PICK l \in Registered : e = LastByte(l) /\ registry[e].start = Base(l)
      BY RegistryEntries
    <3>2. l \in Loads /\ load[l].status \in {"loaded", "dropped"}
      BY DEF Registered
    <3>3. LastByte(l) \in Nat /\ Base(l) \in Nat /\ LastByte(l) = Base(l) + TextLen(l) - 1
      BY <3>2, TextIsMapped DEF Registered, LastByte
    <3>4. pc \in Base(l) .. LastByte(l)
      BY <2>2, <2>3, <3>1, <3>3 DEF LiesIn
    <3>5. pc \in LoadedText(l)
      BY <3>2, <3>3, <3>4 DEF LoadedText
    <3> QED BY <3>2, <3>5
  <2> QED BY <1>1, <2>2, <2>3, LookupMisses
<1>4. \A l \in Loads : load[l].status # "panicked"
  BY Statuses
<1> QED BY <1>2, <1>3, <1>4 DEF FaultsAttributed

\* In a build with debug assertions the invariant says that calls land.
LEMMA CallsDoLand ==
  ASSUME Inv, DebugAssertions
  PROVE  CallsLand
<1> SUFFICES ASSUME NEW l \in Loads, load[l].linked # NoText
             PROVE  LET m == load[l].module
                        text == load[l].linked.text
                    IN \A i \in DOMAIN text : text[i] # <<>> =>
                         \A r \in ToSet(Relocations(CompiledFunction(m, text[i][1]))) :
                           r.at = text[i][2] =>
                             \E call \in load[l].linked.calls :
                               /\ call.at = i - 1
                               /\ call.to \in 0 .. Len(text) - 1
                               /\ ByteAt(l, call.to) =
                                    IF r.target = "Wasm"
                                    THEN <<WasmFunction(DefinedFuncIndex(m, r.index)), 0>>
                                    ELSE <<WasmToBuiltinTrampoline(r.index), 0>>
  BY DEF CallsLand
<1>1. PICK m, linked : m = load[l].module /\ linked = load[l].linked
  OBVIOUS
<1>2. CallsResolved(m, linked)
  BY <1>1, Statuses DEF IsLinked, WellLinked
<1>3. ASSUME NEW i \in DOMAIN linked.text, linked.text[i] # <<>>,
             NEW r \in ToSet(Relocations(CompiledFunction(m, linked.text[i][1]))), r.at = linked.text[i][2]
      PROVE  \E call \in linked.calls :
               /\ call.at = i - 1
               /\ call.to \in 0 .. Len(linked.text) - 1
               /\ ByteAt(l, call.to) =
                    IF r.target = "Wasm"
                    THEN <<WasmFunction(DefinedFuncIndex(m, r.index)), 0>>
                    ELSE <<WasmToBuiltinTrampoline(r.index), 0>>
  <2>1. Lands(m, linked, i, r)
    BY <1>2, <1>3 DEF CallsResolved, CallsOf
  <2>2. \A to : ByteAt(l, to) = linked.text[to + 1]
    BY <1>1 DEF ByteAt
  <2> QED BY <2>1, <2>2 DEF Lands
<1> QED BY <1>1, <1>3

\* Inv is an invariant of loading, if linking keeps its contract with these modules.
THEOREM LoadsInvariance == ASSUME ModulesLink PROVE Spec => []Inv
<1>1. Init => Inv
  BY InitOK
<1>2. Inv /\ [Next]_vars => Inv'
  BY NextOK
<1> QED BY <1>1, <1>2, PTL DEF Spec

-----------------------------------------------------------------------------
(* The theorems.                                                           *)

\* Linking keeps its contract with every module that is loaded.
LEMMA AllModulesLink == ModulesLink
<1>1. \A m \in Modules : IsModule(m)
  BY LoadConstants
<1> QED BY <1>1, LinkKeepsContract DEF ModulesLink

\* Whatever failed before: pooled contexts hold no part of a function, a compiled function
\* has no part of another one, and there are no more contexts than threads.
THEOREM ContextsStayClean == Spec => []ContextsCleanAndBounded
<1>1. Inv => ContextsCleanAndBounded
  BY ContextsClean
<1> QED BY <1>1, LoadsInvariance, AllModulesLink, PTL

\* A load that failed owns nothing, registered code is mapped and executable, and types are
\* registered for what is under way and for modules only.
THEOREM NothingIsLeft == Spec => []FailedLoadsLeaveNothing
<1>1. Inv => FailedLoadsLeaveNothing
  BY FailuresLeaveNothing
<1> QED BY <1>1, LoadsInvariance, AllModulesLink, PTL

\* Every entry of a function table is the whole of its function and, if the function
\* escapes, of its own trampoline.
THEOREM TablesAreExact == Spec => []EntriesExact
<1>1. Inv => EntriesExact
  BY EntriesAreExact
<1> QED BY <1>1, LoadsInvariance, AllModulesLink, PTL

\* The signal handler finds code exactly where loaded code lies, and a trap exactly where
\* the compiler recorded one; no assertion on the way fails.
THEOREM FaultsFindTheirTraps == Spec => []FaultsAttributed
<1>1. Inv => FaultsAttributed
  BY FaultsAreAttributed
<1> QED BY <1>1, LoadsInvariance, AllModulesLink, PTL

\* With debug assertions every call in a text goes to the first byte of what it was
\* compiled to call.
THEOREM CallsReachTheirTargets ==
  ASSUME DebugAssertions
  PROVE  Spec => []CallsLand
<1>1. Inv => CallsLand
  BY CallsDoLand
<1> QED BY <1>1, LoadsInvariance, AllModulesLink, PTL
=============================================================================
