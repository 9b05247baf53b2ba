------------------------------ MODULE Linking -------------------------------
(***************************************************************************)
(* What the linker and the store promise, without pointers, contexts,      *)
(* handles or interned strings: names stand for things that instances      *)
(* define, and an import of an instance is what its name stood for when    *)
(* the instance was made.                                                  *)
(*                                                                         *)
(* A thing is the n-th function, table, memory or global that an instance  *)
(* itself defines, however many instances it was exported through.         *)
(***************************************************************************)
EXTENDS Integers, Sequences

CONSTANTS
  Modules,   \* the modules there are, by name
  Names      \* the names under which instances are defined

VARIABLES
  defs,      \* what is defined: things by module name and export name
  insts      \* the instances: their module and what they import

Thing(inst, kind, index) == [inst |-> inst, kind |-> kind, index |-> index]

KeyOf(import) == <<import.module, import.name>>

(* What the n-th export of an instance is.                                 *)
Exported(instance, i, n) ==
  LET export == Modules[instance.module].exports[n]
      imported == instance.imports[export.kind]
  IN IF export.index < Len(imported) THEN imported[export.index + 1]
     ELSE Thing(i, export.kind, export.index - Len(imported))

Init ==
  /\ defs = [key \in {} |-> Thing(0, "func", 0)]
  /\ insts = <<>>

(* A module can be instantiated when each of its imports is defined, as    *)
(* something of the right kind.                                            *)
Instantiate(m) ==
  \E old \in {defs} :
    /\ \A i \in DOMAIN Modules[m].imports :
         /\ KeyOf(Modules[m].imports[i]) \in DOMAIN old
         /\ old[KeyOf(Modules[m].imports[i])].kind = Modules[m].imports[i].kind
    /\ insts' = Append(insts,
         [module |-> m,
          imports |-> [kind \in {"func", "table", "memory", "global"} |->
            LET wanted == SelectSeq(Modules[m].imports, LAMBDA i : i.kind = kind)
            IN [k \in DOMAIN wanted |-> old[KeyOf(wanted[k])]]]])
    /\ defs' = old

(* The exports of an instance are defined in their order, up to the first  *)
(* one whose name is taken.                                                *)
DefineInstance(name, i) ==
  /\ UNCHANGED insts
  /\ \E old \in {defs}, instance \in {insts[i]} :
       LET exports == Modules[instance.module].exports
           free == {n \in DOMAIN exports :
                      \A k \in 1 .. n : <<name, exports[k].name>> \notin DOMAIN old}
       IN defs' = [key \in DOMAIN old \cup {<<name, exports[n].name>> : n \in free} |->
                     IF key \in DOMAIN old THEN old[key]
                     ELSE Exported(instance, i, CHOOSE n \in free : exports[n].name = key[2])]

(* The names of a module are defined again under another name, in any      *)
(* order, up to the first one that is taken.                               *)
AliasModule(from, to) ==
  /\ UNCHANGED insts
  /\ \E old \in {defs} :
       LET items == {key \in DOMAIN old : key[1] = from}
           free == {key \in items : <<to, key[2]>> \notin DOMAIN old}
       IN \E done \in SUBSET free :
            /\ free = items => done = items
            /\ defs' = [key \in DOMAIN old \cup {<<to, k[2]>> : k \in done} |->
                          IF key \in DOMAIN old THEN old[key] ELSE old[<<from, key[2]>>]]

Next ==
  \/ \E name \in Names, i \in DOMAIN insts : DefineInstance(name, i)
  \/ \E from, to \in Names : AliasModule(from, to)
  \/ \E m \in DOMAIN Modules : Instantiate(m)

Spec == Init /\ [][Next]_<<defs, insts>>
=============================================================================
