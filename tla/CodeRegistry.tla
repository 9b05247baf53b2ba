---------------------------- MODULE CodeRegistry ----------------------------
(***************************************************************************)
(* The global registry of compiled code (src/placeholder/code_registry.rs) *)
(* by which the signal handler finds the code a faulting address belongs   *)
(* to, and the trap table of that code (src/runtime/code_memory.rs).       *)
(*                                                                         *)
(* A registry is a function: the address of the last byte of each region   *)
(* is mapped to the address of its first byte and to the code.             *)
(***************************************************************************)
EXTENDS Integers, Sequences

NoCode == [e \in {} |-> [start |-> 0, code |-> 0]]

(* all_modules.range(pc..).next(): the first key that is at least pc.      *)
FirstFrom(registry, pc) ==
  CHOOSE e \in DOMAIN registry :
    /\ e >= pc
    /\ \A f \in DOMAIN registry : f >= pc => e <= f

(* lookup_code: the code and the offset of pc in it, or nothing.           *)
LookupCode(registry, pc) ==
  IF \E e \in DOMAIN registry : e >= pc
  THEN LET entry == registry[FirstFrom(registry, pc)]
       IN IF pc >= entry.start
          THEN <<[code |-> entry.code, offset |-> pc - entry.start]>>
          ELSE <<>>
  ELSE <<>>

(* register_code, for a text of `len` bytes at `start`.                    *)
RegisterCode_PastEnd(registry, start, len, code) ==
  LET last == start + len
  IN [e \in DOMAIN registry \cup {last} |->
        IF e = last THEN [start |-> start, code |-> code] ELSE registry[e]]

RegisterCode(registry, start, len, code) ==
  IF len = 0 THEN registry
  ELSE LET last == start + len - 1
       IN [e \in DOMAIN registry \cup {last} |->
             IF e = last THEN [start |-> start, code |-> code] ELSE registry[e]]

(* The assertion of register_code: nothing had been registered there.      *)
RegistersAnew(registry, start, len) ==
  len = 0 \/ start + len - 1 \notin DOMAIN registry

(* CodeMemory::lookup_trap_code: a binary search for exactly this offset,  *)
(* in a table that is sorted by offset (the assertion of push_traps).      *)
LookupTrapCode(offsets, traps, offset) ==
  IF \E i \in DOMAIN offsets : offsets[i] = offset
  THEN <<traps[CHOOSE i \in DOMAIN offsets : offsets[i] = offset]>>
  ELSE <<>>
=============================================================================
