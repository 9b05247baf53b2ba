------------------------------ MODULE Mapping -------------------------------
(***************************************************************************)
(* Vectors on anonymous mappings: MmapVec (src/runtime/mmap_vec.rs) on top *)
(* of Mmap (src/placeholder/mmap.rs).                                      *)
(*                                                                         *)
(* A vector is the size of its mapping, how much of that is accessible,    *)
(* from its start, and its length.  The first two are bytes, and the third *)
(* is elements; the code compares it with the other two as it is.          *)
(***************************************************************************)
EXTENDS Integers

CONSTANT PageSize   \* host_page_size, in bytes

ASSUME PageSizePositive == PageSize \in Nat \ {0}

IsMultipleOfPageSize(n) == n % PageSize = 0
RoundUpToPages(n) == ((n + PageSize - 1) \div PageSize) * PageSize

(* Mmap::new_empty, and what a vector on it is.                            *)
NewVec == [mapped |-> 0, accessible |-> 0, len |-> 0]

(* MmapVec::new_zeroed: all of the mapping is accessible.                  *)
NewZeroed(len) == [mapped |-> len, accessible |-> len, len |-> len]

(* MmapVec::with_reserved: none of it is.  Mmap::with_reserve asserts that *)
(* the size is a positive number of pages.                                 *)
WithReserved(capacity) == [mapped |-> capacity, accessible |-> 0, len |-> 0]
CanReserve(capacity) == capacity > 0 /\ IsMultipleOfPageSize(capacity)

(* try_grow: it panics unless the mapping is longer than the new length;   *)
(* then it makes the pages up to the new length accessible.                *)
HasRoom(vec, additional) == vec.len + additional < vec.mapped
TryGrow(vec, additional) ==
  LET len == vec.len + additional
  IN [vec EXCEPT !.len = len,
        !.accessible = IF RoundUpToPages(len) > RoundUpToPages(vec.len)
                       THEN RoundUpToPages(len) ELSE @]
=============================================================================
