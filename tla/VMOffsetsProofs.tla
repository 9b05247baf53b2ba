-------------------------- MODULE VMOffsetsProofs ---------------------------
(***************************************************************************)
(* Proofs about VMOffsets, for every module: the elements of the arrays of *)
(* a context, and the fields of the elements, lie inside the context,      *)
(* behind its header, and none overlaps another.                           *)
(***************************************************************************)
EXTENDS VMOffsets, TLAPS

\* Where the arrays of a context begin, and that each ends where the next begins.
LEMMA ArraysFollow ==
  ASSUME NEW n \in Counts
  PROVE  LET at == ForModule(n)
         IN /\ \A region \in Regions : n[region] \in Nat /\ at[region] \in Nat
            /\ at.func_refs = StaticSize
            /\ at.imported_functions = at.func_refs + 32 * n.func_refs
            /\ at.imported_tables = at.imported_functions + 24 * n.imported_functions
            /\ at.imported_memories = at.imported_tables + 16 * n.imported_tables
            /\ at.imported_globals = at.imported_memories + 16 * n.imported_memories
            /\ at.tables = at.imported_globals + 16 * n.imported_globals
            /\ at.memories = at.tables + 16 * n.tables
            /\ at.globals = at.memories + 16 * n.memories
            /\ at.size = at.globals + 16 * n.globals
            /\ StaticSize = 56
<1> DEFINE at == ForModule(n)
<1>1. \A region \in Regions : n[region] \in Nat
  BY DEF Counts
<1>2. /\ at.func_refs = StaticSize
      /\ at.imported_functions = at.func_refs + 32 * n.func_refs
      /\ at.imported_tables = at.imported_functions + 24 * n.imported_functions
      /\ at.imported_memories = at.imported_tables + 16 * n.imported_tables
      /\ at.imported_globals = at.imported_memories + 16 * n.imported_memories
      /\ at.tables = at.imported_globals + 16 * n.imported_globals
      /\ at.memories = at.tables + 16 * n.tables
      /\ at.globals = at.memories + 16 * n.memories
      /\ at.size = at.globals + 16 * n.globals
      /\ StaticSize = 56
  <2>1. /\ SizeOf.func_refs = 32 /\ SizeOf.imported_functions = 24
        /\ SizeOf.imported_tables = 16 /\ SizeOf.imported_memories = 16
        /\ SizeOf.imported_globals = 16 /\ SizeOf.tables = 16
        /\ SizeOf.memories = 16 /\ SizeOf.globals = 16
    BY DEF SizeOf
  <2>2. StaticSize = 56
    BY DEF StaticSize, PtrSize
  <2>3. at.func_refs = StaticSize
    BY DEF ForModule
  <2>4. at.imported_functions = at.func_refs + 32 * n.func_refs
    BY <2>1 DEF ForModule
  <2>5. at.imported_tables = at.imported_functions + 24 * n.imported_functions
    BY <2>1 DEF ForModule
  <2>6. at.imported_memories = at.imported_tables + 16 * n.imported_tables
    BY <2>1 DEF ForModule
  <2>7. at.imported_globals = at.imported_memories + 16 * n.imported_memories
    BY <2>1 DEF ForModule
  <2>8. at.tables = at.imported_globals + 16 * n.imported_globals
    BY <2>1 DEF ForModule
  <2>9. at.memories = at.tables + 16 * n.tables
    BY <2>1 DEF ForModule
  <2>10. at.globals = at.memories + 16 * n.memories
    BY <2>1 DEF ForModule
  <2>11. at.size = at.globals + 16 * n.globals
    BY <2>1 DEF ForModule
  <2> HIDE DEF at
  <2> QED BY <2>2, <2>3, <2>4, <2>5, <2>6, <2>7, <2>8, <2>9, <2>10, <2>11
<1>3. \A region \in Regions : at[region] \in Nat
  <2> HIDE DEF at
  <2> QED BY <1>1, <1>2 DEF Regions
<1> QED BY <1>1, <1>2, <1>3

\* An element of an array lies between the header and the end of the context.
THEOREM ElementsInside ==
  ASSUME NEW n \in Counts, NEW region \in Regions, NEW i \in Nat, InArray(n, region, i)
  PROVE  /\ OffsetOf(ForModule(n), region, i) \in Nat
         /\ StaticSize <= OffsetOf(ForModule(n), region, i)
         /\ OffsetOf(ForModule(n), region, i) + SizeOf[region] <= ForModule(n).size
<1> DEFINE at == ForModule(n)
<1>1. i + 1 <= n[region] /\ \A r \in Regions : n[r] \in Nat /\ at[r] \in Nat
  BY ArraysFollow DEF InArray
<1> HIDE DEF at
<1>2. at = ForModule(n)
  BY DEF at
<1> QED
  BY <1>1, <1>2, ArraysFollow, SMTT(90) DEF OffsetOf, Regions, SizeOf

\* Two different elements of a context do not overlap, whether they are of the same
\* array or of two: no write of initialize_vmctx touches what another one wrote.
THEOREM ElementsDisjoint ==
  ASSUME NEW n \in Counts, NEW r \in Regions, NEW s \in Regions, NEW i \in Nat, NEW j \in Nat,
         InArray(n, r, i), InArray(n, s, j), r # s \/ i # j
  PROVE  \/ OffsetOf(ForModule(n), r, i) + SizeOf[r] <= OffsetOf(ForModule(n), s, j)
         \/ OffsetOf(ForModule(n), s, j) + SizeOf[s] <= OffsetOf(ForModule(n), r, i)
<1> DEFINE at == ForModule(n)
<1>1. /\ i + 1 <= n[r] /\ j + 1 <= n[s]
      /\ \A q \in Regions : n[q] \in Nat /\ at[q] \in Nat
  BY ArraysFollow DEF InArray
<1> HIDE DEF at
<1>2. at = ForModule(n)
  BY DEF at
<1>3. CASE r = s
  <2>1. SizeOf[r] \in Nat /\ (i + 1 <= j \/ j + 1 <= i)
    BY <1>3 DEF Regions, SizeOf
  <2>2. (i + 1) * SizeOf[r] <= j * SizeOf[r] \/ (j + 1) * SizeOf[r] <= i * SizeOf[r]
    BY <1>3, SMTT(30) DEF Regions, SizeOf
  <2> QED BY <1>1, <1>2, <1>3, SMTT(30) DEF OffsetOf, Regions, SizeOf
<1>4. CASE r # s
  <2> DEFINE end(q) == at[q] + SizeOf[q] * n[q]
  <2>1. ASSUME NEW q \in Regions, NEW k \in Nat, k + 1 <= n[q]
        PROVE  OffsetOf(at, q, k) + SizeOf[q] <= end(q) /\ at[q] <= OffsetOf(at, q, k)
    BY <1>1, <2>1, SMTT(30) DEF OffsetOf, Regions, SizeOf
  <2>2. end(r) <= at[s] \/ end(s) <= at[r]
    BY <1>1, <1>2, <1>4, ArraysFollow, SMTT(60) DEF Regions, SizeOf
  <2>3. \A q \in Regions : end(q) \in Nat /\ SizeOf[q] \in Nat
    BY <1>1 DEF Regions, SizeOf
  <2>4. OffsetOf(at, r, i) \in Nat /\ OffsetOf(at, s, j) \in Nat
    BY <1>1, <2>3 DEF OffsetOf
  <2> HIDE DEF end
  <2>5. /\ OffsetOf(at, r, i) + SizeOf[r] <= end(r) /\ at[r] <= OffsetOf(at, r, i)
        /\ OffsetOf(at, s, j) + SizeOf[s] <= end(s) /\ at[s] <= OffsetOf(at, s, j)
    BY <1>1, <2>1
  <2>6. /\ at[r] \in Nat /\ at[s] \in Nat /\ end(r) \in Nat /\ end(s) \in Nat
        /\ SizeOf[r] \in Nat /\ SizeOf[s] \in Nat
    BY <1>1, <2>3
  <2> QED BY <1>2, <2>2, <2>4, <2>5, <2>6
<1> QED BY <1>3, <1>4

\* Two different fields of a context do not overlap, of whatever elements they are:
\* what compiled code stores through one offset of vmoffsets.rs it never finds
\* changed by a store through another.
THEOREM FieldsDisjoint ==
  ASSUME NEW n \in Counts, NEW r \in Regions, NEW s \in Regions, NEW i \in Nat, NEW j \in Nat,
         InArray(n, r, i), InArray(n, s, j),
         NEW f \in DOMAIN FieldOffset[r], NEW g \in DOMAIN FieldOffset[s],
         r # s \/ i # j \/ f # g
  PROVE  LET at == ForModule(n)
         IN \/ FieldOf(at, r, i, f) + FieldSize(f) <= FieldOf(at, s, j, g)
            \/ FieldOf(at, s, j, g) + FieldSize(g) <= FieldOf(at, r, i, f)
<1> DEFINE p == OffsetOf(ForModule(n), r, i)
           q == OffsetOf(ForModule(n), s, j)
<1>0. ASSUME NEW t \in Regions, NEW h \in DOMAIN FieldOffset[t]
  PROVE  /\ FieldOffset[t][h] \in Nat /\ FieldSize(h) \in Nat
         /\ FieldOffset[t][h] + FieldSize(h) <= SizeOf[t]
         /\ \A k \in DOMAIN FieldOffset[t] : h # k =>
              \/ FieldOffset[t][h] + FieldSize(h) <= FieldOffset[t][k]
              \/ FieldOffset[t][k] + FieldSize(k) <= FieldOffset[t][h]
  BY SMTT(30) DEF Regions, FieldOffset, FieldSize, SizeOf, ImportFields, DefinitionFields, PtrSize
<1>1. p \in Nat /\ q \in Nat /\ SizeOf[r] \in Nat /\ SizeOf[s] \in Nat
  BY ElementsInside DEF SizeOf, Regions
<1>2. /\ FieldOffset[r][f] \in Nat /\ FieldSize(f) \in Nat
      /\ FieldOffset[s][g] \in Nat /\ FieldSize(g) \in Nat
      /\ FieldOffset[r][f] + FieldSize(f) <= SizeOf[r]
      /\ FieldOffset[s][g] + FieldSize(g) <= SizeOf[s]
  BY <1>0
<1>3. CASE r = s /\ i = j
  <2>1. \/ FieldOffset[r][f] + FieldSize(f) <= FieldOffset[s][g]
        \/ FieldOffset[s][g] + FieldSize(g) <= FieldOffset[r][f]
    BY <1>3, <1>0
  <2>2. p = q
    BY <1>3
  <2> HIDE DEF p, q
  <2> QED BY <1>1, <1>2, <2>1, <2>2 DEF FieldOf, p, q
<1>4. CASE r # s \/ i # j
  <2>1. p + SizeOf[r] <= q \/ q + SizeOf[s] <= p
    BY <1>4, ElementsDisjoint
  <2> HIDE DEF p, q
  <2>2. \/ p + FieldOffset[r][f] + FieldSize(f) <= q + FieldOffset[s][g]
        \/ q + FieldOffset[s][g] + FieldSize(g) <= p + FieldOffset[r][f]
    BY <1>1, <1>2, <2>1
  <2> QED BY <2>2 DEF FieldOf, p, q
<1> QED BY <1>3, <1>4
=============================================================================
