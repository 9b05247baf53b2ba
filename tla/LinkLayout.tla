----------------------------- MODULE LinkLayout -----------------------------
(***************************************************************************)
(* Proofs about Link, for every module and every sequence of outputs: what *)
(* AppendOutputs lays out, what TrapTable collects, and what the           *)
(* trampolines are compiled to.  Module Link computes both by folds; each  *)
(* fold is shown to be a run of steps (module Folding), and what holds of  *)
(* the run follows by induction on its length.                             *)
(***************************************************************************)
EXTENDS LinkContract, SequenceTheorems, WellFoundedInduction, TLAPS

-----------------------------------------------------------------------------
(* Induction over the naturals, for sets.  The provers cannot instantiate  *)
(* the library's rule, whose parameter is an operator; that an inductive   *)
(* set holds every number says the same of any property {n : P(n)}.        *)

\* A set of numbers has a least element.
LEMMA Least ==
  ASSUME NEW S, S \subseteq Nat, S # {}
  PROVE  \E m \in S : \A n \in S : m <= n
<1>1. \E x \in S : \A y \in S : ~ (<<y, x>> \in OpToRel(<, Nat))
  BY NatLessThanWellFounded, WFMin
<1>2. PICK x \in S : \A y \in S : ~ (<<y, x>> \in OpToRel(<, Nat))
  BY <1>1
<1>3. \A y \in S : ~ (y < x)
  BY <1>2 DEF OpToRel
<1> QED BY <1>3

\* A set that holds 0, and with every number the next, holds them all.
LEMMA SetInduction ==
  ASSUME NEW S, 0 \in S, \A n \in Nat : n \in S => n + 1 \in S
  PROVE  Nat \subseteq S
<1> SUFFICES ASSUME Nat \ S # {} PROVE FALSE
  OBVIOUS
<1>1. PICK m \in Nat \ S : \A n \in Nat \ S : m <= n
  BY Least
<1>2. m # 0 /\ m - 1 \in Nat
  BY <1>1
<1>3. m - 1 \in S
  BY <1>1, <1>2
<1> QED BY <1>1, <1>2, <1>3

-----------------------------------------------------------------------------
(* Sequences.                                                              *)

\* Flattening puts the sequences one after the other (FlattenSeq, by which the model
\* says that from_module visits the functions in order).
LEMMA FlattenRuns ==
  ASSUME NEW T, NEW seqs \in Seq(Seq(T)), seqs # <<>>
  PROVE  \E flat : /\ flat[1] = seqs[1]
                   /\ \A i \in 2 .. Len(seqs) : flat[i] = flat[i - 1] \o seqs[i]
                   /\ FlattenSeq(seqs) = flat[Len(seqs)]
<1> DEFINE Step(f, i) == IF i = 1 THEN seqs[i] ELSE f[i - 1] \o seqs[i]
           Flat(n, f) == f = [i \in 1 .. n |-> Step(f, i)]
           S == {n \in Nat : \E f : Flat(n, f)}
<1>1. 0 \in S
  <2>1. Flat(0, [i \in 1 .. 0 |-> i])
    OBVIOUS
  <2> QED BY <2>1
<1>2. \A n \in Nat : n \in S => n + 1 \in S
  <2> SUFFICES ASSUME NEW n \in Nat, n \in S PROVE n + 1 \in S
    OBVIOUS
  <2>1. PICK f : Flat(n, f)
    OBVIOUS
  <2> DEFINE g == [i \in 1 .. n + 1 |-> IF i = n + 1 THEN Step(f, i) ELSE f[i]]
  <2>2. \A i \in 1 .. n : g[i] = f[i] /\ f[i] = Step(f, i)
    <3>1. \A i \in 1 .. n : f[i] = Step(f, i)
      BY <2>1
    <3>2. \A i \in 1 .. n : i \in 1 .. n + 1 /\ i # n + 1
      OBVIOUS
    <3> HIDE DEF Step
    <3> QED BY <3>1, <3>2
  <2>3. ASSUME NEW i \in 1 .. n + 1 PROVE g[i] = Step(g, i)
    <3>1. i = 1 \/ i - 1 \in 1 .. n
      OBVIOUS
    <3>2. i = 1 \/ g[i - 1] = f[i - 1]
      BY <2>2, <3>1
    <3>3. g[i] = Step(f, i)
      <4>1. i = n + 1 \/ i \in 1 .. n
        OBVIOUS
      <4> QED BY <2>2, <4>1
    <3> HIDE DEF g
    <3> QED BY <3>2, <3>3
  <2>4. Flat(n + 1, g) /\ n + 1 \in Nat
    <3>1. g = [i \in 1 .. n + 1 |-> g[i]]
      OBVIOUS
    <3> HIDE DEF g, Step
    <3> QED BY <2>3, <3>1
  <2> HIDE DEF Flat
  <2> QED BY <2>4
<1>3. Nat \subseteq S
  <2> HIDE DEF S
  <2> QED BY <1>1, <1>2, SetInduction
<1> DEFINE flat == CHOOSE f : f = [i \in 1 .. Len(seqs) |-> Step(f, i)]
<1>4. Len(seqs) \in Nat /\ Len(seqs) # 0
  OBVIOUS
<1>5. flat = [i \in 1 .. Len(seqs) |-> Step(flat, i)]
  <2>1. \E f : f = [i \in 1 .. Len(seqs) |-> Step(f, i)]
    BY <1>3, <1>4
  <2> QED BY <2>1
<1>6. FlattenSeq(seqs) = flat[Len(seqs)]
  BY <1>4 DEF FlattenSeq
<1> HIDE DEF flat
<1>7. flat[1] = seqs[1]
  <2>1. 1 \in 1 .. Len(seqs)
    BY <1>4
  <2> QED BY <1>5, <2>1
<1>8. ASSUME NEW i \in 2 .. Len(seqs) PROVE flat[i] = flat[i - 1] \o seqs[i]
  <2>1. i \in 1 .. Len(seqs) /\ i # 1
    OBVIOUS
  <2> QED BY <1>5, <2>1
<1> QED BY <1>6, <1>7, <1>8

\* Two sequences, one behind the other: where the elements of each are.
LEMMA Joined ==
  ASSUME NEW S, NEW s \in Seq(S), NEW t \in Seq(S), NEW u, u = s \o t
  PROVE  /\ u \in Seq(S)
         /\ Len(u) = Len(s) + Len(t)
         /\ \A i \in 1 .. Len(s) : u[i] = s[i]
         /\ \A i \in 1 .. Len(t) : u[Len(s) + i] = t[i]
<1>1. /\ u \in Seq(S)
      /\ Len(u) = Len(s) + Len(t)
      /\ \A i \in 1 .. Len(s) + Len(t) : u[i] = IF i <= Len(s) THEN s[i] ELSE t[i - Len(s)]
  BY ConcatProperties
<1>2. Len(s) \in Nat /\ Len(t) \in Nat
  OBVIOUS
<1>3. ASSUME NEW i \in 1 .. Len(t) PROVE u[Len(s) + i] = t[i]
  <2>1. Len(s) + i \in 1 .. Len(s) + Len(t) /\ ~(Len(s) + i <= Len(s)) /\ (Len(s) + i) - Len(s) = i
    BY <1>2
  <2> QED BY <1>1, <2>1
<1> QED BY <1>1, <1>2, <1>3

\* The elements of a sequence with one more at its end.
LEMMA ElementsOfAppend ==
  ASSUME NEW T, NEW s \in Seq(T), NEW x \in T
  PROVE  Append(s, x) \in Seq(T) /\ ToSet(Append(s, x)) = ToSet(s) \cup {x}
<1>1. PICK u : u = Append(s, x)
  OBVIOUS
<1>2. PICK n \in Nat : n = Len(s) /\ DOMAIN s = 1 .. n
  OBVIOUS
<1>3. /\ u \in Seq(T) /\ Len(u) = n + 1
      /\ \A i \in 1 .. n : u[i] = s[i]
      /\ u[n + 1] = x
  BY <1>1, <1>2, AppendProperties
<1>4. DOMAIN u = 1 .. n + 1
  BY <1>3, LenProperties
<1>5. 1 .. n + 1 = (1 .. n) \cup {n + 1}
  OBVIOUS
<1>6. ToSet(u) = {u[i] : i \in 1 .. n} \cup {u[n + 1]}
  BY <1>4, <1>5 DEF ToSet
<1>7. {u[i] : i \in 1 .. n} = ToSet(s)
  BY <1>2, <1>3 DEF ToSet
<1> QED BY <1>1, <1>3, <1>6, <1>7

\* The elements of two sequences, one behind the other.
LEMMA ElementsOfJoin ==
  ASSUME NEW T, NEW s \in Seq(T), NEW t \in Seq(T)
  PROVE  s \o t \in Seq(T) /\ ToSet(s \o t) = ToSet(s) \cup ToSet(t)
<1>1. PICK u : u = s \o t
  OBVIOUS
<1>2. PICK n \in Nat : n = Len(s) /\ DOMAIN s = 1 .. n
  OBVIOUS
<1>3. PICK k \in Nat : k = Len(t) /\ DOMAIN t = 1 .. k
  OBVIOUS
<1>4. /\ u \in Seq(T) /\ Len(u) = n + k
      /\ \A i \in 1 .. n : u[i] = s[i]
      /\ \A i \in 1 .. k : u[n + i] = t[i]
  <2>1. /\ u \in Seq(T) /\ Len(u) = Len(s) + Len(t)
        /\ \A i \in 1 .. Len(s) : u[i] = s[i]
        /\ \A i \in 1 .. Len(t) : u[Len(s) + i] = t[i]
    BY <1>1, Joined
  <2> QED BY <1>2, <1>3, <2>1
<1>5. DOMAIN u = 1 .. n + k
  BY <1>4, LenProperties
<1>6. \A i \in 1 .. n + k : i \in 1 .. n \/ (i - n \in 1 .. k /\ n + (i - n) = i)
  OBVIOUS
<1>7. \A i \in 1 .. k : n + i \in 1 .. n + k
  OBVIOUS
<1>8. \A i \in 1 .. n : i \in 1 .. n + k
  OBVIOUS
<1>9. ToSet(u) \subseteq ToSet(s) \cup ToSet(t)
  <2> SUFFICES ASSUME NEW i \in 1 .. n + k PROVE u[i] \in ToSet(s) \cup ToSet(t)
    BY <1>5 DEF ToSet
  <2>1. CASE i \in 1 .. n
    BY <1>2, <1>4, <2>1 DEF ToSet
  <2>2. CASE i \notin 1 .. n
    <3>1. i - n \in 1 .. k /\ n + (i - n) = i
      BY <1>6, <2>2
    <3>2. u[i] = t[i - n]
      BY <1>4, <3>1
    <3> QED BY <1>3, <3>1, <3>2 DEF ToSet
  <2> QED BY <2>1, <2>2
<1>10. ToSet(s) \subseteq ToSet(u)
  <2> SUFFICES ASSUME NEW i \in 1 .. n PROVE s[i] \in ToSet(u)
    BY <1>2 DEF ToSet
  <2>1. i \in DOMAIN u /\ s[i] = u[i]
    BY <1>4, <1>5, <1>8
  <2> QED BY <2>1 DEF ToSet
<1>11. ToSet(t) \subseteq ToSet(u)
  <2> SUFFICES ASSUME NEW i \in 1 .. k PROVE t[i] \in ToSet(u)
    BY <1>3 DEF ToSet
  <2>1. n + i \in DOMAIN u /\ t[i] = u[n + i]
    BY <1>4, <1>5, <1>7
  <2> QED BY <2>1 DEF ToSet
<1> QED BY <1>1, <1>4, <1>9, <1>10, <1>11

\* The elements of the sequences that are put one after the other.
LEMMA ElementsOfFlat ==
  ASSUME NEW T, NEW seqs \in Seq(Seq(T))
  PROVE  /\ FlattenSeq(seqs) \in Seq(T)
         /\ ToSet(FlattenSeq(seqs)) = UNION {ToSet(seqs[i]) : i \in DOMAIN seqs}
<1>1. PICK len \in Nat : len = Len(seqs) /\ DOMAIN seqs = 1 .. len
  OBVIOUS
<1>2. CASE seqs = <<>>
  <2>1. FlattenSeq(seqs) = <<>> /\ <<>> \in Seq(T) /\ DOMAIN seqs = {}
    BY <1>2 DEF FlattenSeq
  <2> QED BY <1>2, <2>1 DEF ToSet
<1>3. CASE seqs # <<>>
  <2>1. PICK flat : /\ flat[1] = seqs[1]
                    /\ \A i \in 2 .. Len(seqs) : flat[i] = flat[i - 1] \o seqs[i]
                    /\ FlattenSeq(seqs) = flat[Len(seqs)]
    BY <1>3, FlattenRuns
  <2>2. len # 0 /\ \A i \in 1 .. len : seqs[i] \in Seq(T)
    BY <1>1, <1>3
  <2> DEFINE All(n) == UNION {ToSet(seqs[i]) : i \in 1 .. n}
             Good(n) == flat[n] \in Seq(T) /\ ToSet(flat[n]) = All(n)
             S == {n \in Nat : n + 1 <= len => Good(n + 1)}
  <2>3. 0 \in S
    <3>1. 1 \in 1 .. len /\ 1 .. 1 = {1}
      BY <1>1, <2>2
    <3>2. All(1) = ToSet(seqs[1])
      BY <3>1
    <3>3. Good(1)
      BY <2>1, <2>2, <3>1, <3>2
    <3> QED BY <3>3
  <2>4. \A n \in Nat : n \in S => n + 1 \in S
    <3> SUFFICES ASSUME NEW n \in Nat, n \in S PROVE n + 1 \in S
      OBVIOUS
    <3> SUFFICES ASSUME (n + 1) + 1 <= len PROVE Good((n + 1) + 1)
      <4> HIDE DEF Good
      <4> QED OBVIOUS
    <3>1. PICK k \in Nat : k = n + 1
      OBVIOUS
    <3>2. k + 1 \in 2 .. len /\ k + 1 \in 1 .. len /\ k <= len /\ (k + 1) - 1 = k
      BY <1>1, <3>1
    <3>3. Good(k)
      BY <3>1, <3>2
    <3>4. flat[k + 1] = flat[k] \o seqs[k + 1] /\ seqs[k + 1] \in Seq(T)
      BY <1>1, <2>1, <2>2, <3>2
    <3>5. flat[k + 1] \in Seq(T) /\ ToSet(flat[k + 1]) = All(k) \cup ToSet(seqs[k + 1])
      <4> HIDE DEF All
      <4> QED BY <3>3, <3>4, ElementsOfJoin
    <3>6. All(k + 1) = All(k) \cup ToSet(seqs[k + 1])
      <4>1. 1 .. k + 1 = (1 .. k) \cup {k + 1}
        OBVIOUS
      <4> QED BY <4>1
    <3> QED BY <3>1, <3>5, <3>6
  <2>5. Nat \subseteq S
    <3> HIDE DEF S
    <3> QED BY <2>3, <2>4, SetInduction
  <2>6. len - 1 \in Nat /\ (len - 1) + 1 = len
    BY <2>2
  <2>7. Good(len)
    <3> HIDE DEF Good
    <3> QED BY <2>5, <2>6
  <2> QED BY <1>1, <2>1, <2>7
<1> QED BY <1>2, <1>3

\* There is one way to count from 0 to n - 1 in n steps upwards: what a BTreeMap with
\* the keys 0 .. n - 1 iterates over.
LEMMA CountsUp ==
  ASSUME NEW n \in Nat, NEW f, \A i \in 1 .. n : f[i] \in 0 .. n - 1,
         \A i, j \in 1 .. n : i < j => f[i] < f[j]
  PROVE  \A i \in 1 .. n : f[i] = i - 1
<1> DEFINE S == {k \in Nat : k + 1 \in 1 .. n => f[k + 1] >= k}
           T == {k \in Nat : n - k \in 1 .. n => f[n - k] <= n - k - 1}
<1>1. Nat \subseteq S
  <2>1. 0 \in S
    OBVIOUS
  <2>2. ASSUME NEW k \in Nat, k \in S PROVE k + 1 \in S
    <3> SUFFICES ASSUME (k + 1) + 1 \in 1 .. n PROVE f[(k + 1) + 1] >= k + 1
      OBVIOUS
    <3>1. k + 1 \in 1 .. n /\ k + 1 < (k + 1) + 1
      OBVIOUS
    <3>2. f[k + 1] >= k /\ f[k + 1] < f[(k + 1) + 1]
      BY <2>2, <3>1
    <3>3. f[k + 1] \in Int /\ f[(k + 1) + 1] \in Int
      BY <3>1
    <3> QED BY <3>2, <3>3
  <2> HIDE DEF S
  <2> QED BY <2>1, <2>2, SetInduction
<1>2. Nat \subseteq T
  <2>1. 0 \in T
    OBVIOUS
  <2>2. ASSUME NEW k \in Nat, k \in T PROVE k + 1 \in T
    <3> SUFFICES ASSUME n - (k + 1) \in 1 .. n PROVE f[n - (k + 1)] <= n - (k + 1) - 1
      OBVIOUS
    <3>1. n - k \in 1 .. n /\ n - (k + 1) < n - k
      OBVIOUS
    <3>2. f[n - k] <= n - k - 1 /\ f[n - (k + 1)] < f[n - k]
      BY <2>2, <3>1
    <3>3. f[n - k] \in Int /\ f[n - (k + 1)] \in Int
      BY <3>1
    <3> QED BY <3>2, <3>3
  <2> HIDE DEF T
  <2> QED BY <2>1, <2>2, SetInduction
<1> SUFFICES ASSUME NEW i \in 1 .. n PROVE f[i] = i - 1
  OBVIOUS
<1>3. i - 1 \in Nat /\ (i - 1) + 1 = i /\ n - i \in Nat /\ n - (n - i) = i
  OBVIOUS
<1>4. f[i] >= i - 1
  BY <1>1, <1>3
<1>5. f[i] <= i - 1
  <2>1. n - i \in T
    BY <1>2, <1>3
  <2> QED BY <1>3, <2>1
<1> QED BY <1>4, <1>5

-----------------------------------------------------------------------------
(* The text section.                                                       *)

\* The text section is padded upwards.
LEMMA AlignsUp ==
  ASSUME NEW n \in Nat, NEW align \in Nat \ {0}
  PROVE  AlignUp(n, align) \in Nat /\ AlignUp(n, align) >= n
<1> DEFINE k == n + align - 1
           q == k \div align
<1>1. k \in Nat
  OBVIOUS
<1> HIDE DEF k
<1>2. q \in Nat /\ k = (align * q) + (k % align) /\ k % align \in 0 .. align - 1
  BY <1>1
<1>3. q * align \in Nat /\ q * align = align * q
  BY <1>2
<1>4. q * align >= n
  BY <1>2, <1>3 DEF k
<1> QED BY <1>3, <1>4 DEF AlignUp, k

\* A function behind a text, padded to its alignment: nothing before it has changed.
Behind(text, key, fn, new) ==
  /\ new \in Seq(Byte)
  /\ Len(new) - fn.len \in Nat
  /\ Len(new) - fn.len >= Len(text)
  /\ \A b \in 1 .. Len(text) : new[b] = text[b]
  /\ \A b \in Len(text) + 1 .. Len(new) - fn.len : new[b] = <<>>
  /\ \A j \in 0 .. fn.len - 1 : new[Len(new) - fn.len + j + 1] = <<key, j>>

\* The append of the text section builder puts a function there.
LEMMA TextAppends ==
  ASSUME NEW text \in Seq(Byte), NEW key \in Key, NEW fn,
         fn.len \in Nat, fn.align \in Nat \ {0},
         NEW new, new = TextAppend(text, key, fn)
  PROVE  Behind(text, key, fn, new)
<1> DEFINE n == Len(text)
           len == fn.len
           padding == AlignUp(n, fn.align) - n
           pad == [i \in 1 .. padding |-> <<>>]
           body == [i \in 1 .. len |-> <<key, i - 1>>]
<1>1. n \in Nat /\ padding \in Nat /\ len \in Nat
  <2>1. n \in Nat /\ len \in Nat
    OBVIOUS
  <2>2. AlignUp(n, fn.align) \in Nat /\ AlignUp(n, fn.align) >= n
    BY <2>1, AlignsUp
  <2> QED BY <2>1, <2>2
<1>2. pad \in Seq(Byte) /\ Len(pad) = padding /\ \A i \in 1 .. padding : pad[i] = <<>>
  <2>1. \A i \in 1 .. padding : pad[i] \in Byte
    BY DEF Byte
  <2>2. pad \in [1 .. padding -> Byte]
    BY <2>1
  <2> HIDE DEF padding
  <2> QED BY <1>1, <2>2
<1>3. body \in Seq(Byte) /\ Len(body) = len /\ \A i \in 1 .. len : body[i] = <<key, i - 1>>
  <2>1. \A i \in 1 .. len : body[i] \in Byte
    BY <1>1 DEF Byte
  <2>2. body \in [1 .. len -> Byte]
    BY <2>1
  <2> HIDE DEF len
  <2> QED BY <1>1, <2>2
<1>4. new = (text \o pad) \o body
  BY DEF TextAppend
<1> DEFINE padded == text \o pad
<1> HIDE DEF pad, body, padding, len, padded
<1>5. /\ padded \in Seq(Byte)
      /\ Len(padded) = n + padding
      /\ \A b \in 1 .. n : padded[b] = text[b]
      /\ \A b \in 1 .. padding : padded[n + b] = <<>>
  <2>1. padded = text \o pad
    BY DEF padded
  <2>2. pad \in Seq(Byte)
    BY <1>2
  <2>3. /\ padded \in Seq(Byte)
        /\ Len(padded) = Len(text) + Len(pad)
        /\ \A b \in 1 .. Len(text) : padded[b] = text[b]
        /\ \A b \in 1 .. Len(pad) : padded[Len(text) + b] = pad[b]
    BY <2>1, <2>2, Joined
  <2> QED BY <1>2, <2>3
<1>6. \A b \in n + 1 .. n + padding : padded[b] = <<>>
  <2> SUFFICES ASSUME NEW b \in n + 1 .. n + padding PROVE padded[b] = <<>>
    OBVIOUS
  <2>1. b - n \in 1 .. padding /\ n + (b - n) = b
    BY <1>1
  <2> QED BY <1>5, <2>1
<1>7. /\ new \in Seq(Byte)
      /\ Len(new) = n + padding + len
      /\ \A b \in 1 .. n + padding : new[b] = padded[b]
      /\ \A j \in 0 .. len - 1 : new[n + padding + j + 1] = <<key, j>>
  <2>1. new = padded \o body
    BY <1>4 DEF padded
  <2>2. /\ new \in Seq(Byte)
        /\ Len(new) = (n + padding) + len
        /\ \A b \in 1 .. n + padding : new[b] = padded[b]
        /\ \A i \in 1 .. len : new[(n + padding) + i] = body[i]
    <3>1. body \in Seq(Byte) /\ padded \in Seq(Byte)
      BY <1>3, <1>5
    <3>2. /\ new \in Seq(Byte)
          /\ Len(new) = Len(padded) + Len(body)
          /\ \A b \in 1 .. Len(padded) : new[b] = padded[b]
          /\ \A i \in 1 .. Len(body) : new[Len(padded) + i] = body[i]
      BY <2>1, <3>1, Joined
    <3> QED BY <1>3, <1>5, <3>2
  <2>3. ASSUME NEW j \in 0 .. len - 1 PROVE new[n + padding + j + 1] = <<key, j>>
    <3>1. j + 1 \in 1 .. len /\ (j + 1) - 1 = j /\ n + padding + j + 1 = (n + padding) + (j + 1)
      BY <1>1
    <3> QED BY <1>3, <2>2, <3>1
  <2> QED BY <2>2, <2>3
<1> HIDE DEF n
<1>8. Len(new) - len = n + padding
  BY <1>1, <1>7
<1>9. /\ new \in Seq(Byte)
      /\ Len(new) - len \in Nat
      /\ Len(new) - len >= n
      /\ \A b \in 1 .. n : new[b] = text[b]
      /\ \A b \in n + 1 .. Len(new) - len : new[b] = <<>>
      /\ \A j \in 0 .. len - 1 : new[Len(new) - len + j + 1] = <<key, j>>
  <2>1. \A b \in 1 .. n : b \in 1 .. n + padding
    BY <1>1
  <2>2. \A b \in n + 1 .. n + padding : b \in 1 .. n + padding
    BY <1>1
  <2>3. n + padding \in Nat /\ n + padding >= n
    BY <1>1
  <2> QED BY <1>5, <1>6, <1>7, <1>8, <2>1, <2>2, <2>3
<1> QED BY <1>9 DEF len, n, Behind

\* Appending all outputs, as a run of single appends.
TextFold == INSTANCE Folding WITH Op <- AppendOutput

\* The size of a function, as the code generator gives it.
Sized(fn) == fn.len \in Nat /\ fn.align \in Nat \ {0}

\* Where an output lies in the text.
Loc == [start : Nat, length : Nat]

\* The text and the locations of the first n outputs: each output lies whole at its
\* location, behind the ones before it, and there is only padding elsewhere.
Laid(m, outputs, n, text, locs) ==
  /\ text \in Seq(Byte)
  /\ locs \in Seq(Loc)
  /\ Len(locs) = n
  /\ \A i \in 1 .. n :
       /\ locs[i].length = CompiledFunction(m, outputs[i]).len
       /\ locs[i].start + locs[i].length <= Len(text)
       /\ \A j \in 0 .. locs[i].length - 1 :
            text[locs[i].start + j + 1] = <<outputs[i], j>>
       /\ \A k \in 1 .. i - 1 :
            locs[k].start + locs[k].length <= locs[i].start
  /\ \A b \in 1 .. Len(text) : text[b] # <<>> =>
       \E i \in 1 .. n : \E j \in 0 .. locs[i].length - 1 :
         b = locs[i].start + j + 1

\* Appending one more output keeps the earlier ones where they are.
LEMMA AppendsOutput ==
  ASSUME NEW m, NEW outputs \in Seq(Key), NEW n \in Nat, n + 1 \in DOMAIN outputs,
         Sized(CompiledFunction(m, outputs[n + 1])),
         NEW acc, Laid(m, outputs, n, acc.text, acc.locs),
         NEW new, new = AppendOutput(m, acc, outputs[n + 1])
  PROVE  Laid(m, outputs, n + 1, new.text, new.locs)
<1> DEFINE key == outputs[n + 1]
           fn == CompiledFunction(m, key)
<1>1. key \in Key /\ fn.len \in Nat /\ fn.align \in Nat \ {0}
  BY DEF Sized
<1>2. PICK text : text = TextAppend(acc.text, key, fn)
  OBVIOUS
<1>3. PICK len : len = fn.len
  OBVIOUS
<1>4. PICK start : start = Len(text) - len
  OBVIOUS
<1>5. /\ new.text = text
      /\ new.locs = Append(acc.locs, [start |-> start, length |-> len])
  BY <1>2, <1>3, <1>4 DEF AppendOutput
<1>6. acc.text \in Seq(Byte) /\ acc.locs \in Seq(Loc) /\ Len(acc.locs) = n
  BY DEF Laid
<1>7. PICK old : old = Len(acc.text)
  OBVIOUS
<1>8. /\ text \in Seq(Byte)
      /\ start \in Nat
      /\ start >= old
      /\ \A b \in 1 .. old : text[b] = acc.text[b]
      /\ \A b \in old + 1 .. start : text[b] = <<>>
      /\ \A j \in 0 .. len - 1 : text[start + j + 1] = <<key, j>>
  <2> HIDE DEF fn, key
  <2>1. Behind(acc.text, key, fn, text)
    <3>1. acc.text \in Seq(Byte) /\ key \in Key /\ fn.len \in Nat /\ fn.align \in Nat \ {0}
      BY <1>1, <1>6
    <3> QED BY ONLY <1>2, <3>1, TextAppends
  <2> QED BY <1>3, <1>4, <1>7, <2>1 DEF Behind
<1>9. Len(text) = start + len /\ old \in Nat /\ len \in Nat
  <2>1. len \in Nat
    BY <1>1, <1>3
  <2>2. old \in Nat
    BY ONLY <1>6, <1>7, LenProperties
  <2>3. Len(text) \in Nat
    BY ONLY <1>8, LenProperties
  <2> QED BY ONLY <1>4, <2>1, <2>2, <2>3
<1>10. /\ new.locs \in Seq(Loc)
       /\ Len(new.locs) = n + 1
       /\ \A i \in 1 .. n : new.locs[i] = acc.locs[i]
       /\ new.locs[n + 1] = [start |-> start, length |-> len]
  <2>1. [start |-> start, length |-> len] \in Loc
    BY <1>8, <1>9 DEF Loc
  <2> HIDE DEF Loc
  <2> QED BY <1>5, <1>6, <2>1
<1>11. \A i \in 1 .. n : /\ acc.locs[i].start \in Nat
                         /\ acc.locs[i].length \in Nat
                         /\ acc.locs[i].length = CompiledFunction(m, outputs[i]).len
                         /\ acc.locs[i].start + acc.locs[i].length <= old
  <2>1. \A i \in 1 .. n : acc.locs[i] \in Loc
    BY <1>6
  <2> QED BY <1>7, <2>1 DEF Laid, Loc
<1>12. ASSUME NEW i \in 1 .. n + 1
       PROVE  /\ new.locs[i].length = CompiledFunction(m, outputs[i]).len
              /\ new.locs[i].start + new.locs[i].length <= Len(text)
  <2>1. CASE i = n + 1
    BY <1>3, <1>8, <1>9, <1>10, <2>1, SMTT(30)
  <2>2. CASE i \in 1 .. n
    <3>1. new.locs[i] = acc.locs[i]
      BY <1>10, <2>2
    <3>2. PICK at, size : at = acc.locs[i].start /\ size = acc.locs[i].length
      OBVIOUS
    <3>3. at \in Nat /\ size \in Nat /\ at + size <= old
      BY <1>11, <2>2, <3>2
    <3>4. at + size <= Len(text)
      BY <1>8, <1>9, <3>3
    <3> QED BY <1>11, <2>2, <3>1, <3>2, <3>4
  <2> QED BY <2>1, <2>2
<1>13. ASSUME NEW i \in 1 .. n + 1, NEW j \in 0 .. new.locs[i].length - 1
       PROVE  text[new.locs[i].start + j + 1] = <<outputs[i], j>>
  <2>1. CASE i = n + 1
    <3>1. new.locs[i].start = start /\ new.locs[i].length = len
      BY <1>10, <2>1
    <3>2. text[start + j + 1] = <<key, j>>
      BY <1>8, <3>1
    <3> QED BY <2>1, <3>1, <3>2
  <2>2. CASE i \in 1 .. n
    <3>1. new.locs[i] = acc.locs[i] /\ j \in 0 .. acc.locs[i].length - 1
      BY <1>10, <2>2
    <3>2. acc.text[acc.locs[i].start + j + 1] = <<outputs[i], j>>
      BY <2>2, <3>1 DEF Laid
    <3>3. acc.locs[i].start + j + 1 \in 1 .. old
      <4>1. PICK at, size : at = acc.locs[i].start /\ size = acc.locs[i].length
        OBVIOUS
      <4>2. at \in Nat /\ size \in Nat /\ at + size <= old /\ j \in 0 .. size - 1
        BY <1>11, <2>2, <3>1, <4>1
      <4>3. at + j + 1 \in 1 .. old
        BY <1>9, <4>2
      <4> QED BY <4>1, <4>3
    <3>4. PICK b : b = acc.locs[i].start + j + 1
      OBVIOUS
    <3>5. text[b] = acc.text[b]
      BY <1>8, <3>3, <3>4
    <3>6. text[b] = <<outputs[i], j>>
      BY <3>2, <3>4, <3>5
    <3> QED BY <3>1, <3>4, <3>6
  <2>3. i = n + 1 \/ i \in 1 .. n
    OBVIOUS
  <2> QED BY <2>1, <2>2, <2>3
<1>14. ASSUME NEW i \in 1 .. n + 1, NEW k \in 1 .. i - 1
       PROVE  new.locs[k].start + new.locs[k].length <= new.locs[i].start
  <2>1. k \in 1 .. n /\ new.locs[k] = acc.locs[k]
    BY <1>10
  <2>2. CASE i = n + 1
    <3>1. PICK at, size : at = acc.locs[k].start /\ size = acc.locs[k].length
      OBVIOUS
    <3>2. at \in Nat /\ size \in Nat /\ at + size <= old
      BY <1>11, <2>1, <3>1
    <3>3. at + size <= start
      BY <1>8, <1>9, <3>2
    <3>4. new.locs[i].start = start
      BY <1>10, <2>2
    <3> QED BY <2>1, <3>1, <3>3, <3>4
  <2>3. CASE i \in 1 .. n
    BY <1>10, <2>1, <2>3 DEF Laid
  <2> QED BY <2>2, <2>3
<1>15. ASSUME NEW b \in 1 .. Len(text), text[b] # <<>>
       PROVE  \E i \in 1 .. n + 1 : \E j \in 0 .. new.locs[i].length - 1 :
                b = new.locs[i].start + j + 1
  <2>1. CASE b \in 1 .. old
    <3>1. acc.text[b] # <<>>
      BY <1>8, <1>15, <2>1
    <3>2. PICK i \in 1 .. n : \E j \in 0 .. acc.locs[i].length - 1 : b = acc.locs[i].start + j + 1
      BY <1>7, <2>1, <3>1 DEF Laid
    <3>3. i \in 1 .. n + 1 /\ new.locs[i] = acc.locs[i]
      BY <1>10
    <3> QED BY <3>2, <3>3
  <2>2. CASE b \in start + 1 .. start + len
    <3>1. b - start - 1 \in 0 .. len - 1 /\ b = start + (b - start - 1) + 1
      BY <1>8, <1>9, <2>2
    <3>2. n + 1 \in 1 .. n + 1
      OBVIOUS
    <3> QED BY <1>10, <3>1, <3>2
  <2>3. b \in 1 .. old \/ b \in start + 1 .. start + len
    <3>1. ~(b \in old + 1 .. start)
      BY <1>8, <1>15
    <3> QED BY <1>8, <1>9, <3>1
  <2> QED BY <2>1, <2>2, <2>3
<1> HIDE DEF fn, key
<1>16. Laid(m, outputs, n + 1, text, new.locs)
  <2>1. text \in Seq(Byte) /\ new.locs \in Seq(Loc) /\ Len(new.locs) = n + 1
    BY <1>8, <1>10
  <2> QED BY <1>12, <1>13, <1>14, <1>15, <2>1 DEF Laid
<1> QED BY <1>5, <1>16

\* link_and_finish lays the outputs out one behind the other, each of them whole and
\* none over another.
LEMMA OutputsLaidOut ==
  ASSUME NEW m, NEW outputs \in Seq(Key),
         \A i \in DOMAIN outputs : Sized(CompiledFunction(m, outputs[i]))
  PROVE  Laid(m, outputs, Len(outputs), AppendOutputs(m, outputs).text, AppendOutputs(m, outputs).locs)
<1> DEFINE base == [text |-> <<>>, locs |-> <<>>]
<1>1. AppendOutputs(m, outputs) = TextFold!Fold(m, base, outputs)
  BY DEF AppendOutputs, FoldLeft, MapThenFoldSet, Max,
     TextFold!Fold, TextFold!Largest
<1>2. PICK acc : /\ acc[0] = base
                 /\ \A i \in 1 .. Len(outputs) : acc[i] = AppendOutput(m, acc[i - 1], outputs[i])
                 /\ TextFold!Fold(m, base, outputs) = acc[Len(outputs)]
  <2> HIDE DEF base
  <2>1. TextFold!Inductive
    BY SetInduction DEF TextFold!Inductive
  <2> QED BY <2>1, TextFold!FoldRuns
<1> DEFINE S == {n \in Nat : n <= Len(outputs) => Laid(m, outputs, n, acc[n].text, acc[n].locs)}
<1>3. 0 \in S
  <2>1. acc[0].text = <<>> /\ acc[0].locs = <<>>
    BY <1>2
  <2>2. <<>> \in Seq(Byte) /\ <<>> \in Seq(Loc) /\ Len(<<>>) = 0 /\ 1 .. 0 = {}
    OBVIOUS
  <2>3. Laid(m, outputs, 0, acc[0].text, acc[0].locs)
    BY <2>1, <2>2 DEF Laid
  <2> QED BY <2>3
<1>4. \A n \in Nat : n \in S => n + 1 \in S
  <2> SUFFICES ASSUME NEW n \in Nat, n \in S, n + 1 <= Len(outputs)
               PROVE  Laid(m, outputs, n + 1, acc[n + 1].text, acc[n + 1].locs)
    OBVIOUS
  <2>1. Laid(m, outputs, n, acc[n].text, acc[n].locs) /\ n + 1 \in 1 .. Len(outputs) /\ (n + 1) - 1 = n
    OBVIOUS
  <2>2. acc[n + 1] = AppendOutput(m, acc[n], outputs[n + 1]) /\ n + 1 \in DOMAIN outputs
    BY <1>2, <2>1
  <2> QED BY <2>1, <2>2, AppendsOutput
<1>5. Nat \subseteq S
  <2> HIDE DEF S
  <2> QED BY <1>3, <1>4, SetInduction
<1>6. Len(outputs) \in Nat
  OBVIOUS
<1>7. Laid(m, outputs, Len(outputs), acc[Len(outputs)].text, acc[Len(outputs)].locs)
  BY <1>5, <1>6
<1> QED BY <1>1, <1>2, <1>7

-----------------------------------------------------------------------------
(* The trap table.                                                         *)

\* The traps, of either table.
Trap == ToSet(UserTraps) \cup ToSet(ReservedTraps)

\* The discriminant of a trap is its place in the enum, as long as no variant is
\* there twice.
LEMMA Discriminates ==
  ASSUME NEW n \in Nat, NEW traps, Len(traps) = n,
         \A i, j \in 1 .. n : traps[i] = traps[j] => i = j,
         NEW k \in 1 .. n
  PROVE  Discriminant(traps, traps[k]) = k - 1
<1> DEFINE I == {i \in 1 .. n : traps[i] = traps[k]}
<1>1. I = {k}
  OBVIOUS
<1>2. Min({k}) = k
  BY DEF Min
<1>3. SelectInSeq(traps, LAMBDA t : t = traps[k]) = Min(I)
  BY <1>1 DEF SelectInSeq
<1> QED BY <1>1, <1>2, <1>3 DEF Discriminant

\* No trap is there twice, and none in both tables.
LEMMA TablesOfTraps ==
  /\ Len(UserTraps) = 8 /\ DOMAIN UserTraps = 1 .. 8
  /\ Len(ReservedTraps) = 5 /\ DOMAIN ReservedTraps = 1 .. 5
  /\ \A i, j \in 1 .. 8 : UserTraps[i] = UserTraps[j] => i = j
  /\ \A i, j \in 1 .. 5 : ReservedTraps[i] = ReservedTraps[j] => i = j
  /\ \A i \in 1 .. 8, j \in 1 .. 5 : UserTraps[i] # ReservedTraps[j]
<1>1. Len(UserTraps) = 8 /\ DOMAIN UserTraps = 1 .. 8
  BY DEF UserTraps
<1>2. Len(ReservedTraps) = 5 /\ DOMAIN ReservedTraps = 1 .. 5
  BY DEF ReservedTraps
<1>3. \A i \in 1 .. 8 : i \in {1, 2, 3, 4, 5, 6, 7, 8}
  OBVIOUS
<1>4. \A i \in 1 .. 5 : i \in {1, 2, 3, 4, 5}
  OBVIOUS
<1>5. \A i, j \in 1 .. 8 : UserTraps[i] = UserTraps[j] => i = j
  BY <1>3 DEF UserTraps
<1>6. \A i, j \in 1 .. 5 : ReservedTraps[i] = ReservedTraps[j] => i = j
  BY <1>4 DEF ReservedTraps
<1>7. \A i \in 1 .. 8, j \in 1 .. 5 : UserTraps[i] # ReservedTraps[j]
  BY <1>3, <1>4 DEF UserTraps, ReservedTraps
<1> QED BY <1>1, <1>2, <1>5, <1>6, <1>7

\* Translating a trap to a code of the code generator and back gives the same trap
\* (trap_to_trap_code and trap_code_to_trap).
LEMMA TrapsRoundTrip ==
  ASSUME NEW trap \in Trap
  PROVE  TrapCode(trap) \in Nat /\ FromTrapCode(TrapCode(trap)) = trap
<1>1. CASE trap \in ToSet(UserTraps)
  <2>1. PICK i \in 1 .. 8 : trap = UserTraps[i]
    BY <1>1, TablesOfTraps DEF ToSet
  <2>2. Discriminant(UserTraps, trap) = i - 1
    <3>1. 8 \in Nat /\ Len(UserTraps) = 8
      BY TablesOfTraps
    <3>2. \A j, k \in 1 .. 8 : UserTraps[j] = UserTraps[k] => j = k
      BY TablesOfTraps
    <3> QED BY <2>1, <3>1, <3>2, Discriminates
  <2>3. Contains(UserTraps, trap)
    BY <2>1, TablesOfTraps DEF Contains
  <2>4. TrapCode(trap) = (i - 1) + 1
    BY <2>2, <2>3 DEF TrapCode, TRAP_OFFSET
  <2>5. TrapCode(trap) = i /\ ~(i >= 251) /\ i - 1 + 1 = i
    BY <2>4
  <2> QED BY <2>1, <2>5 DEF FromTrapCode, FirstReserved, TRAP_OFFSET
<1>2. CASE trap \in ToSet(ReservedTraps)
  <2>1. PICK i \in 1 .. 5 : trap = ReservedTraps[i]
    BY <1>2, TablesOfTraps DEF ToSet
  <2>2. Discriminant(ReservedTraps, trap) = i - 1
    <3>1. 5 \in Nat /\ Len(ReservedTraps) = 5
      BY TablesOfTraps
    <3>2. \A j, k \in 1 .. 5 : ReservedTraps[j] = ReservedTraps[k] => j = k
      BY TablesOfTraps
    <3> QED BY <2>1, <3>1, <3>2, Discriminates
  <2>3. ~Contains(UserTraps, trap)
    BY <2>1, TablesOfTraps DEF Contains
  <2>4. TrapCode(trap) = (i - 1) + 251
    BY <2>2, <2>3 DEF TrapCode, FirstReserved
  <2>5. TrapCode(trap) \in Nat /\ TrapCode(trap) >= 251 /\ TrapCode(trap) - 251 + 1 = i
    BY <2>4
  <2> QED BY <2>1, <2>5 DEF FromTrapCode, FirstReserved
<1> QED BY <1>1, <1>2 DEF Trap

\* Pushing the traps of a function, as a run of single pushes.
TrapFold == INSTANCE Folding WITH Op <- PushTrap

\* What the code generator says of a trap: where, and which.
Info == [at : Nat, code : {TrapCode(trap) : trap \in Trap}]

\* The entries of a trap table, as pairs.
Pairs(acc) == {<<acc.offsets[k], acc.traps[k]>> : k \in DOMAIN acc.offsets}

\* The entry for a trap of a function that lies at a location.
Entry(loc, info) == <<loc.start + info.at, FromTrapCode(info.code)>>

\* A trap table that is sorted so far.
IsTable(acc) ==
  /\ acc = [offsets |-> acc.offsets, traps |-> acc.traps, last |-> acc.last, sorted |-> acc.sorted]
  /\ acc.offsets \in Seq(Nat)
  /\ acc.traps \in Seq(Trap)
  /\ Len(acc.offsets) = Len(acc.traps)
  /\ acc.last \in Nat
  /\ acc.sorted = TRUE

\* The table after the first n traps of a function.
Pushed(loc, traps, acc0, n, acc) ==
  /\ IsTable(acc)
  /\ Pairs(acc) = Pairs(acc0) \cup {Entry(loc, traps[j]) : j \in 1 .. n}
  /\ acc.last = IF n = 0 THEN acc0.last ELSE loc.start + traps[n].at

\* Pushing one trap that does not lie before the last one.
LEMMA PushesTrap ==
  ASSUME NEW loc \in Loc, NEW acc, IsTable(acc), NEW info \in Info, loc.start + info.at >= acc.last,
         NEW new, new = PushTrap(loc, acc, info)
  PROVE  /\ IsTable(new)
         /\ Pairs(new) = Pairs(acc) \cup {Entry(loc, info)}
         /\ new.last = loc.start + info.at
<1>1. PICK pos : pos = loc.start + info.at
  OBVIOUS
<1>2. pos \in Nat
  BY <1>1 DEF Loc, Info
<1>3. PICK trap \in Trap : trap = FromTrapCode(info.code)
  <2>1. PICK trap \in Trap : info.code = TrapCode(trap)
    BY DEF Info
  <2> QED BY <2>1, TrapsRoundTrip
<1>4. /\ new = [offsets |-> new.offsets, traps |-> new.traps, last |-> new.last, sorted |-> new.sorted]
      /\ new.offsets = Append(acc.offsets, pos)
      /\ new.traps = Append(acc.traps, trap)
      /\ new.last = pos
      /\ new.sorted = TRUE
  BY <1>1, <1>3 DEF PushTrap, IsTable
<1>5. PICK n \in Nat : n = Len(acc.offsets) /\ n = Len(acc.traps)
  BY DEF IsTable
<1>6. acc.offsets \in Seq(Nat) /\ acc.traps \in Seq(Trap)
  BY DEF IsTable
<1>7. /\ new.offsets \in Seq(Nat) /\ Len(new.offsets) = n + 1 /\ DOMAIN new.offsets = 1 .. n + 1
      /\ \A k \in 1 .. n : new.offsets[k] = acc.offsets[k]
      /\ new.offsets[n + 1] = pos
  <2>1. PICK offsets \in Seq(Nat) : offsets = acc.offsets
    BY <1>6
  <2>2. PICK more : more = Append(offsets, pos)
    OBVIOUS
  <2>3. /\ more \in Seq(Nat) /\ Len(more) = n + 1
        /\ \A k \in 1 .. n : more[k] = offsets[k]
        /\ more[n + 1] = pos
    <3>1. /\ more \in Seq(Nat) /\ Len(more) = Len(offsets) + 1
          /\ \A k \in 1 .. Len(offsets) : more[k] = offsets[k]
          /\ more[Len(offsets) + 1] = pos
      BY <1>2, <2>2, AppendProperties
    <3> QED BY <1>5, <2>1, <3>1
  <2>4. DOMAIN more = 1 .. n + 1
    BY <2>3, LenProperties
  <2> QED BY <1>4, <2>1, <2>2, <2>3, <2>4
<1>8. /\ new.traps \in Seq(Trap) /\ Len(new.traps) = n + 1
      /\ \A k \in 1 .. n : new.traps[k] = acc.traps[k]
      /\ new.traps[n + 1] = trap
  BY <1>4, <1>5, <1>6
<1>9. IsTable(new)
  BY <1>2, <1>4, <1>7, <1>8 DEF IsTable
<1>10. Entry(loc, info) = <<pos, trap>>
  BY <1>1, <1>3 DEF Entry
<1>11. Pairs(new) = Pairs(acc) \cup {<<pos, trap>>}
  <2>1. DOMAIN acc.offsets = 1 .. n
    <3>1. DOMAIN acc.offsets = 1 .. Len(acc.offsets)
      BY <1>6, LenProperties
    <3> QED BY <1>5, <3>1
  <2>2. 1 .. n + 1 = (1 .. n) \cup {n + 1}
    BY <1>5
  <2>3. Pairs(new) = {<<new.offsets[k], new.traps[k]>> : k \in 1 .. n} \cup {<<pos, trap>>}
    <3> DEFINE P(k) == <<new.offsets[k], new.traps[k]>>
    <3>1. Pairs(new) = {P(k) : k \in 1 .. n + 1}
      BY <1>7 DEF Pairs
    <3>2. P(n + 1) = <<pos, trap>>
      BY <1>7, <1>8
    <3> HIDE DEF P
    <3>3. {P(k) : k \in 1 .. n + 1} = {P(k) : k \in 1 .. n} \cup {P(n + 1)}
      BY <2>2
    <3>4. Pairs(new) = {P(k) : k \in 1 .. n} \cup {<<pos, trap>>}
      BY <3>1, <3>2, <3>3
    <3> QED BY <3>4 DEF P
  <2>4. {<<new.offsets[k], new.traps[k]>> : k \in 1 .. n} = {<<acc.offsets[k], acc.traps[k]>> : k \in 1 .. n}
    BY <1>7, <1>8
  <2> QED BY <2>1, <2>3, <2>4 DEF Pairs
<1> QED BY <1>1, <1>4, <1>9, <1>10, <1>11

\* Traps in the order of their instructions.
Ascending(traps) ==
  \A i \in DOMAIN traps : \A j \in 1 .. i - 1 : traps[j].at < traps[i].at

\* push_traps adds the traps of a function, at the place the function has in the
\* text, and its check that the table stays sorted holds.
LEMMA PushesTraps ==
  ASSUME NEW loc \in Loc, NEW acc0, IsTable(acc0), acc0.last <= loc.start,
         NEW traps \in Seq(Info),
         Ascending(traps),
         NEW new, new = PushTraps(acc0, loc, traps)
  PROVE  /\ IsTable(new)
         /\ Pairs(new) = Pairs(acc0) \cup {Entry(loc, traps[j]) : j \in DOMAIN traps}
         /\ new.last = loc.start + loc.length
<1>1. PICK fold : fold = TrapFold!Fold(loc, acc0, traps)
  OBVIOUS
<1>2. new = [fold EXCEPT !.last = loc.start + loc.length]
  <2>1. fold = FoldLeft(LAMBDA a, trap : PushTrap(loc, a, trap), acc0, traps)
    BY <1>1 DEF FoldLeft, MapThenFoldSet, Max, TrapFold!Fold,
       TrapFold!Largest
  <2> QED BY <2>1 DEF PushTraps
<1>3. PICK acc : /\ acc[0] = acc0
                 /\ \A i \in 1 .. Len(traps) : acc[i] = PushTrap(loc, acc[i - 1], traps[i])
                 /\ fold = acc[Len(traps)]
  <2>1. TrapFold!Inductive
    BY SetInduction DEF TrapFold!Inductive
  <2> QED BY <1>1, <2>1, TrapFold!FoldRuns
<1>4. Len(traps) \in Nat /\ DOMAIN traps = 1 .. Len(traps) /\ \A i \in 1 .. Len(traps) : traps[i] \in Info
  OBVIOUS
<1> DEFINE S == {n \in Nat : n <= Len(traps) => Pushed(loc, traps, acc0, n, acc[n])}
<1>5. 0 \in S
  <2>1. {Entry(loc, traps[j]) : j \in 1 .. 0} = {}
    OBVIOUS
  <2>2. Pushed(loc, traps, acc0, 0, acc[0])
    BY <1>3, <2>1 DEF Pushed
  <2> QED BY <2>2
<1>6. \A n \in Nat : n \in S => n + 1 \in S
  <2> SUFFICES ASSUME NEW n \in Nat, n \in S, n + 1 <= Len(traps)
               PROVE  Pushed(loc, traps, acc0, n + 1, acc[n + 1])
    OBVIOUS
  <2>1. Pushed(loc, traps, acc0, n, acc[n]) /\ n + 1 \in 1 .. Len(traps) /\ (n + 1) - 1 = n
    BY <1>4
  <2>2. acc[n + 1] = PushTrap(loc, acc[n], traps[n + 1]) /\ traps[n + 1] \in Info
    BY <1>3, <1>4, <2>1
  <2>3. loc.start + traps[n + 1].at >= acc[n].last
    <3>1. loc.start \in Nat /\ traps[n + 1].at \in Nat
      BY <2>2 DEF Loc, Info
    <3>2. CASE n = 0
      BY <2>1, <3>1, <3>2 DEF Pushed, IsTable
    <3>3. CASE n # 0
      <4>1. n \in 1 .. Len(traps) /\ n \in 1 .. (n + 1) - 1
        BY <2>1, <3>3
      <4>2. traps[n].at \in Nat /\ traps[n].at < traps[n + 1].at
        BY <1>4, <2>1, <4>1 DEF Info, Ascending
      <4>3. acc[n].last = loc.start + traps[n].at
        BY <2>1, <3>3 DEF Pushed
      <4> QED BY <3>1, <4>2, <4>3
    <3> QED BY <3>2, <3>3
  <2>4. /\ IsTable(acc[n + 1])
        /\ Pairs(acc[n + 1]) = Pairs(acc[n]) \cup {Entry(loc, traps[n + 1])}
        /\ acc[n + 1].last = loc.start + traps[n + 1].at
    <3>1. IsTable(acc[n])
      BY <2>1 DEF Pushed
    <3> QED BY <2>2, <2>3, <3>1, PushesTrap
  <2>5. {Entry(loc, traps[j]) : j \in 1 .. n + 1}
          = {Entry(loc, traps[j]) : j \in 1 .. n} \cup {Entry(loc, traps[n + 1])}
    <3>1. 1 .. n + 1 = (1 .. n) \cup {n + 1}
      OBVIOUS
    <3> QED BY <3>1
  <2>6. Pairs(acc[n]) = Pairs(acc0) \cup {Entry(loc, traps[j]) : j \in 1 .. n}
    BY <2>1 DEF Pushed
  <2>7. Pairs(acc[n + 1]) = Pairs(acc0) \cup {Entry(loc, traps[j]) : j \in 1 .. n + 1}
    BY <2>4, <2>5, <2>6
  <2> QED BY <2>4, <2>7 DEF Pushed
<1>7. Nat \subseteq S
  <2> HIDE DEF S
  <2> QED BY <1>5, <1>6, SetInduction
<1>8. Pushed(loc, traps, acc0, Len(traps), fold)
  BY <1>3, <1>4, <1>7
<1>9. loc.start + loc.length \in Nat
  BY DEF Loc
<1>10. /\ new = [offsets |-> fold.offsets, traps |-> fold.traps,
                 last |-> loc.start + loc.length, sorted |-> fold.sorted]
  BY <1>2, <1>8 DEF Pushed, IsTable
<1>11. new.offsets = fold.offsets /\ new.traps = fold.traps /\ new.sorted = fold.sorted
       /\ new.last = loc.start + loc.length
  BY <1>10
<1>12. Pairs(new) = Pairs(fold)
  BY <1>11 DEF Pairs
<1>13. IsTable(new)
  BY <1>8, <1>9, <1>10, <1>11 DEF Pushed, IsTable
<1> QED BY <1>4, <1>8, <1>11, <1>12, <1>13 DEF Pushed

\* Pushing the traps of all outputs, as a run of single outputs.
PushOutputOf(p, acc, fn) == PushOutput(acc, fn)
TableFold == INSTANCE Folding WITH Op <- PushOutputOf

\* What the code generator says of the traps of a function.
Trapping(fn) ==
  /\ fn.traps \in Seq(Info)
  /\ Ascending(fn.traps)

\* The entries for the traps of the first n outputs.
Entries(m, outputs, locs, n) ==
  UNION {{Entry(locs[i], trap) : trap \in ToSet(CompiledFunction(m, outputs[i]).traps)} :
           i \in 1 .. n}

\* The trap table has the traps of all outputs, each at the place the layout gives it,
\* and no other, and it is sorted, so that the assertion of push_traps holds.
LEMMA TrapTableIs ==
  ASSUME NEW m, NEW outputs \in Seq(Key),
         \A i \in DOMAIN outputs : Trapping(CompiledFunction(m, outputs[i])),
         NEW text, NEW locs, Laid(m, outputs, Len(outputs), text, locs)
  PROVE  /\ IsTable(TrapTable(m, outputs, locs))
         /\ Pairs(TrapTable(m, outputs, locs)) = Entries(m, outputs, locs, Len(outputs))
<1> DEFINE base == [offsets |-> <<>>, traps |-> <<>>, last |-> 0, sorted |-> TRUE]
           Traps(i) == CompiledFunction(m, outputs[i]).traps
           Placed(i) == [loc |-> locs[i], traps |-> Traps(i)]
           seq == [i \in DOMAIN outputs |-> Placed(i)]
<1>1. PICK len \in Nat : len = Len(outputs) /\ DOMAIN outputs = 1 .. len
  OBVIOUS
<1>3. Laid(m, outputs, len, text, locs)
  BY <1>1
<1>4. locs \in Seq(Loc) /\ Len(locs) = len
  BY <1>3 DEF Laid
<1>5. \A i \in 1 .. len : /\ locs[i] \in Loc
                          /\ \A k \in 1 .. i - 1 : locs[k].start + locs[k].length <= locs[i].start
  BY <1>3, <1>4 DEF Laid
<1>6. \A i \in 1 .. len : Trapping(CompiledFunction(m, outputs[i]))
  BY <1>1
<1>7. seq \in Seq([loc : Loc, traps : Seq(Info)]) /\ Len(seq) = len /\ \A i \in 1 .. len : seq[i] = Placed(i)
  <2>1. \A i \in 1 .. len : Placed(i) \in [loc : Loc, traps : Seq(Info)]
    BY <1>5, <1>6 DEF Trapping
  <2> DEFINE T == [loc : Loc, traps : Seq(Info)]
  <2>2. seq = [i \in 1 .. len |-> Placed(i)]
    BY <1>1
  <2> HIDE DEF Placed, T
  <2>3. seq \in [1 .. len -> T] /\ \A i \in 1 .. len : seq[i] = Placed(i)
    BY <2>1, <2>2 DEF T
  <2>4. seq \in Seq(T) /\ Len(seq) = len
    <3> HIDE DEF seq
    <3> QED BY <2>3
  <2> QED BY <2>3, <2>4 DEF T
<1>8. PICK table : table = TrapTable(m, outputs, locs)
  OBVIOUS
<1>9. table = TableFold!Fold(0, base, seq)
  BY <1>8 DEF FoldLeft, MapThenFoldSet, Max, TableFold!Fold, PushOutputOf, TrapTable,
     TableFold!Largest
<1>10. PICK acc : /\ acc[0] = base
                  /\ \A i \in 1 .. len : acc[i] = PushOutputOf(0, acc[i - 1], seq[i])
                  /\ table = acc[len]
  <2> HIDE DEF base, seq
  <2>1. TableFold!Inductive
    BY SetInduction DEF TableFold!Inductive
  <2> QED BY <1>7, <1>9, <2>1, TableFold!FoldRuns
<1> DEFINE Good(n) == /\ IsTable(acc[n])
                      /\ Pairs(acc[n]) = Entries(m, outputs, locs, n)
                      /\ acc[n].last = IF n = 0 THEN 0 ELSE locs[n].start + locs[n].length
           S == {n \in Nat : n <= len => Good(n)}
<1>11. 0 \in S
  <2>1. acc[0].offsets = <<>> /\ acc[0].traps = <<>> /\ acc[0].last = 0 /\ acc[0].sorted = TRUE
    BY <1>10
  <2>2. <<>> \in Seq(Nat) /\ <<>> \in Seq(Trap) /\ DOMAIN <<>> = {} /\ Len(<<>>) = Len(<<>>)
    BY SMTT(30)
  <2>3. IsTable(acc[0])
    <3>1. PICK a : a = acc[0]
      OBVIOUS
    <3>2. a = [offsets |-> a.offsets, traps |-> a.traps, last |-> a.last, sorted |-> a.sorted]
      BY <1>10, <3>1
    <3>3. a.offsets = <<>> /\ a.traps = <<>> /\ a.last = 0 /\ a.sorted = TRUE
      BY <2>1, <3>1
    <3>4. IsTable(a)
      BY <2>2, <3>2, <3>3 DEF IsTable
    <3> QED BY <3>1, <3>4
  <2>4. Pairs(acc[0]) = {}
    BY <2>1, <2>2 DEF Pairs
  <2>5. Entries(m, outputs, locs, 0) = {}
    BY DEF Entries
  <2> QED BY <2>1, <2>3, <2>4, <2>5
<1>12. \A n \in Nat : n \in S => n + 1 \in S
  <2> SUFFICES ASSUME NEW n \in Nat, n \in S PROVE n + 1 \in S
    OBVIOUS
  <2> SUFFICES ASSUME n + 1 <= len PROVE Good(n + 1)
    <3> HIDE DEF Good
    <3> QED OBVIOUS
  <2>1. Good(n) /\ n + 1 \in 1 .. len /\ (n + 1) - 1 = n
    BY <1>1
  <2>2. acc[n + 1] = PushTraps(acc[n], locs[n + 1], Traps(n + 1))
    <3>1. seq[n + 1].loc = locs[n + 1] /\ seq[n + 1].traps = Traps(n + 1)
      BY <1>7, <2>1
    <3> HIDE DEF seq, Traps, base, Good
    <3>2. acc[n + 1] = PushOutputOf(0, acc[n], seq[n + 1])
      BY <1>10, <2>1, SMTT(30)
    <3> QED BY <3>1, <3>2 DEF PushOutputOf, PushOutput
  <2>3. PICK traps \in Seq(Info) : traps = Traps(n + 1) /\ Ascending(traps)
    BY <1>6, <2>1 DEF Trapping
  <2>4. PICK loc \in Loc : loc = locs[n + 1]
    BY <1>5, <2>1
  <2>5. acc[n].last <= loc.start
    <3>1. loc.start \in Nat
      BY DEF Loc
    <3>2. CASE n = 0
      BY <2>1, <3>1, <3>2
    <3>3. CASE n # 0
      <4>1. n \in 1 .. (n + 1) - 1
        BY <3>3
      <4> QED BY <1>5, <2>1, <2>4, <3>3, <4>1, SMTT(30)
    <3> QED BY <3>2, <3>3
  <2>6. /\ IsTable(acc[n + 1])
        /\ Pairs(acc[n + 1]) = Pairs(acc[n]) \cup {Entry(loc, traps[j]) : j \in DOMAIN traps}
        /\ acc[n + 1].last = loc.start + loc.length
    <3>1. acc[n + 1] = PushTraps(acc[n], loc, traps) /\ IsTable(acc[n])
      BY <2>1, <2>2, <2>3, <2>4
    <3>2. loc \in Loc /\ traps \in Seq(Info) /\ Ascending(traps)
      BY <2>3, <2>4
    <3> HIDE DEF Traps
    <3> QED BY ONLY <2>5, <3>1, <3>2, PushesTraps
  <2>7. {Entry(loc, traps[j]) : j \in DOMAIN traps} = {Entry(loc, trap) : trap \in ToSet(traps)}
    BY DEF ToSet
  <2>8. Entries(m, outputs, locs, n + 1) = Entries(m, outputs, locs, n) \cup {Entry(loc, trap) : trap \in ToSet(traps)}
    <3>1. 1 .. n + 1 = (1 .. n) \cup {n + 1}
      OBVIOUS
    <3> DEFINE E(i) == {Entry(locs[i], trap) : trap \in ToSet(Traps(i))}
    <3>2. \A k : Entries(m, outputs, locs, k) = UNION {E(i) : i \in 1 .. k}
      BY DEF Entries
    <3>3. E(n + 1) = {Entry(loc, trap) : trap \in ToSet(traps)}
      BY <2>3, <2>4
    <3> HIDE DEF E
    <3>4. UNION {E(i) : i \in 1 .. n + 1} = (UNION {E(i) : i \in 1 .. n}) \cup E(n + 1)
      BY <3>1
    <3> QED BY <3>2, <3>3, <3>4
  <2>9. Pairs(acc[n + 1]) = Entries(m, outputs, locs, n + 1)
    <3>1. Pairs(acc[n]) = Entries(m, outputs, locs, n)
      BY <2>1
    <3> QED BY ONLY <2>6, <2>7, <2>8, <3>1
  <2>10. acc[n + 1].last = IF n + 1 = 0 THEN 0 ELSE locs[n + 1].start + locs[n + 1].length
    BY <2>4, <2>6
  <2> QED BY <2>6, <2>9, <2>10
<1>13. Nat \subseteq S
  <2> HIDE DEF S
  <2> QED BY <1>11, <1>12, SetInduction
<1>14. Good(len)
  BY <1>1, <1>13
<1> QED BY <1>1, <1>8, <1>10, <1>14

-----------------------------------------------------------------------------
(* What is compiled.                                                       *)
BuiltinKeys == {WasmToBuiltinTrampoline(b) : b \in Nat}

\* What from_mach_reloc makes of a relocation.
Reloc == [at : Nat, target : {"Wasm", "Builtin"}, index : Nat]

\* Keys of different kinds differ, and the index of a key is the one it was made with.
LEMMA KindsOfKeys ==
  /\ \A i \in Nat : WasmFunction(i) \in Key /\ ArrayToWasmTrampoline(i) \in Key
                    /\ WasmToBuiltinTrampoline(i) \in Key
  /\ \A i : WasmFunction(i).kind = 0 /\ WasmFunction(i).index = i
  /\ \A i : ArrayToWasmTrampoline(i).kind = 2 /\ ArrayToWasmTrampoline(i).index = i
  /\ \A i : WasmToBuiltinTrampoline(i).kind = 4 /\ WasmToBuiltinTrampoline(i).index = i
  BY DEF Key, WasmFunction, ArrayToWasmTrampoline, WasmToBuiltinTrampoline, WASM_FUNCTION_KIND,
     ARRAY_TO_WASM_TRAMPOLINE_KIND, WASM_TO_BUILTIN_TRAMPOLINE_KIND

\* What is compiled for each kind of key.
LEMMA OutputOf ==
  /\ \A m, i : CompiledFunction(m, WasmFunction(i)) = m.funcs[i + 1].body
  /\ \A m, i : CompiledFunction(m, ArrayToWasmTrampoline(i)) = TrampolineBody(FuncIndex(m, i))
  /\ \A m, i : CompiledFunction(m, WasmToBuiltinTrampoline(i)) = BuiltinBody
<1>1. /\ WASM_FUNCTION_KIND = 0
      /\ ARRAY_TO_WASM_TRAMPOLINE_KIND = 2
      /\ WASM_TO_BUILTIN_TRAMPOLINE_KIND = 4
  BY DEF WASM_FUNCTION_KIND, ARRAY_TO_WASM_TRAMPOLINE_KIND, WASM_TO_BUILTIN_TRAMPOLINE_KIND
<1>2. \A m, i : CompiledFunction(m, WasmFunction(i)) = m.funcs[i + 1].body
  BY <1>1, KindsOfKeys DEF CompiledFunction
<1>3. \A m, i : CompiledFunction(m, ArrayToWasmTrampoline(i)) = TrampolineBody(FuncIndex(m, i))
  BY <1>1, KindsOfKeys DEF CompiledFunction
<1>4. \A m, i : CompiledFunction(m, WasmToBuiltinTrampoline(i)) = BuiltinBody
  BY <1>1, KindsOfKeys DEF CompiledFunction
<1> QED BY <1>2, <1>3, <1>4

\* TRAP_INTERNAL_ASSERT is the code of a trap.
LEMMA AssertTrap == TRAP_INTERNAL_ASSERT \in Nat
                    /\ \E trap \in ToSet(UserTraps) \cup ToSet(ReservedTraps) : TRAP_INTERNAL_ASSERT = TrapCode(trap)
<1>1. UserTraps[1] = "InternalAssertionFailed" /\ 1 \in DOMAIN UserTraps
  BY DEF UserTraps
<1>2. "InternalAssertionFailed" \in ToSet(UserTraps)
  BY <1>1 DEF ToSet
<1> QED BY <1>2, TrapsRoundTrip DEF TRAP_INTERNAL_ASSERT, Trap

\* The trampoline of a builtin is what the code generator promises of a function.
LEMMA BuiltinsCompile ==
  ASSUME NEW m, IsModule(m)
  PROVE  IsCompiled(m, BuiltinBody)
<1>1. PICK code \in Nat : /\ code = TRAP_INTERNAL_ASSERT
                          /\ \E trap \in ToSet(UserTraps) \cup ToSet(ReservedTraps) : code = TrapCode(trap)
  BY AssertTrap
<1>2. PICK fn : fn = BuiltinBody
  OBVIOUS
<1>3. PICK traps : traps = IF DebugAssertions THEN <<[at |-> 0, code |-> code]>> ELSE <<>>
  OBVIOUS
<1>4. fn = [len |-> 4, align |-> 2, names |-> <<>>, relocs |-> <<>>, traps |-> traps]
  BY <1>1, <1>2, <1>3 DEF BuiltinBody
<1>5. /\ traps \in Seq([at : Nat, code : Nat])
      /\ \A i \in DOMAIN traps : traps[i].at < 4 /\ traps[i].code = code /\ 1 .. i - 1 = {}
  <2>1. CASE DebugAssertions
    <3>1. [at |-> 0, code |-> code] \in [at : Nat, code : Nat]
      OBVIOUS
    <3>2. traps = <<[at |-> 0, code |-> code]>>
      BY <1>3, <2>1
    <3> QED BY <3>1, <3>2
  <2>2. CASE ~DebugAssertions
    BY <1>3, <2>2
  <2> QED BY <2>1, <2>2
<1>6. fn \in [len : Nat \ {0}, align : Nat \ {0},
              names : Seq([namespace : {NS_WASM_FUNC, NS_BUILTIN}, index : Nat]),
              relocs : Seq([at : Nat, name : Nat]), traps : Seq([at : Nat, code : Nat])]
  <2> DEFINE N == [namespace : {NS_WASM_FUNC, NS_BUILTIN}, index : Nat]
             R == [at : Nat, name : Nat]
             T == [at : Nat, code : Nat]
  <2>1. <<>> \in Seq(N) /\ <<>> \in Seq(R) /\ traps \in Seq(T)
    BY <1>5
  <2> HIDE DEF N, R, T
  <2>2. fn \in [len : Nat \ {0}, align : Nat \ {0}, names : Seq(N), relocs : Seq(R), traps : Seq(T)]
    BY <1>4, <2>1
  <2> QED BY <2>2 DEF N, R, T
<1>7. fn.len = 4 /\ fn.names = <<>> /\ fn.relocs = <<>> /\ fn.traps = traps /\ DOMAIN <<>> = {}
  BY <1>4
<1>8. IsCompiled(m, fn)
  <2>1. \A i \in DOMAIN fn.traps :
          /\ fn.traps[i].at < fn.len
          /\ \E trap \in ToSet(UserTraps) \cup ToSet(ReservedTraps) : fn.traps[i].code = TrapCode(trap)
          /\ \A j \in 1 .. i - 1 : fn.traps[j].at < fn.traps[i].at
    BY <1>1, <1>5, <1>7
  <2> QED BY <1>6, <1>7, <2>1 DEF IsCompiled
<1> QED BY <1>2, <1>8

\* So is the trampoline of a defined function, which calls that function by its name.
LEMMA TrampolinesCompile ==
  ASSUME NEW m, IsModule(m), NEW d \in DOMAIN m.funcs
  PROVE  IsCompiled(m, TrampolineBody(FuncIndex(m, d - 1)))
<1>1. PICK code \in Nat : /\ code = TRAP_INTERNAL_ASSERT
                          /\ \E trap \in ToSet(UserTraps) \cup ToSet(ReservedTraps) : code = TrapCode(trap)
  BY AssertTrap
<1>2. PICK func : func = FuncIndex(m, d - 1)
  OBVIOUS
<1>3. PICK n \in Nat : n = Len(m.funcs) /\ DOMAIN m.funcs = 1 .. n
  BY LenProperties, SMTT(30) DEF IsModule
<1>4. func \in Nat /\ DefinedFuncIndex(m, func) \in 0 .. n - 1
  BY <1>2, <1>3 DEF FuncIndex, DefinedFuncIndex, IsModule
<1>5. PICK fn : fn = TrampolineBody(func)
  OBVIOUS
<1>6. PICK traps : traps = IF DebugAssertions
                           THEN <<[at |-> 0, code |-> code], [at |-> 1, code |-> code],
                                  [at |-> 3, code |-> code]>>
                           ELSE <<>>
  OBVIOUS
<1> DEFINE name == [namespace |-> NS_WASM_FUNC, index |-> func]
           reloc == [at |-> 2, name |-> 1]
<1>7. fn = [len |-> 4, align |-> 2, names |-> <<name>>, relocs |-> <<reloc>>, traps |-> traps]
  BY <1>1, <1>5, <1>6 DEF TrampolineBody
<1>8. /\ traps \in Seq([at : Nat, code : Nat])
      /\ \A i \in DOMAIN traps : /\ traps[i].at < 4 /\ traps[i].code = code
                                 /\ \A j \in 1 .. i - 1 : traps[j].at < traps[i].at
  <2>1. CASE DebugAssertions
    <3> DEFINE T == [at : Nat, code : Nat]
    <3>1. PICK t1, t2, t3 : t1 = [at |-> 0, code |-> code] /\ t2 = [at |-> 1, code |-> code]
                            /\ t3 = [at |-> 3, code |-> code]
      OBVIOUS
    <3>2. t1 \in T /\ t2 \in T /\ t3 \in T
      BY <3>1
    <3>3. t1.at = 0 /\ t2.at = 1 /\ t3.at = 3 /\ t1.code = code /\ t2.code = code /\ t3.code = code
      BY <3>1
    <3>4. traps = <<t1, t2, t3>>
      BY <1>6, <2>1, <3>1
    <3> HIDE DEF T
    <3>5. traps \in Seq(T) /\ DOMAIN traps = 1 .. 3 /\ traps[1] = t1 /\ traps[2] = t2 /\ traps[3] = t3
      BY <3>2, <3>4
    <3>6. \A i \in 1 .. 3 : i = 1 \/ i = 2 \/ i = 3
      OBVIOUS
    <3>7. \A i \in 1 .. 3 : \A j \in 1 .. i - 1 : (j = 1 /\ i = 2) \/ (j = 1 /\ i = 3) \/ (j = 2 /\ i = 3)
      OBVIOUS
    <3>8. \A i \in 1 .. 3 : traps[i].at < 4 /\ traps[i].code = code
      BY <3>3, <3>5, <3>6
    <3>9. \A i \in 1 .. 3 : \A j \in 1 .. i - 1 : traps[j].at < traps[i].at
      BY <3>3, <3>5, <3>7
    <3> QED BY <3>5, <3>8, <3>9 DEF T
  <2>2. CASE ~DebugAssertions
    BY <1>6, <2>2
  <2> QED BY <2>1, <2>2
<1> DEFINE N == [namespace : {NS_WASM_FUNC, NS_BUILTIN}, index : Nat]
           R == [at : Nat, name : Nat]
           T == [at : Nat, code : Nat]
<1>9. name \in N /\ reloc \in R /\ name.index = func /\ reloc.at = 2 /\ reloc.name = 1
  BY <1>4
<1>10. traps \in Seq(T)
  BY <1>8
<1> HIDE DEF name, reloc
<1>11. fn \in [len : Nat \ {0}, align : Nat \ {0}, names : Seq(N), relocs : Seq(R), traps : Seq(T)]
  <2> HIDE DEF N, R, T
  <2>1. <<name>> \in Seq(N) /\ <<reloc>> \in Seq(R)
    BY <1>9
  <2> QED BY <1>7, <1>10, <2>1
<1>12. fn.len = 4 /\ fn.names = <<name>> /\ fn.relocs = <<reloc>> /\ fn.traps = traps
  BY <1>7
<1>13. \A i \in DOMAIN fn.names : DefinedFuncIndex(m, fn.names[i].index) \in 0 .. Len(m.funcs) - 1
  BY <1>3, <1>4, <1>9, <1>12
<1>14. \A i \in DOMAIN fn.relocs : fn.relocs[i].at < fn.len /\ fn.relocs[i].name \in DOMAIN fn.names
  BY <1>9, <1>12
<1>15. \A i \in DOMAIN fn.traps :
         /\ fn.traps[i].at < fn.len
         /\ \E trap \in ToSet(UserTraps) \cup ToSet(ReservedTraps) : fn.traps[i].code = TrapCode(trap)
         /\ \A j \in 1 .. i - 1 : fn.traps[j].at < fn.traps[i].at
  BY <1>1, <1>8, <1>12
<1>16. IsCompiled(m, fn)
  BY <1>11, <1>13, <1>14, <1>15 DEF IsCompiled
<1> QED BY <1>2, <1>5, <1>16
=============================================================================
