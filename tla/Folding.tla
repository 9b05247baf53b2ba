------------------------------ MODULE Folding ------------------------------
(***************************************************************************)
(* What a left fold computes: the last of a run of accumulators, each of   *)
(* which is a step of the one before.  The step Op has a parameter, which  *)
(* stands for what the fold of a definition refers to besides its          *)
(* arguments.                                                              *)
(***************************************************************************)
EXTENDS Integers, Sequences

CONSTANT Op(_, _, _)

Largest(s) == CHOOSE x \in s : \A y \in s : x >= y

\* FoldLeft of SequencesExt, written out.
Fold(p, base, seq) ==
  LET iter[s \in SUBSET DOMAIN seq] ==
        IF s = {} THEN base
        ELSE Op(p, iter[s \ {Largest(s)}], seq[Largest(s)])
  IN iter[DOMAIN seq]

\* Induction over the naturals (SetInduction of module LinkLayout).
Inductive ==
  \A S : (0 \in S /\ \A n \in Nat : n \in S => n + 1 \in S) => Nat \subseteq S

\* The largest number of a set of 1 .. n + 1 that holds n + 1.
LEMMA LargestOf ==
  ASSUME NEW n \in Nat, NEW s \in SUBSET (1 .. n + 1), n + 1 \in s
  PROVE  Largest(s) = n + 1
<1>1. \A x \in s : (\A y \in s : x >= y) => x = n + 1
  OBVIOUS
<1>2. \A y \in s : n + 1 >= y
  OBVIOUS
<1> QED BY <1>1, <1>2 DEF Largest

\* A fold is the end of a run from its base, one step for each element.
LEMMA FoldRuns ==
  ASSUME Inductive, NEW p, NEW base, NEW T, NEW seq \in Seq(T)
  PROVE  \E acc : /\ acc = [i \in 0 .. Len(seq) |-> acc[i]]
                  /\ acc[0] = base
                  /\ \A i \in 1 .. Len(seq) : acc[i] = Op(p, acc[i - 1], seq[i])
                  /\ Fold(p, base, seq) = acc[Len(seq)]
<1> DEFINE Step(f, s) == IF s = {} THEN base ELSE Op(p, f[s \ {Largest(s)}], seq[Largest(s)])
           Iter(n, f) == f = [s \in SUBSET (1 .. n) |-> Step(f, s)]
           S == {n \in Nat : \E f : Iter(n, f)}
<1>1. 0 \in S
  <2> DEFINE f == [s \in SUBSET (1 .. 0) |-> base]
  <2>1. \A s \in SUBSET (1 .. 0) : s = {}
    OBVIOUS
  <2>2. Iter(0, f)
    BY <2>1
  <2> QED BY <2>2
<1>2. \A n \in Nat : n \in S => n + 1 \in S
  <2> SUFFICES ASSUME NEW n \in Nat, n \in S PROVE n + 1 \in S
    OBVIOUS
  <2>0. PICK f : Iter(n, f)
    OBVIOUS
  <2> DEFINE g == [s \in SUBSET (1 .. n + 1) |->
                     IF n + 1 \in s THEN Op(p, f[s \ {n + 1}], seq[n + 1]) ELSE f[s]]
  <2>1. \A s \in SUBSET (1 .. n) : g[s] = f[s] /\ s \in SUBSET (1 .. n + 1)
    OBVIOUS
  <2> HIDE DEF g
  <2>2. ASSUME NEW s \in SUBSET (1 .. n + 1) PROVE g[s] = Step(g, s)
    <3>1. CASE n + 1 \in s
      <4>1. Largest(s) = n + 1 /\ s # {}
        BY <3>1, LargestOf
      <4>2. s \ {n + 1} \in SUBSET (1 .. n)
        OBVIOUS
      <4>3. g[s \ {n + 1}] = f[s \ {n + 1}]
        BY <2>1, <4>2
      <4> QED BY <3>1, <4>1, <4>3 DEF g
    <3>2. CASE n + 1 \notin s
      <4>0. s \subseteq 1 .. n
        BY <3>2
      <4>1. s \in SUBSET (1 .. n) /\ s \ {Largest(s)} \in SUBSET (1 .. n)
        BY <4>0
      <4>2. f[s] = Step(f, s)
        BY <2>0, <4>1
      <4>3. g[s] = f[s] /\ g[s \ {Largest(s)}] = f[s \ {Largest(s)}]
        BY <2>1, <4>1
      <4> QED BY <4>2, <4>3
    <3> QED BY <3>1, <3>2
  <2>3. Iter(n + 1, g)
    BY <2>2 DEF g
  <2>4. n + 1 \in Nat
    OBVIOUS
  <2> HIDE DEF Iter
  <2> QED BY <2>3, <2>4
<1>3. Nat \subseteq S
  <2> HIDE DEF S
  <2> QED BY <1>1, <1>2 DEF Inductive
<1>4. Len(seq) \in Nat /\ DOMAIN seq = 1 .. Len(seq)
  OBVIOUS
<1> DEFINE iter == CHOOSE f : f = [s \in SUBSET DOMAIN seq |-> Step(f, s)]
<1>5. iter = [s \in SUBSET DOMAIN seq |-> Step(iter, s)]
  <2>1. \E f : f = [s \in SUBSET DOMAIN seq |-> Step(f, s)]
    BY <1>3, <1>4
  <2> QED BY <2>1
<1>6. Fold(p, base, seq) = iter[DOMAIN seq]
  BY DEF Fold
<1> HIDE DEF iter
<1> DEFINE acc == [i \in 0 .. Len(seq) |-> iter[1 .. i]]
<1>7. acc[0] = base
  <2>1. 1 .. 0 = {} /\ {} \in SUBSET DOMAIN seq
    OBVIOUS
  <2>2. iter[{}] = base
    BY <1>5, <2>1
  <2> QED BY <1>4, <2>1, <2>2
<1>8. ASSUME NEW i \in 1 .. Len(seq) PROVE acc[i] = Op(p, acc[i - 1], seq[i])
  <2>0. i - 1 \in Nat /\ i \in 1 .. i
    BY <1>4
  <2>1. 1 .. i \subseteq DOMAIN seq /\ 1 .. i # {}
    <3>1. 1 .. i \subseteq 1 .. Len(seq)
      BY <1>4
    <3> QED BY <1>4, <2>0, <3>1
  <2>2. Largest(1 .. i) = i
    <3>1. 1 .. i \in SUBSET (1 .. (i - 1) + 1) /\ (i - 1) + 1 = i
      BY <2>0
    <3> QED BY <2>0, <3>1, LargestOf
  <2>3. (1 .. i) \ {i} = 1 .. i - 1
    BY <2>0
  <2>4. iter[1 .. i] = Op(p, iter[1 .. i - 1], seq[i])
    BY <1>5, <2>1, <2>2, <2>3
  <2> QED BY <1>4, <2>0, <2>4
<1>9. Fold(p, base, seq) = acc[Len(seq)]
  BY <1>4, <1>6
<1> QED BY <1>7, <1>8, <1>9
=============================================================================
