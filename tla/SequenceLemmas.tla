--------------------------- MODULE SequenceLemmas ---------------------------
(***************************************************************************)
(* What the proofs of several modules need of natural numbers and          *)
(* sequences: a least element, the values a loop over a sequence takes on, *)
(* and a fact that passes from each sequence to the ones longer by one.    *)
(***************************************************************************)
EXTENDS Integers, Sequences, SequenceTheorems, WellFoundedInduction, TLAPS

\* Every set of natural numbers has a smallest one.
LEMMA SmallestOf ==
  ASSUME NEW T \in SUBSET Nat, T # {}
  PROVE  \E x \in T : \A y \in T : x <= y
<1>1. PICK x \in T : \A y \in T : ~ (<<y, x>> \in OpToRel(<, Nat))
    BY WFMin, NatLessThanWellFounded
<1>2. ASSUME NEW y \in T PROVE x <= y
  <2>1. x \in Nat /\ y \in Nat
      OBVIOUS
  <2>2. ~ (y < x)
      BY <1>1, <2>1 DEF OpToRel
  <2>3. QED
      BY <2>1, <2>2
<1>3. QED
    BY <1>2

\* A loop over s that takes a value on: f[n] is the value after n rounds.
IsLoop(f, s, X, b, step) ==
  /\ f \in [0..Len(s) -> X] /\ f[0] = b
  /\ \A n \in 1..Len(s) : f[n] = step[f[n - 1], s[n]]

LEMMA LoopHasValues ==
  ASSUME NEW X, NEW E, NEW s, s \in Seq(E), NEW b, b \in X, NEW step, step \in [X \X E -> X]
  PROVE  \E f : IsLoop(f, s, X, b, step)
<1> DEFINE Upto(f, m) == /\ f \in [0..m -> X] /\ f[0] = b
                         /\ \A n \in 1..m : f[n] = step[f[n - 1], s[n]]
           T == {m \in Nat : m <= Len(s) /\ ~ \E f : Upto(f, m)}
<1>1. Len(s) \in Nat /\ \A n \in 1..Len(s) : s[n] \in E
    OBVIOUS
<1>2. \E f : Upto(f, 0)
  <2>1. Upto([i \in {0} |-> b], 0)
    <3>1. 0..0 = {0} /\ 1..0 = {}
        OBVIOUS
    <3>2. QED
        BY <3>1
  <2> HIDE DEF Upto
  <2>2. QED
      BY <2>1
<1>3. ASSUME NEW m \in Nat, m # 0, m <= Len(s), NEW f, Upto(f, m - 1) PROVE \E g : Upto(g, m)
  <2> HIDE DEF Upto
  <2> DEFINE v == step[f[m - 1], s[m]]
             g == [i \in 0..m |-> IF i = m THEN v ELSE f[i]]
  <2>1. /\ 0 \in 0..m /\ m - 1 \in 0..(m - 1) /\ m \in 1..Len(s)
        /\ \A i \in 0..m : i # m => i \in 0..(m - 1)
        /\ \A n \in 1..m : n \in 0..m /\ n - 1 \in 0..m /\ n - 1 # m /\ (n # m => n \in 1..(m - 1))
      BY <1>1, <1>3
  <2>2. /\ f \in [0..(m - 1) -> X] /\ f[0] = b
        /\ \A n \in 1..(m - 1) : f[n] = step[f[n - 1], s[n]]
      BY <1>3 DEF Upto
  <2>3. v \in X
    <3>1. f[m - 1] \in X /\ s[m] \in E
        BY <1>1, <2>1, <2>2
    <3>2. QED
        BY <3>1
  <2>4. \A i \in 0..m : g[i] = IF i = m THEN v ELSE f[i]
      OBVIOUS
  <2>5. g \in [0..m -> X]
    <3> HIDE DEF v
    <3> QED
        BY <2>1, <2>2, <2>3
  <2>6. g[0] = b
    <3> HIDE DEF g
    <3> QED
        BY <1>3, <2>1, <2>2, <2>4
  <2>7. ASSUME NEW n \in 1..m PROVE g[n] = step[g[n - 1], s[n]]
    <3> HIDE DEF g
    <3>1. g[n - 1] = f[n - 1]
        BY <2>1, <2>4
    <3>2. CASE n = m
        BY <2>1, <2>4, <3>1, <3>2
    <3>3. CASE n # m
        BY <2>1, <2>2, <2>4, <3>1, <3>3
    <3>4. QED
        BY <3>2, <3>3
  <2>8. Upto(g, m)
    <3> HIDE DEF g
    <3> QED
        BY <2>5, <2>6, <2>7 DEF Upto
  <2> HIDE DEF g
  <2>9. QED
      BY <2>8
<1>4. T = {}
  <2> HIDE DEF Upto
  <2>1. SUFFICES ASSUME T # {} PROVE FALSE
      OBVIOUS
  <2>2. PICK m \in T : \A y \in T : m <= y
    <3>1. T \in SUBSET Nat
        OBVIOUS
    <3> HIDE DEF T
    <3> QED
        BY <2>1, <3>1, SmallestOf
  <2>3. m \in Nat /\ m # 0 /\ m <= Len(s)
      BY <1>2
  <2>4. m - 1 \in Nat /\ m - 1 <= Len(s) /\ ~ (m <= m - 1)
      BY <1>1, <2>3
  <2>5. PICK f : Upto(f, m - 1)
      BY <2>2, <2>4
  <2>6. \E g : Upto(g, m)
      BY <1>3, <2>3, <2>5
  <2>7. QED
      BY <2>6
<1>5. \E f : Upto(f, Len(s))
  <2> HIDE DEF Upto
  <2> QED
      BY <1>1, <1>4
<1>6. QED
    BY <1>5 DEF IsLoop

\* Two loops that begin alike and go on alike have the same values.
LEMMA LoopsAgree ==
  ASSUME NEW f, NEW g, NEW m \in Nat, f[0] = g[0],
         \A n \in 1..m : f[n - 1] = g[n - 1] => f[n] = g[n]
  PROVE  \A n \in 0..m : f[n] = g[n]
<1> DEFINE T == {n \in 0..m : f[n] # g[n]}
<1>1. SUFFICES ASSUME T # {} PROVE FALSE
    OBVIOUS
<1>2. PICK n \in T : \A y \in T : n <= y
  <2>1. T \in SUBSET Nat
      OBVIOUS
  <2> HIDE DEF T
  <2> QED
      BY <1>1, <2>1, SmallestOf
<1>3. n \in 1..m /\ n - 1 \in 0..m /\ ~ (n <= n - 1)
  <2>1. n \in 0..m /\ n # 0
      OBVIOUS
  <2> HIDE DEF T
  <2>2. QED
      BY <2>1
<1>4. f[n - 1] = g[n - 1]
    BY <1>2, <1>3
<1>5. QED
    BY <1>3, <1>4

\* A set of sequences that holds the empty one and with each its longer ones by one.
LEMMA SequencesByAppend ==
  ASSUME NEW E, NEW G, <<>> \in G, \A s \in Seq(E), e \in E : s \in G => Append(s, e) \in G
  PROVE  Seq(E) \subseteq G
<1> DEFINE T == {n \in Nat : \E s \in Seq(E) : Len(s) = n /\ s \notin G}
<1>1. SUFFICES ASSUME NEW r \in Seq(E), r \notin G PROVE FALSE
    OBVIOUS
<1>2. Len(r) \in T /\ T \in SUBSET Nat
  <2>1. Len(r) \in Nat
      OBVIOUS
  <2>2. QED
      BY <1>1, <2>1
<1>3. PICK n \in T : \A y \in T : n <= y
  <2> HIDE DEF T
  <2> QED
      BY <1>2, SmallestOf
<1>4. PICK s \in Seq(E) : Len(s) = n /\ s \notin G
    OBVIOUS
<1>5. PICK h \in Seq(E), e \in E : s = Append(h, e)
    BY <1>4, SequenceEmptyOrAppend
<1>6. Len(h) \in Nat /\ n = Len(h) + 1
    BY <1>4, <1>5, AppendProperties
<1>7. Len(h) \in T
    BY <1>4, <1>5, <1>6
<1>8. n <= Len(h)
    BY <1>3, <1>7
<1>9. QED
    BY <1>6, <1>8
=============================================================================
