---------------------------- MODULE IngestProofs ----------------------------
(***************************************************************************)
(* Proofs about what core does around the telemetry it takes in.  The      *)
(* event throttler, for any agents and signatures, any cap, ceiling and    *)
(* number of violations: its lists match its windows, every window will be *)
(* closed, no occurrence is lost or told twice, and a burst costs the sink *)
(* two rows a window.  The reload of the registries, for any configuration *)
(* and any edits.  The verdict, row and envelope of one message, for any   *)
(* schema, payload and time.                                               *)
(***************************************************************************)
EXTENDS EventThrottle, ConfigReload, TelemetryContract, FiniteSetTheorems, SequenceTheorems, TLAPS

-----------------------------------------------------------------------------
(* Lists without repetition *)

Distinct(q) == \A i, j \in DOMAIN q : q[i] = q[j] => i = j

\* An element that is moved to the front is taken out of its place first.
LEMMA WithoutProps ==
  ASSUME NEW S, NEW q \in Seq(S), Distinct(q), NEW s \in SeqRange(q)
  PROVE  /\ Without(q, s) \in Seq(S) /\ Len(Without(q, s)) = Len(q) - 1
         /\ Distinct(Without(q, s)) /\ SeqRange(Without(q, s)) = SeqRange(q) \ {s}
<1> DEFINE at == CHOOSE i \in DOMAIN q : q[i] = s
           n == Len(q)
           front == SubSeq(q, 1, at - 1)
           back == SubSeq(q, at + 1, n)
           w == front \o back
<1>1. Without(q, s) = w
  BY DEF Without
<1>2. at \in DOMAIN q /\ q[at] = s
  BY DEF SeqRange
<1>3. n \in Nat /\ DOMAIN q = 1..n /\ \A i \in 1..n : q[i] \in S
  BY LenProperties
<1> HIDE DEF at, n
<1>4. at \in 1..n
  BY <1>2, <1>3
<1>5. /\ front \in Seq(S) /\ Len(front) = at - 1
      /\ \A i \in 1..at - 1 : front[i] = q[i]
  <2>1. \A i \in 1..at - 1 : q[i] \in S
    BY <1>3, <1>4
  <2>2. /\ front \in Seq(S) /\ Len(front) = IF 1 <= at - 1 THEN (at - 1) - 1 + 1 ELSE 0
        /\ \A i \in 1..(at - 1) - 1 + 1 : front[i] = q[1 + i - 1]
    BY <1>4, <2>1, SubSeqProperties
  <2>3. Len(front) = at - 1
    BY <1>4, <2>2
  <2>4. ASSUME NEW i \in 1..at - 1 PROVE front[i] = q[i]
    <3>1. i \in 1..(at - 1) - 1 + 1 /\ 1 + i - 1 = i
      BY <1>4
    <3>2. QED
      BY <2>2, <3>1
  <2>5. QED
    BY <2>2, <2>3, <2>4
<1>6. /\ back \in Seq(S) /\ Len(back) = n - at
      /\ \A i \in 1..n - at : back[i] = q[at + i]
  <2>1. \A i \in at + 1..n : q[i] \in S
    BY <1>3, <1>4
  <2>2. /\ back \in Seq(S) /\ Len(back) = IF at + 1 <= n THEN n - (at + 1) + 1 ELSE 0
        /\ \A i \in 1..n - (at + 1) + 1 : back[i] = q[(at + 1) + i - 1]
    BY <1>3, <1>4, <2>1, SubSeqProperties
  <2>3. Len(back) = n - at
    BY <1>3, <1>4, <2>2
  <2>4. ASSUME NEW i \in 1..n - at PROVE back[i] = q[at + i]
    <3>1. i \in 1..n - (at + 1) + 1 /\ (at + 1) + i - 1 = at + i
      BY <1>3, <1>4
    <3>2. QED
      BY <2>2, <3>1
  <2>5. QED
    BY <2>2, <2>3, <2>4
<1>7. /\ w \in Seq(S) /\ Len(w) = n - 1 /\ DOMAIN w = 1..n - 1
      /\ \A i \in 1..n - 1 : w[i] = IF i < at THEN q[i] ELSE q[i + 1]
  <2> HIDE DEF front, back
  <2>1. /\ w \in Seq(S) /\ Len(w) = (at - 1) + (n - at)
        /\ \A i \in 1..(at - 1) + (n - at) : w[i] = IF i <= at - 1 THEN front[i] ELSE back[i - (at - 1)]
    <3>1. /\ w \in Seq(S) /\ Len(w) = Len(front) + Len(back)
          /\ \A i \in 1..Len(front) + Len(back) : w[i] = IF i <= Len(front) THEN front[i] ELSE back[i - Len(front)]
      BY <1>5, <1>6, ConcatProperties
    <3> HIDE DEF w
    <3>2. QED
      BY <1>5, <1>6, <3>1
  <2>2. Len(w) = n - 1 /\ DOMAIN w = 1..n - 1
    BY <1>3, <1>4, <2>1, LenProperties
  <2>3. ASSUME NEW i \in 1..n - 1, i < at PROVE w[i] = q[i]
    <3>1. i \in 1..at - 1 /\ i \in 1..(at - 1) + (n - at) /\ i <= at - 1
      BY <1>3, <1>4, <2>3
    <3>2. QED
      BY <1>5, <2>1, <3>1
  <2>4. ASSUME NEW i \in 1..n - 1, ~(i < at) PROVE w[i] = q[i + 1]
    <3>1. /\ i - (at - 1) \in 1..n - at /\ i \in 1..(at - 1) + (n - at) /\ ~(i <= at - 1)
          /\ at + (i - (at - 1)) = i + 1
      BY <1>3, <1>4, <2>4
    <3>2. QED
      BY <1>6, <2>1, <3>1
  <2>5. QED
    BY <2>1, <2>2, <2>3, <2>4
<1> HIDE DEF w, front, back
<1> DEFINE place(i) == IF i < at THEN i ELSE i + 1
<1>8. \A i \in 1..n - 1 : place(i) \in 1..n /\ w[i] = q[place(i)] /\ place(i) # at
  BY <1>3, <1>4, <1>7
<1>9. \A i, j \in 1..n - 1 : place(i) = place(j) => i = j
  BY <1>3, <1>4
<1>10. \A i \in 1..n : i # at => \E j \in 1..n - 1 : place(j) = i
  <2> SUFFICES ASSUME NEW i \in 1..n, i # at PROVE \E j \in 1..n - 1 : place(j) = i
    OBVIOUS
  <2>1. CASE i < at
    BY <1>3, <1>4, <2>1
  <2>2. CASE i > at
    <3>1. i - 1 \in 1..n - 1 /\ place(i - 1) = i
      BY <1>3, <1>4, <2>2
    <3>2. QED
      BY <3>1
  <2>3. QED
    BY <1>3, <1>4, <2>1, <2>2
<1> HIDE DEF place
<1>11. Distinct(w)
  BY <1>3, <1>7, <1>8, <1>9 DEF Distinct
<1>12. SeqRange(w) \subseteq SeqRange(q) \ {s}
  BY <1>2, <1>3, <1>7, <1>8 DEF Distinct, SeqRange
<1>13. SeqRange(q) \ {s} \subseteq SeqRange(w)
  <2> SUFFICES ASSUME NEW i \in 1..n, q[i] # s PROVE q[i] \in SeqRange(w)
    BY <1>3 DEF SeqRange
  <2>1. PICK j \in 1..n - 1 : place(j) = i
    BY <1>2, <1>10
  <2>2. QED
    BY <1>7, <1>8, <2>1 DEF SeqRange
<1>14. QED
  BY <1>1, <1>7, <1>11, <1>12, <1>13 DEF n

LEMMA FrontProps ==
  ASSUME NEW S, NEW q \in Seq(S), Distinct(q), NEW s \in S, s \notin SeqRange(q)
  PROVE  /\ <<s>> \o q \in Seq(S) /\ Len(<<s>> \o q) = Len(q) + 1
         /\ Distinct(<<s>> \o q) /\ SeqRange(<<s>> \o q) = SeqRange(q) \cup {s}
<1> DEFINE n == Len(q)
           w == <<s>> \o q
<1>1. n \in Nat /\ DOMAIN q = 1..n
  BY LenProperties
<1>2. <<s>> \in Seq(S) /\ Len(<<s>>) = 1 /\ <<s>>[1] = s
  OBVIOUS
<1>3. /\ w \in Seq(S) /\ Len(w) = 1 + n
      /\ \A i \in 1..1 + n : w[i] = IF i <= 1 THEN <<s>>[i] ELSE q[i - 1]
  BY <1>2, ConcatProperties
<1> HIDE DEF w
<1>4. DOMAIN w = 1..n + 1 /\ Len(w) = n + 1
  BY <1>1, <1>3, LenProperties
<1> HIDE DEF n
<1>5. w[1] = s /\ 1 \in 1..n + 1
  BY <1>1, <1>2, <1>3
<1>6. \A i \in 2..n + 1 : i - 1 \in 1..n /\ w[i] = q[i - 1]
  BY <1>1, <1>3
<1>7. \A i \in 1..n : i + 1 \in 2..n + 1 /\ i + 1 \in 1..n + 1 /\ (i + 1) - 1 = i /\ w[i + 1] = q[i]
  BY <1>1, <1>3
<1>8. \A i \in 1..n + 1 : i = 1 \/ i \in 2..n + 1
  BY <1>1
<1>9. SeqRange(w) = SeqRange(q) \cup {s}
  <2>1. SeqRange(w) \subseteq SeqRange(q) \cup {s}
    BY <1>1, <1>4, <1>5, <1>6, <1>8 DEF SeqRange
  <2>2. SeqRange(q) \subseteq SeqRange(w) /\ s \in SeqRange(w)
    BY <1>1, <1>4, <1>5, <1>7 DEF SeqRange
  <2>3. QED
    BY <2>1, <2>2
<1>10. ASSUME NEW i \in 1..n + 1, NEW j \in 1..n + 1, w[i] = w[j] PROVE i = j
  <2>1. CASE i \in 2..n + 1 /\ j \in 2..n + 1
    <3>1. i - 1 = j - 1
      BY <1>1, <1>6, <1>10, <2>1 DEF Distinct
    <3>2. QED
      BY <1>1, <3>1
  <2>2. \A h \in 2..n + 1 : w[h] \in SeqRange(q)
    BY <1>1, <1>6 DEF SeqRange
  <2>3. QED
    BY <1>5, <1>8, <1>10, <2>1, <2>2
<1>11. QED
  BY <1>3, <1>4, <1>9, <1>10 DEF w, n, Distinct

LEMMA DropLastProps ==
  ASSUME NEW S, NEW q \in Seq(S), Distinct(q), NEW n \in Nat \ {0}, Len(q) = n
  PROVE  /\ SubSeq(q, 1, n - 1) \in Seq(S) /\ Len(SubSeq(q, 1, n - 1)) = n - 1
         /\ Distinct(SubSeq(q, 1, n - 1)) /\ q[n] \in SeqRange(q)
         /\ SeqRange(SubSeq(q, 1, n - 1)) = SeqRange(q) \ {q[n]}
<1> DEFINE w == SubSeq(q, 1, n - 1)
<1>1. DOMAIN q = 1..n /\ \A i \in 1..n : q[i] \in S
  BY LenProperties
<1>2. /\ w \in Seq(S) /\ Len(w) = IF 1 <= n - 1 THEN (n - 1) - 1 + 1 ELSE 0
      /\ \A i \in 1..(n - 1) - 1 + 1 : w[i] = q[1 + i - 1]
  BY <1>1, SubSeqProperties
<1>3. Len(w) = n - 1 /\ DOMAIN w = 1..n - 1
  BY <1>2, LenProperties
<1>4. ASSUME NEW i \in 1..n - 1 PROVE w[i] = q[i] /\ i \in 1..n /\ i # n
  <2>1. i \in 1..(n - 1) - 1 + 1 /\ 1 + i - 1 = i /\ i \in 1..n /\ i # n
    OBVIOUS
  <2>2. QED
    BY <1>2, <2>1
<1>5. \A i \in 1..n : i = n \/ i \in 1..n - 1
  OBVIOUS
<1>6. n \in 1..n
  OBVIOUS
<1> HIDE DEF w
<1>7. Distinct(w)
  BY <1>1, <1>3, <1>4 DEF Distinct
<1>8. SeqRange(w) = SeqRange(q) \ {q[n]} /\ q[n] \in SeqRange(q)
  BY <1>1, <1>3, <1>4, <1>5, <1>6 DEF Distinct, SeqRange
<1>9. QED
  BY <1>2, <1>3, <1>7, <1>8 DEF w

LEMMA DistinctCardinality ==
  ASSUME NEW S, NEW q \in Seq(S), Distinct(q)
  PROVE  Cardinality(SeqRange(q)) = Len(q)
<1>1. Len(q) \in Nat /\ DOMAIN q = 1..Len(q) /\ q \in [1..Len(q) -> S]
  BY LenProperties
<1>2. IsFiniteSet(1..Len(q)) /\ Cardinality(1..Len(q)) = Len(q)
  BY <1>1, FS_Interval
<1>3. q \in Bijection(1..Len(q), SeqRange(q))
  <2>1. q \in [1..Len(q) -> SeqRange(q)]
    BY <1>1 DEF SeqRange
  <2>2. \A e \in SeqRange(q) : \E i \in 1..Len(q) : q[i] = e
    BY <1>1 DEF SeqRange
  <2>3. \A i, j \in 1..Len(q) : q[i] = q[j] => i = j
    BY <1>1 DEF Distinct
  <2>4. QED
    BY <1>1, <2>1, <2>2, <2>3 DEF Bijection, Injection, Surjection, IsInjective
<1>4. QED
  BY <1>2, <1>3, FS_Bijection DEF ExistsBijection
-----------------------------------------------------------------------------
(* Sets of rows and the occurrences they tell *)

KeyRows(set, k) == {event \in set : event.key = k}
Finite(set) == IsFiniteSet(set) /\ IsFiniteSet(Tells(set))

LEMMA NoRows == Finite({}) /\ Cardinality({}) = 0 /\ Cardinality(Tells({})) = 0
  BY FS_EmptySet DEF Finite, Tells

LEMMA RowsCount ==
  ASSUME NEW set, Finite(set)
  PROVE  Cardinality(set) \in Nat /\ Cardinality(Tells(set)) \in Nat
  BY FS_CardinalityType DEF Finite

LEMMA SubsetFinite ==
  ASSUME NEW set, Finite(set), NEW part \in SUBSET set
  PROVE  Finite(part)
<1>1. Tells(part) \subseteq Tells(set)
  BY DEF Tells
<1>2. QED
  BY <1>1, FS_Subset DEF Finite

LEMMA AddRow ==
  ASSUME NEW set, Finite(set), NEW r \in EventRow, r \notin set
  PROVE  /\ Finite(set \cup {r})
         /\ Cardinality(set \cup {r}) = Cardinality(set) + 1
         /\ Cardinality(Tells(set \cup {r})) = Cardinality(Tells(set)) + r.fresh
<1> DEFINE own == {r} \X (1..r.fresh)
<1>1. r.fresh \in Nat
  BY DEF EventRow, Positive
<1>2. IsFiniteSet(own) /\ Cardinality(own) = r.fresh
  <2>1. IsFiniteSet({r}) /\ Cardinality({r}) = 1
    BY FS_Singleton
  <2>2. IsFiniteSet(1..r.fresh) /\ Cardinality(1..r.fresh) = r.fresh
    BY <1>1, FS_Interval
  <2>3. IsFiniteSet(own) /\ Cardinality(own) = 1 * r.fresh
    <3> DEFINE one == {r}
               all == 1..r.fresh
    <3>1. /\ IsFiniteSet(one) /\ Cardinality(one) = 1
          /\ IsFiniteSet(all) /\ Cardinality(all) = r.fresh
      BY <2>1, <2>2
    <3> HIDE DEF one, all
    <3>2. IsFiniteSet(one \X all) /\ Cardinality(one \X all) = Cardinality(one) * Cardinality(all)
      BY <3>1, FS_Product, Zenon
    <3>3. QED
      BY <3>1, <3>2 DEF one, all
  <2>4. QED
    BY <1>1, <2>3
<1>3. Tells(set \cup {r}) = Tells(set) \cup own
  BY DEF Tells
<1>4. Tells(set) \cap own = {}
  BY DEF Tells
<1> HIDE DEF own
<1>5. /\ IsFiniteSet(Tells(set) \cup own)
      /\ Cardinality(Tells(set) \cup own) = Cardinality(Tells(set)) + Cardinality(own) - Cardinality({})
  BY <1>2, <1>4, FS_Union DEF Finite
<1>6. Cardinality(Tells(set)) + r.fresh - 0 = Cardinality(Tells(set)) + r.fresh
  BY <1>1, RowsCount
<1>7. Cardinality(Tells(set \cup {r})) = Cardinality(Tells(set)) + r.fresh
  BY <1>2, <1>3, <1>5, <1>6, FS_EmptySet
<1>8. IsFiniteSet(set \cup {r}) /\ Cardinality(set \cup {r}) = Cardinality(set) + 1
  BY FS_AddElement DEF Finite
<1>9. QED
  BY <1>3, <1>5, <1>7, <1>8 DEF Finite

LEMMA RemoveRow ==
  ASSUME NEW set, Finite(set), NEW r \in EventRow, r \in set
  PROVE  /\ Finite(set \ {r})
         /\ Cardinality(set) = Cardinality(set \ {r}) + 1
         /\ Cardinality(Tells(set)) = Cardinality(Tells(set \ {r})) + r.fresh
<1>1. Finite(set \ {r}) /\ r \notin set \ {r} /\ (set \ {r}) \cup {r} = set
  BY SubsetFinite
<1>2. QED
  BY <1>1, AddRow
-----------------------------------------------------------------------------
(* The inductive invariant *)

ThrottleTypes == ThrottleTypeOK /\ Finite(closers)

\* An agent's list holds the signatures of its open windows, each once, at most the cap.
ListsInv ==
  \A a \in Agents :
    /\ Distinct(lru[a]) /\ Len(lru[a]) <= PerAgentCap
    /\ \A s \in Signatures : <<a, s>> \in DOMAIN win <=> s \in SeqRange(lru[a])

\* Windows of a key are numbered as they open, and only the last may be open: so no two
\* summaries are of the same window, and a closing window's is new.
IdInv ==
  /\ \A k \in DOMAIN win : win[k].id = opened[k]
  /\ \A r, q \in closers : r.key = q.key /\ r.id = q.id => r = q
  /\ \A r \in closers : r.id <= opened[r.key] /\ (r.key \in DOMAIN win => r.id < opened[r.key])

\* What is told of a key, what is still to be told, and the rows that will tell it.
Out(k) == told[k] + lost[k]
Within(k) == InFlight(k) + Counted(k)
RowAt(i, k) == IF i \in DOMAIN rec /\ rec[i].key = k THEN 1 ELSE 0
IsOpen(k) == IF k \in DOMAIN win THEN 1 ELSE 0
Coming(k) == RowAt(1, k) + RowAt(2, k) + Cardinality(ClosersOf(k)) + IsOpen(k)

KeyInv ==
  \A k \in Keys : recorded[k] = Out(k) + Within(k) /\ rows[k] + Coming(k) <= 2 * opened[k]

ThrottleInv == ThrottleTypes /\ ListsInv /\ EveryWindowWillClose /\ IdInv /\ KeyInv

-----------------------------------------------------------------------------
(* What the invariant says of one key *)

LEMMA WindowTypes ==
  ASSUME ThrottleTypes, NEW k \in DOMAIN win
  PROVE  /\ k \in Keys /\ win[k].id \in Nat \ {0} /\ win[k].count \in Nat \ {0}
         /\ win[k] \in [id : Positive, count : Positive]
<1>1. win \in [DOMAIN win -> [id : Positive, count : Positive]] /\ k \in Keys
  BY DEF ThrottleTypes, ThrottleTypeOK
<1>2. win[k] \in [id : Positive, count : Positive]
  BY <1>1
<1>3. QED
  BY <1>1, <1>2 DEF Positive

LEMMA KeyNaturals ==
  ASSUME ThrottleTypes, NEW k \in Keys
  PROVE  /\ recorded[k] \in Nat /\ opened[k] \in Nat /\ rows[k] \in Nat
         /\ told[k] \in Nat /\ lost[k] \in Nat
         /\ FreshAt(1, k) \in Nat /\ FreshAt(2, k) \in Nat
         /\ Cardinality(Tells(ClosersOf(k))) \in Nat /\ Counted(k) \in Nat
         /\ RowAt(1, k) \in Nat /\ RowAt(2, k) \in Nat
         /\ Cardinality(ClosersOf(k)) \in Nat /\ IsOpen(k) \in Nat
         /\ Out(k) \in Nat /\ InFlight(k) \in Nat /\ Within(k) \in Nat /\ Coming(k) \in Nat
<1>1. recorded[k] \in Nat /\ opened[k] \in Nat /\ rows[k] \in Nat /\ told[k] \in Nat /\ lost[k] \in Nat
  BY DEF ThrottleTypes, ThrottleTypeOK
<1>2. \A i \in DOMAIN rec : rec[i].fresh \in Nat
  <2>1. \A i \in DOMAIN rec : rec[i] \in EventRow
    BY LenProperties DEF ThrottleTypes, ThrottleTypeOK
  <2>2. QED
    BY <2>1 DEF EventRow, Positive
<1>3. FreshAt(1, k) \in Nat /\ FreshAt(2, k) \in Nat
  BY <1>2 DEF FreshAt
<1>4. Cardinality(Tells(ClosersOf(k))) \in Nat /\ Cardinality(ClosersOf(k)) \in Nat
  <2>1. ClosersOf(k) \subseteq closers
    BY DEF ClosersOf
  <2>2. Finite(ClosersOf(k))
    BY <2>1, SubsetFinite DEF ThrottleTypes
  <2>3. QED
    BY <2>2, RowsCount
<1>5. Counted(k) \in Nat
  <2>1. CASE k \in DOMAIN win
    <3>1. win[k].count - 1 \in Nat
      BY <2>1, WindowTypes
    <3>2. QED
      BY <2>1, <3>1 DEF Counted
  <2>2. CASE k \notin DOMAIN win
    BY <2>2 DEF Counted
  <2>3. QED
    BY <2>1, <2>2
<1>6. RowAt(1, k) \in Nat /\ RowAt(2, k) \in Nat /\ IsOpen(k) \in Nat
  BY DEF RowAt, IsOpen
<1>7. Out(k) \in Nat /\ InFlight(k) \in Nat
  BY <1>1, <1>3, <1>4 DEF Out, InFlight
<1>8. Within(k) \in Nat /\ Coming(k) \in Nat
  BY <1>4, <1>5, <1>6, <1>7 DEF Within, Coming
<1>9. QED
  BY <1>1, <1>3, <1>4, <1>5, <1>6, <1>7, <1>8

BooksTyped ==
  \A k \in Keys : /\ recorded[k] \in Nat /\ opened[k] \in Nat /\ rows[k] \in Nat
                  /\ Out(k) \in Nat /\ Within(k) \in Nat /\ Coming(k) \in Nat

LEMMA BooksTypedNow == ThrottleTypes => BooksTyped
  BY KeyNaturals DEF BooksTyped

LEMMA BooksTypedNext == (ThrottleTypes => BooksTyped)'
  BY BooksTypedNow, PTL

LEMMA BooksCounted == (ThrottleTypes => \A k \in Keys : Cardinality(ClosersOf(k)) \in Nat)'
<1>1. ThrottleTypes => \A k \in Keys : Cardinality(ClosersOf(k)) \in Nat
  BY KeyNaturals
<1>2. QED
  BY <1>1, PTL

\* The books of a key stay balanced when what is recorded comes in, what is emitted goes
\* out, and a window that opens brings at most two rows.
LEMMA Balance ==
  ASSUME ThrottleTypes, ThrottleTypes', NEW k \in Keys, KeyInv,
         NEW new \in Nat, NEW gone \in Nat,
         recorded'[k] = recorded[k] + new,
         Out(k)' = Out(k) + gone, Within(k)' + gone = Within(k) + new
  PROVE  recorded'[k] = Out(k)' + Within(k)'
<1>1. PICK r \in Nat, o \in Nat, w \in Nat, o2 \in Nat, w2 \in Nat :
        r = recorded[k] /\ o = Out(k) /\ w = Within(k) /\ o2 = Out(k)' /\ w2 = Within(k)'
  BY BooksTypedNow, BooksTypedNext DEF BooksTyped
<1>2. r = o + w /\ o2 = o + gone /\ w2 + gone = w + new
  BY <1>1 DEF KeyInv
<1>3. r + new = o2 + w2
  BY <1>2
<1>4. QED
  BY <1>1, <1>3

LEMMA RowsBalance ==
  ASSUME ThrottleTypes, ThrottleTypes', NEW k \in Keys, KeyInv,
         NEW out \in Nat, NEW opens \in Nat,
         rows'[k] <= rows[k] + out, opened'[k] = opened[k] + opens,
         Coming(k)' + out <= Coming(k) + 2 * opens
  PROVE  rows'[k] + Coming(k)' <= 2 * opened'[k]
<1>1. PICK r \in Nat, c \in Nat, o \in Nat, r2 \in Nat, c2 \in Nat :
        r = rows[k] /\ c = Coming(k) /\ o = opened[k] /\ r2 = rows'[k] /\ c2 = Coming(k)'
  BY BooksTypedNow, BooksTypedNext DEF BooksTyped
<1>2. r + c <= 2 * o /\ r2 <= r + out /\ c2 + out <= c + 2 * opens
  BY <1>1 DEF KeyInv
<1>3. r2 + c2 <= 2 * (o + opens)
  BY <1>2
<1>4. QED
  BY <1>1, <1>3

\* Keys that a step does not concern keep their books.
LEMMA Untouched ==
  ASSUME ThrottleTypes, ThrottleTypes', KeyInv, NEW k \in Keys,
         recorded'[k] = recorded[k], told'[k] = told[k], lost'[k] = lost[k], rows'[k] = rows[k],
         opened'[k] = opened[k],
         k \in DOMAIN win' <=> k \in DOMAIN win,
         k \in DOMAIN win => win'[k] = win[k],
         ClosersOf(k)' = ClosersOf(k),
         FreshAt(1, k)' = FreshAt(1, k), FreshAt(2, k)' = FreshAt(2, k),
         RowAt(1, k)' = RowAt(1, k), RowAt(2, k)' = RowAt(2, k)
  PROVE  recorded'[k] = Out(k)' + Within(k)' /\ rows'[k] + Coming(k)' <= 2 * opened'[k]
<1>1. Out(k)' = Out(k)
  BY DEF Out
<1>2. Counted(k)' = Counted(k)
  BY DEF Counted
<1>3. InFlight(k)' = InFlight(k)
  BY DEF InFlight
<1>4. Within(k)' = Within(k)
  BY <1>2, <1>3 DEF Within
<1>5. Coming(k)' = Coming(k)
  BY DEF Coming, IsOpen
<1>6. QED
  BY <1>1, <1>4, <1>5 DEF KeyInv
-----------------------------------------------------------------------------
(* The list of one agent moves *)

LEMMA ListMoves ==
  ASSUME ThrottleTypes, ListsInv, NEW a \in Agents, NEW q \in Seq(Signatures),
         lru' = [lru EXCEPT ![a] = q], Distinct(q), Len(q) <= PerAgentCap,
         \A s \in Signatures : <<a, s>> \in DOMAIN win' <=> s \in SeqRange(q),
         \A b \in Agents, s \in Signatures :
           b # a => (<<b, s>> \in DOMAIN win' <=> <<b, s>> \in DOMAIN win)
  PROVE  ListsInv' /\ lru' \in [Agents -> Seq(Signatures)]
<1>1. lru \in [Agents -> Seq(Signatures)]
  BY DEF ThrottleTypes, ThrottleTypeOK
<1>2. lru' \in [Agents -> Seq(Signatures)] /\ lru'[a] = q /\ \A b \in Agents : b # a => lru'[b] = lru[b]
  BY <1>1
<1>3. ASSUME NEW b \in Agents
      PROVE  /\ Distinct(lru'[b]) /\ Len(lru'[b]) <= PerAgentCap
             /\ \A s \in Signatures : <<b, s>> \in DOMAIN win' <=> s \in SeqRange(lru'[b])
  <2>1. CASE b = a
    BY <1>2, <2>1
  <2>2. CASE b # a
    BY <1>2, <2>2 DEF ListsInv
  <2>3. QED
    BY <2>1, <2>2
<1>4. QED
  BY <1>2, <1>3 DEF ListsInv

LEMMA KeyParts ==
  ASSUME NEW k \in Keys
  PROVE  k[1] \in Agents /\ k[2] \in Signatures /\ k = <<k[1], k[2]>>
  BY DEF Keys

\* Record counts a repeated occurrence and moves its window to the front.
LEMMA CountRepeatKeeps ==
  ASSUME ThrottleInv, NEW k \in Keys, CountRepeat(k)
  PROVE  ThrottleInv'
<1> DEFINE a == k[1]
           s == k[2]
           q == <<s>> \o Without(lru[a], s)
           w2 == [win[k] EXCEPT !.count = @ + 1]
<1>1. ThrottleTypes /\ ListsInv /\ EveryWindowWillClose /\ IdInv /\ KeyInv
  BY DEF ThrottleInv
<1>2. k \in DOMAIN win /\ a \in Agents /\ s \in Signatures /\ k = <<a, s>>
  BY KeyParts DEF CountRepeat
<1>3. /\ win' = [win EXCEPT ![k] = w2]
      /\ lru' = [lru EXCEPT ![a] = q]
      /\ recorded' = [recorded EXCEPT ![k] = @ + 1]
      /\ UNCHANGED <<armed, fired, rec, closers, now, opened, emitVars>>
  BY DEF CountRepeat
<1>4. /\ w2 \in [id : Positive, count : Positive] /\ w2.id = win[k].id /\ w2.count = win[k].count + 1
  <2>1. win[k] \in [id : Positive, count : Positive] /\ win[k].count + 1 \in Positive
    BY <1>1, <1>2, WindowTypes DEF Positive
  <2>2. QED
    BY <2>1
<1>5. /\ q \in Seq(Signatures) /\ Distinct(q) /\ Len(q) <= PerAgentCap
      /\ SeqRange(q) = SeqRange(lru[a])
  <2>1. lru[a] \in Seq(Signatures) /\ Distinct(lru[a]) /\ Len(lru[a]) <= PerAgentCap /\ s \in SeqRange(lru[a])
    BY <1>1, <1>2 DEF ThrottleTypes, ThrottleTypeOK, ListsInv
  <2>2. /\ Without(lru[a], s) \in Seq(Signatures) /\ Len(Without(lru[a], s)) = Len(lru[a]) - 1
        /\ Distinct(Without(lru[a], s)) /\ SeqRange(Without(lru[a], s)) = SeqRange(lru[a]) \ {s}
    BY <2>1, WithoutProps
  <2>3. /\ q \in Seq(Signatures) /\ Len(q) = (Len(lru[a]) - 1) + 1 /\ Distinct(q)
        /\ SeqRange(q) = (SeqRange(lru[a]) \ {s}) \cup {s}
    BY <1>2, <2>2, FrontProps
  <2>4. Len(lru[a]) \in Nat
    BY <2>1, LenProperties
  <2>5. (Len(lru[a]) - 1) + 1 = Len(lru[a])
    BY <2>4
  <2>6. (SeqRange(lru[a]) \ {s}) \cup {s} = SeqRange(lru[a])
    BY <2>1
  <2> HIDE DEF q
  <2>7. QED
    BY <2>1, <2>3, <2>5, <2>6
<1> HIDE DEF q, w2
<1>6. /\ win \in [DOMAIN win -> [id : Positive, count : Positive]]
      /\ DOMAIN win' = DOMAIN win /\ win'[k] = w2
      /\ \A j \in DOMAIN win : j # k => win'[j] = win[j]
  BY <1>1, <1>2, <1>3 DEF ThrottleTypes, ThrottleTypeOK
<1>7. ListsInv' /\ lru' \in [Agents -> Seq(Signatures)]
  <2>1. \A r \in Signatures : <<a, r>> \in DOMAIN win' <=> r \in SeqRange(q)
    BY <1>1, <1>2, <1>5, <1>6 DEF ListsInv
  <2>2. QED
    BY <1>1, <1>2, <1>3, <1>5, <1>6, <2>1, ListMoves
<1>8. ThrottleTypes'
  <2>1. win' \in [DOMAIN win' -> [id : Positive, count : Positive]] /\ DOMAIN win' \subseteq Keys
    BY <1>1, <1>3, <1>4, <1>6 DEF ThrottleTypes, ThrottleTypeOK
  <2>2. recorded' \in [Keys -> Nat]
    BY <1>1, <1>3 DEF ThrottleTypes, ThrottleTypeOK
  <2>3. QED
    BY <1>1, <1>3, <1>7, <2>1, <2>2, ZenonT(30) DEF ThrottleTypes, ThrottleTypeOK, emitVars
<1>9. EveryWindowWillClose'
  BY <1>1, <1>3, <1>6 DEF EveryWindowWillClose
<1>10. IdInv'
  BY <1>1, <1>2, <1>3, <1>4, <1>6 DEF IdInv
<1>11. ASSUME NEW j \in Keys
       PROVE  recorded'[j] = Out(j)' + Within(j)' /\ rows'[j] + Coming(j)' <= 2 * opened'[j]
  <2>1. Out(j)' = Out(j) /\ InFlight(j)' = InFlight(j) /\ Coming(j)' = Coming(j) /\ rows'[j] = rows[j]
    BY <1>3, <1>6 DEF Out, InFlight, FreshAt, ClosersOf, Coming, RowAt, IsOpen, emitVars
  <2>2. CASE j # k
    BY <1>1, <1>3, <1>6, <1>8, <2>1, <2>2, Untouched
       DEF ThrottleTypes, ThrottleTypeOK, ClosersOf, FreshAt, RowAt, emitVars
  <2>3. CASE j = k
    <3>1. recorded'[j] = recorded[j] + 1 /\ opened'[j] = opened[j]
      BY <1>1, <1>3, <2>3 DEF ThrottleTypes, ThrottleTypeOK
    <3>2. Counted(j)' = Counted(j) + 1
      <4>1. PICK c \in Nat \ {0} : c = win[j].count
        BY <1>1, <1>2, <2>3, WindowTypes
      <4>2. (c + 1) - 1 = (c - 1) + 1
        BY <4>1
      <4>3. QED
        BY <1>2, <1>4, <1>6, <2>3, <4>1, <4>2 DEF Counted
    <3>3. Within(j)' = Within(j) + 1
      <4>1. PICK f \in Nat, c \in Nat : f = InFlight(j) /\ c = Counted(j)
        BY <1>1, KeyNaturals
      <4>2. f + (c + 1) = (f + c) + 1
        OBVIOUS
      <4>3. QED
        BY <2>1, <3>2, <4>1, <4>2 DEF Within
    <3>4. recorded'[j] = Out(j)' + Within(j)'
      <4>1. Out(j) + 0 = Out(j) /\ Within(j)' + 0 = Within(j)'
        BY <1>1, <1>8, BooksTypedNow, BooksTypedNext DEF BooksTyped
      <4>2. QED
        BY <1>1, <1>8, <2>1, <3>1, <3>3, <4>1, Balance
    <3>5. rows'[j] + Coming(j)' <= 2 * opened'[j]
      BY <1>1, <2>1, <3>1 DEF KeyInv
    <3>6. QED
      BY <3>4, <3>5
  <2>4. QED
    BY <2>2, <2>3
<1>12. KeyInv'
  BY <1>11 DEF KeyInv
<1>13. QED
  BY <1>7, <1>8, <1>9, <1>10, <1>12 DEF ThrottleInv

\* A window opens in front of those kept; an evicted one's summary is the second row.
LEMMA OpensKeeps ==
  ASSUME ThrottleInv, NEW k \in Keys, NEW kept, NEW list,
         Opens(k, kept, list), kept \subseteq DOMAIN win,
         list \in Seq(Signatures), Distinct(list), Len(list) < PerAgentCap,
         \A s \in Signatures : s \in SeqRange(list) <=> <<k[1], s>> \in kept,
         \A j \in DOMAIN win : j \notin kept => j[1] = k[1],
         armed' \subseteq Timer, [key |-> k, id |-> opened'[k]] \in armed',
         \A timer \in armed : timer.key \in kept => timer \in armed',
         rec' \in Seq(EventRow), Len(rec') <= 2, 1 \in DOMAIN rec', rec'[1] = RowOf(k, opened'[k], 1),
         \A j \in Keys : FreshAt(2, j)' = (IF j \in DOMAIN win \ kept THEN win[j].count - 1 ELSE 0),
         \A j \in Keys : RowAt(2, j)' = 1 => j \in DOMAIN win \ kept
  PROVE  ThrottleInv'
<1> DEFINE a == k[1]
           q == <<k[2]>> \o list
           id == opened[k] + 1
<1>1. ThrottleTypes /\ ListsInv /\ EveryWindowWillClose /\ IdInv /\ KeyInv
  BY DEF ThrottleInv
<1>2. /\ k \notin DOMAIN win /\ a \in Agents /\ k[2] \in Signatures /\ k = <<a, k[2]>>
      /\ rec = <<>>
  BY KeyParts DEF Opens, CanRecord
<1>3. opened' = [opened EXCEPT ![k] = id] /\ opened'[k] = id /\ id \in Positive
  BY <1>1, SMTT(30) DEF Opens, ThrottleTypes, ThrottleTypeOK, Positive
<1>4. /\ win' = [j \in kept \cup {k} |-> IF j = k THEN [id |-> opened'[k], count |-> 1] ELSE win[j]]
      /\ lru' = [lru EXCEPT ![a] = q]
      /\ recorded' = [recorded EXCEPT ![k] = @ + 1]
      /\ UNCHANGED <<fired, closers, now, emitVars>>
  BY DEF Opens
<1>5. /\ DOMAIN win' = kept \cup {k} /\ \A j \in kept : win'[j] = win[j]
      /\ win'[k].id = id /\ win'[k].count = 1 /\ k \notin kept
      /\ win'[k] \in [id : Positive, count : Positive]
  BY <1>2, <1>3, <1>4 DEF Positive
<1>6. q \in Seq(Signatures) /\ Distinct(q) /\ Len(q) <= PerAgentCap /\ SeqRange(q) = SeqRange(list) \cup {k[2]}
  <2>1. k[2] \notin SeqRange(list)
    BY <1>2, <1>5
  <2>2. /\ q \in Seq(Signatures) /\ Distinct(q) /\ Len(q) = Len(list) + 1
        /\ SeqRange(q) = SeqRange(list) \cup {k[2]}
    BY <1>2, <2>1, FrontProps
  <2> HIDE DEF q
  <2>3. Len(q) <= PerAgentCap
    BY <2>2, LenProperties, ThrottleAssumption
  <2>4. QED
    BY <2>2, <2>3
<1> HIDE DEF q, id
<1>7. ListsInv' /\ lru' \in [Agents -> Seq(Signatures)]
  <2>1. ASSUME NEW s \in Signatures PROVE <<a, s>> \in DOMAIN win' <=> s \in SeqRange(q)
    BY <1>2, <1>5, <1>6
  <2>2. ASSUME NEW b \in Agents, NEW s \in Signatures, b # a
        PROVE  <<b, s>> \in DOMAIN win' <=> <<b, s>> \in DOMAIN win
    <3>1. <<b, s>> # k /\ <<b, s>>[1] # k[1]
      BY <1>2, <2>2
    <3>2. QED
      BY <1>5, <3>1
  <2>3. QED
    BY <1>1, <1>2, <1>4, <1>6, <2>1, <2>2, ListMoves
<1>8. ThrottleTypes'
  <2>1. win' \in [DOMAIN win' -> [id : Positive, count : Positive]] /\ DOMAIN win' \subseteq Keys
    <3>1. \A j \in kept : win[j] \in [id : Positive, count : Positive] /\ j \in Keys
      BY <1>1, WindowTypes
    <3>2. \A j \in DOMAIN win' : win'[j] \in [id : Positive, count : Positive] /\ j \in Keys
      BY <1>5, <3>1
    <3>3. win' = [j \in DOMAIN win' |-> win'[j]]
      BY <1>4, <1>5
    <3>4. QED
      BY <3>2, <3>3
  <2>2. recorded' \in [Keys -> Nat] /\ opened' \in [Keys -> Nat]
    BY <1>1, <1>3, <1>4, SMTT(30) DEF ThrottleTypes, ThrottleTypeOK, Positive
  <2>3. QED
    BY <1>1, <1>4, <1>7, <2>1, <2>2, ZenonT(30) DEF ThrottleTypes, ThrottleTypeOK, emitVars
<1>9. EveryWindowWillClose'
  <2> SUFFICES ASSUME NEW j \in DOMAIN win' PROVE \E timer \in armed' \cup fired' : timer.key = j
    BY DEF EveryWindowWillClose
  <2>1. CASE j = k
    <3>1. [key |-> k, id |-> opened'[k]].key = k
      OBVIOUS
    <3>2. QED
      BY <2>1, <3>1
  <2>2. CASE j \in kept
    BY <1>1, <1>4, <2>2 DEF EveryWindowWillClose
  <2>3. QED
    BY <1>5, <2>1, <2>2
<1>10. IdInv'
  <2>1. \A j \in DOMAIN win' : win'[j].id = opened'[j]
    BY <1>1, <1>3, <1>5 DEF IdInv, ThrottleTypes, ThrottleTypeOK
  <2>2. ASSUME NEW r \in closers
        PROVE  r.id <= opened'[r.key] /\ (r.key \in DOMAIN win' => r.id < opened'[r.key])
    <3>1. r.key \in Keys /\ r.id \in Nat /\ opened \in [Keys -> Nat]
      BY <1>1 DEF ThrottleTypes, ThrottleTypeOK, EventRow, Positive
    <3>2. CASE r.key = k
      <4>1. r.id <= opened[k]
        BY <1>1, <3>2 DEF IdInv
      <4>2. r.id < id /\ r.id <= id
        BY <3>1, <4>1 DEF id
      <4>3. QED
        BY <1>3, <3>2, <4>2
    <3>3. CASE r.key # k
      BY <1>1, <1>3, <1>5, <3>1, <3>3 DEF IdInv
    <3>4. QED
      BY <3>2, <3>3
  <2>3. QED
    BY <1>1, <1>4, <2>1, <2>2 DEF IdInv
<1>11. ASSUME NEW j \in Keys
       PROVE  recorded'[j] = Out(j)' + Within(j)' /\ rows'[j] + Coming(j)' <= 2 * opened'[j]
  <2>1. Out(j)' = Out(j) /\ ClosersOf(j)' = ClosersOf(j) /\ rows'[j] = rows[j]
    BY <1>4 DEF Out, ClosersOf, emitVars
  <2>2. FreshAt(1, j) = 0 /\ FreshAt(2, j) = 0 /\ RowAt(1, j) = 0 /\ RowAt(2, j) = 0
    BY <1>2, EmptySeq DEF FreshAt, RowAt
  <2>3. 1 \in DOMAIN rec' /\ rec'[1].key = k /\ rec'[1].fresh = 1
    BY LenProperties DEF RowOf
  <2>4. FreshAt(1, j)' = (IF j = k THEN 1 ELSE 0) /\ RowAt(1, j)' = (IF j = k THEN 1 ELSE 0)
    BY <2>3 DEF FreshAt, RowAt
  <2>5. RowAt(2, j)' \in {0, 1}
    BY DEF RowAt
  <2>6. PICK f \in Nat, c \in Nat : f = Cardinality(Tells(ClosersOf(j))) /\ c = Cardinality(ClosersOf(j))
    BY <1>1, KeyNaturals
  <2>7. InFlight(j) = f /\ Coming(j) = c + IsOpen(j)
    <3>1. 0 + 0 + f = f /\ 0 + 0 + c + IsOpen(j) = c + IsOpen(j)
      BY DEF IsOpen
    <3>2. QED
      BY <2>2, <2>6, <3>1 DEF InFlight, Coming
  <2>8. CASE j = k
    <3>1. FreshAt(2, j)' = 0 /\ RowAt(2, j)' = 0
      BY <1>2, <2>5, <2>8
    <3>2. InFlight(j)' = 1 + f /\ Coming(j)' = 1 + c + 1
      <4>1. 1 + 0 + f = 1 + f /\ 1 + 0 + c + 1 = 1 + c + 1
        OBVIOUS
      <4>2. QED
        BY <1>5, <2>1, <2>4, <2>6, <2>8, <3>1, <4>1 DEF InFlight, Coming, IsOpen
    <3>3. Counted(j) = 0 /\ Counted(j)' = 0 /\ IsOpen(j) = 0
      BY <1>2, <1>5, <2>8 DEF Counted, IsOpen
    <3>4. Within(j)' = 1 + f + 0 /\ Within(j) = f + 0
      BY <2>7, <3>2, <3>3 DEF Within
    <3>5. recorded'[j] = recorded[j] + 1 /\ opened'[j] = opened[j] + 1
      BY <1>1, <1>3, <1>4, <2>8 DEF ThrottleTypes, ThrottleTypeOK, id
    <3>6. recorded'[j] = Out(j)' + Within(j)'
      <4>1. Out(j) + 0 = Out(j) /\ Within(j)' + 0 = Within(j) + 1
        <5>1. (1 + f + 0) + 0 = (f + 0) + 1
          OBVIOUS
        <5>2. QED
          BY <1>1, <3>4, <5>1, BooksTypedNow DEF BooksTyped
      <4>2. QED
        BY <1>1, <1>8, <2>1, <3>5, <4>1, Balance
    <3>7. rows'[j] + Coming(j)' <= 2 * opened'[j]
      <4>1. rows'[j] <= rows[j] + 0 /\ (1 + c + 1) + 0 <= (c + 0) + 2 * 1
        BY <1>1, <2>1, BooksTypedNow DEF BooksTyped
      <4>2. Coming(j)' + 0 <= Coming(j) + 2 * 1
        BY <2>7, <3>2, <3>3, <4>1
      <4>3. QED
        BY <1>1, <1>8, <3>5, <4>1, <4>2, RowsBalance
    <3>8. QED
      BY <3>6, <3>7
  <2>9. CASE j # k /\ j \in DOMAIN win /\ j \notin kept
    <3>1. PICK n \in Nat \ {0} : n = win[j].count
      BY <1>1, <2>9, WindowTypes
    <3>2. FreshAt(2, j)' = n - 1
      BY <2>9, <3>1
    <3>3. Counted(j) = n - 1 /\ Counted(j)' = 0 /\ IsOpen(j) = 1 /\ IsOpen(j)' = 0
      BY <1>5, <2>9, <3>1 DEF Counted, IsOpen
    <3>4. InFlight(j)' = 0 + (n - 1) + f
      BY <2>1, <2>4, <2>6, <2>9, <3>2 DEF InFlight
    <3>5. Within(j)' = (0 + (n - 1) + f) + 0 /\ Within(j) = f + (n - 1)
      BY <2>7, <3>3, <3>4 DEF Within
    <3>6. Within(j)' = Within(j)
      BY <3>5
    <3>7. Coming(j)' <= Coming(j)
      <4>1. PICK e \in {0, 1} : e = RowAt(2, j)'
        BY <2>5
      <4>2. Coming(j)' = 0 + e + c + 0
        BY <2>1, <2>4, <2>6, <2>9, <3>3, <4>1 DEF Coming
      <4>3. Coming(j) = c + 1
        BY <2>7, <3>3
      <4>4. QED
        BY <4>2, <4>3
    <3>8. recorded'[j] = recorded[j] /\ opened'[j] = opened[j]
      BY <1>1, <1>3, <1>4, <2>9 DEF ThrottleTypes, ThrottleTypeOK
    <3>9. recorded'[j] = Out(j)' + Within(j)'
      BY <1>1, <2>1, <3>6, <3>8 DEF KeyInv
    <3>10. rows'[j] + Coming(j)' <= 2 * opened'[j]
      <4>1. /\ rows'[j] <= rows[j] + 0 /\ opened'[j] = opened[j] + 0
            /\ Coming(j)' + 0 <= Coming(j) + 2 * 0
        BY <1>1, <1>8, <2>1, <3>7, <3>8, BooksTypedNow, BooksTypedNext, SMTT(30) DEF BooksTyped
      <4>2. QED
        BY <1>1, <1>8, <4>1, RowsBalance
    <3>11. QED
      BY <3>9, <3>10
  <2>10. CASE j # k /\ (j \in DOMAIN win => j \in kept)
    <3>1. FreshAt(2, j)' = 0 /\ RowAt(2, j)' = 0
      BY <2>5, <2>10
    <3>2. j \in DOMAIN win' <=> j \in DOMAIN win
      BY <1>5, <2>10
    <3>3. j \in DOMAIN win => win'[j] = win[j]
      BY <1>5, <2>10
    <3>4. /\ recorded'[j] = recorded[j] /\ opened'[j] = opened[j]
          /\ told'[j] = told[j] /\ lost'[j] = lost[j]
      BY <1>1, <1>3, <1>4, <2>10 DEF ThrottleTypes, ThrottleTypeOK, emitVars
    <3>5. QED
      BY <1>1, <1>8, <2>1, <2>2, <2>4, <2>10, <3>1, <3>2, <3>3, <3>4, Untouched
  <2>11. QED
    BY <2>8, <2>9, <2>10
<1>12. KeyInv'
  BY <1>11 DEF KeyInv
<1>13. QED
  BY <1>7, <1>8, <1>9, <1>10, <1>12 DEF ThrottleInv

LEMMA OpenWindowKeeps ==
  ASSUME ThrottleInv, NEW k \in Keys, OpenWindow(k)
  PROVE  ThrottleInv'
<1> DEFINE event == RowOf(k, opened'[k], 1)
           timer == [key |-> k, id |-> opened'[k]]
<1>1. /\ Opens(k, DOMAIN win, lru[k[1]]) /\ Len(lru[k[1]]) < PerAgentCap
      /\ armed' = armed \cup {timer} /\ rec' = <<event>>
  BY DEF OpenWindow
<1>2. opened'[k] \in Positive
  BY <1>1 DEF Opens, ThrottleInv, ThrottleTypes, ThrottleTypeOK, Positive
<1>3. event \in EventRow /\ timer \in Timer
  BY <1>2, ThrottleAssumption DEF RowOf, EventRow, Timer, NotRead, Positive
<1> HIDE DEF event, timer
<1>4. rec' \in Seq(EventRow) /\ Len(rec') = 1 /\ DOMAIN rec' = {1} /\ rec'[1] = event
  BY <1>1, <1>3
<1>5. armed' \subseteq Timer /\ \A t \in armed : t.key \in DOMAIN win => t \in armed'
  BY <1>1, <1>3 DEF ThrottleInv, ThrottleTypes, ThrottleTypeOK
<1>6. /\ lru[k[1]] \in Seq(Signatures) /\ Distinct(lru[k[1]])
      /\ \A s \in Signatures : s \in SeqRange(lru[k[1]]) <=> <<k[1], s>> \in DOMAIN win
  BY KeyParts DEF ThrottleInv, ThrottleTypes, ThrottleTypeOK, ListsInv
<1>7. ASSUME NEW j \in Keys PROVE FreshAt(2, j)' = 0 /\ RowAt(2, j)' = 0
  BY <1>4 DEF FreshAt, RowAt
<1>8. timer \in armed' /\ Len(rec') <= 2 /\ 1 \in DOMAIN rec'
  BY <1>1, <1>4
<1>9. QED
  BY <1>1, <1>4, <1>5, <1>6, <1>7, <1>8, OpensKeeps DEF event, timer

LEMMA OpenWindowEvictingKeeps ==
  ASSUME ThrottleInv, NEW k \in Keys, OpenWindowEvicting(k)
  PROVE  ThrottleInv'
<1> DEFINE a == k[1]
           list == SubSeq(lru[a], 1, PerAgentCap - 1)
           old == Oldest(a)
           kept == DOMAIN win \ {old}
           event == RowOf(k, opened'[k], 1)
           timer == [key |-> k, id |-> opened'[k]]
<1>1. /\ Opens(k, kept, list) /\ Len(lru[a]) = PerAgentCap
      /\ armed' = (armed \ {[key |-> old, id |-> win[old].id]}) \cup {timer}
      /\ rec' = <<event>> \o Summary(old)
  BY DEF OpenWindowEvicting
<1>2. opened'[k] \in Positive
  <2>1. opened \in [Keys -> Nat] /\ opened' = [opened EXCEPT ![k] = @ + 1]
    BY <1>1 DEF Opens, ThrottleInv, ThrottleTypes, ThrottleTypeOK
  <2>2. QED
    BY <2>1 DEF Positive
<1>3. event \in EventRow /\ timer \in Timer
  BY <1>2, ThrottleAssumption DEF RowOf, EventRow, Timer, NotRead, Positive
<1>4. ThrottleTypes /\ ListsInv
  BY DEF ThrottleInv
<1>5. a \in Agents /\ lru[a] \in Seq(Signatures) /\ Distinct(lru[a])
  BY <1>4, KeyParts DEF ThrottleTypes, ThrottleTypeOK, ListsInv
<1>6. /\ list \in Seq(Signatures) /\ Len(list) = PerAgentCap - 1 /\ Distinct(list)
      /\ lru[a][PerAgentCap] \in SeqRange(lru[a])
      /\ SeqRange(list) = SeqRange(lru[a]) \ {lru[a][PerAgentCap]}
  BY <1>1, <1>5, DropLastProps, ThrottleAssumption
<1>7. old = <<a, lru[a][PerAgentCap]>> /\ lru[a][PerAgentCap] \in Signatures
  BY <1>1, <1>5, <1>6, LenProperties DEF Oldest, SeqRange
<1>8. old \in DOMAIN win /\ old[1] = a
  BY <1>4, <1>5, <1>6, <1>7 DEF ListsInv
<1>9. \A s \in Signatures : s \in SeqRange(list) <=> <<a, s>> \in kept
  BY <1>4, <1>5, <1>6, <1>7 DEF ListsInv
<1>10. Len(list) < PerAgentCap
  BY <1>6, ThrottleAssumption
<1> HIDE DEF list
<1>11. armed' \subseteq Timer /\ \A t \in armed : t.key \in kept => t \in armed'
  BY <1>1, <1>3, <1>4, SMTT(30) DEF ThrottleTypes, ThrottleTypeOK
<1>12. \A j \in DOMAIN win : j \notin kept => j = old
  OBVIOUS
<1>13. PICK n \in Nat \ {0} : n = win[old].count
  BY <1>4, <1>8, WindowTypes
<1>14. win[old].id \in Positive /\ old \in Keys
  BY <1>4, <1>8, WindowTypes DEF Positive
<1> DEFINE sum == RowOf(old, win[old].id, n - 1)
<1>15. CASE n > 1
  <2>1. Summary(old) = <<sum>>
    BY <1>13, <1>15 DEF Summary
  <2>2. sum \in EventRow /\ sum.key = old /\ sum.fresh = n - 1
    BY <1>13, <1>14, <1>15, ThrottleAssumption DEF RowOf, EventRow, NotRead, Positive
  <2> HIDE DEF sum, event, timer, old
  <2>3. rec' = <<event>> \o <<sum>>
    BY <1>1, <2>1
  <2>4. rec' \in Seq(EventRow) /\ Len(rec') = 2 /\ DOMAIN rec' = {1, 2} /\ rec'[1] = event /\ rec'[2] = sum
    <3>1. /\ <<event>> \in Seq(EventRow) /\ Len(<<event>>) = 1 /\ <<event>>[1] = event
          /\ <<sum>> \in Seq(EventRow) /\ Len(<<sum>>) = 1 /\ <<sum>>[1] = sum
      BY <1>3, <2>2
    <3>2. /\ rec' \in Seq(EventRow) /\ Len(rec') = 1 + 1
          /\ \A i \in 1..1 + 1 : rec'[i] = IF i <= 1 THEN <<event>>[i] ELSE <<sum>>[i - 1]
      BY <2>3, <3>1, ConcatProperties
    <3>3. rec'[1] = event /\ rec'[2] = sum
      BY <3>1, <3>2
    <3>4. DOMAIN rec' = 1..2
      BY <3>2, LenProperties
    <3>5. QED
      BY <3>2, <3>3, <3>4
  <2>5. ASSUME NEW j \in Keys
        PROVE  /\ FreshAt(2, j)' = (IF j \in DOMAIN win \ kept THEN win[j].count - 1 ELSE 0)
               /\ RowAt(2, j)' = 1 => j \in DOMAIN win \ kept
    BY <1>8, <1>12, <1>13, <2>2, <2>4 DEF FreshAt, RowAt
  <2>6. timer \in armed' /\ Len(rec') <= 2 /\ 1 \in DOMAIN rec'
    BY <1>1, <2>4
  <2>7. QED
    BY <1>1, <1>6, <1>8, <1>9, <1>10, <1>11, <1>12, <2>4, <2>5, <2>6, OpensKeeps DEF event, timer
<1>16. CASE n = 1
  <2>1. Summary(old) = <<>>
    BY <1>13, <1>16 DEF Summary
  <2> HIDE DEF event, timer, old
  <2>2. rec' = <<event>>
    <3>1. <<event>> \o <<>> = <<event>>
      BY <1>3
    <3>2. QED
      BY <1>1, <2>1, <3>1
  <2>3. rec' \in Seq(EventRow) /\ Len(rec') = 1 /\ DOMAIN rec' = {1} /\ rec'[1] = event
    BY <1>3, <2>2
  <2>4. ASSUME NEW j \in Keys
        PROVE  /\ FreshAt(2, j)' = (IF j \in DOMAIN win \ kept THEN win[j].count - 1 ELSE 0)
               /\ RowAt(2, j)' = 1 => j \in DOMAIN win \ kept
    <3>1. FreshAt(2, j)' = 0 /\ RowAt(2, j)' = 0
      BY <2>3 DEF FreshAt, RowAt
    <3>2. j \in DOMAIN win \ kept => win[j].count - 1 = 0
      <4>1. win[old].count = 1 /\ 1 - 1 = 0
        BY <1>13, <1>16
      <4>2. QED
        BY <1>12, <4>1
    <3>3. QED
      BY <3>1, <3>2
  <2>5. timer \in armed' /\ Len(rec') <= 2 /\ 1 \in DOMAIN rec'
    BY <1>1, <2>3
  <2>6. QED
    BY <1>1, <1>6, <1>8, <1>9, <1>10, <1>11, <1>12, <2>3, <2>4, <2>5, OpensKeeps DEF event, timer
<1>17. QED
  BY <1>15, <1>16
-----------------------------------------------------------------------------
(* The timers *)

\* A timer fires, a callback that finds no window returns, a second passes: rows, windows
\* and lists stay as they are.
LEMMA TimerStepKeeps ==
  ASSUME ThrottleInv,
         \/ \E timer \in armed : Fire(timer)
         \/ \E timer \in fired : CloseNothing(timer)
         \/ Tick \/ UNCHANGED throttleVars
  PROVE  ThrottleInv'
<1>1. /\ UNCHANGED <<win, lru, rec, closers, opened, recorded, emitVars>>
      /\ armed' \subseteq Timer /\ fired' \subseteq Timer /\ now' \in 0..MaxSecond
      /\ \A timer \in armed \cup fired : timer.key \in DOMAIN win => timer \in armed' \cup fired'
  <2>1. ThrottleTypeOK
    BY DEF ThrottleInv, ThrottleTypes
  <2>2. CASE \E timer \in armed : Fire(timer)
    BY <2>1, <2>2 DEF Fire, ThrottleTypeOK
  <2>3. CASE \E timer \in fired : CloseNothing(timer)
    BY <2>1, <2>3 DEF CloseNothing, ThrottleTypeOK
  <2>4. CASE Tick
    BY <2>1, <2>4, ThrottleAssumption DEF Tick, ThrottleTypeOK, windowVars
  <2>5. CASE UNCHANGED throttleVars
    BY <2>1, <2>5 DEF throttleVars, windowVars, ThrottleTypeOK
  <2>6. QED
    BY <2>2, <2>3, <2>4, <2>5
<1>2. ThrottleTypes'
  BY <1>1 DEF ThrottleInv, ThrottleTypes, ThrottleTypeOK, emitVars
<1>3. ListsInv' /\ IdInv'
  BY <1>1 DEF ThrottleInv, ListsInv, IdInv
<1>4. EveryWindowWillClose'
  BY <1>1 DEF ThrottleInv, EveryWindowWillClose
<1>5. KeyInv'
  BY <1>1 DEF ThrottleInv, KeyInv, Out, Within, InFlight, Counted, FreshAt, ClosersOf, Coming, RowAt,
              IsOpen, emitVars
<1>6. QED
  BY <1>2, <1>3, <1>4, <1>5 DEF ThrottleInv

LEMMA CloseWindowKeeps ==
  ASSUME ThrottleInv, NEW timer \in fired, CloseWindow(timer)
  PROVE  ThrottleInv'
<1> DEFINE k == timer.key
           a == k[1]
           q == Without(lru[a], k[2])
           sum == RowOf(k, win[k].id, win[k].count - 1)
<1>1. ThrottleTypes /\ ListsInv /\ EveryWindowWillClose /\ IdInv /\ KeyInv
  BY DEF ThrottleInv
<1>2. /\ k \in DOMAIN win /\ k \in Keys /\ a \in Agents /\ k[2] \in Signatures /\ k = <<a, k[2]>>
      /\ fired' = fired \ {timer}
      /\ win' = [j \in DOMAIN win \ {k} |-> win[j]]
      /\ lru' = [lru EXCEPT ![a] = q]
      /\ closers' = closers \cup SeqRange(Summary(k))
      /\ UNCHANGED <<armed, rec, now, opened, recorded, emitVars>>
  BY <1>1, KeyParts DEF CloseWindow, ThrottleTypes, ThrottleTypeOK
<1>3. /\ q \in Seq(Signatures) /\ Distinct(q) /\ Len(q) <= PerAgentCap
      /\ SeqRange(q) = SeqRange(lru[a]) \ {k[2]}
  <2>1. /\ lru[a] \in Seq(Signatures) /\ Distinct(lru[a]) /\ Len(lru[a]) <= PerAgentCap
        /\ k[2] \in SeqRange(lru[a])
    BY <1>1, <1>2 DEF ThrottleTypes, ThrottleTypeOK, ListsInv
  <2>2. /\ q \in Seq(Signatures) /\ Len(q) = Len(lru[a]) - 1 /\ Distinct(q)
        /\ SeqRange(q) = SeqRange(lru[a]) \ {k[2]}
    BY <2>1, WithoutProps
  <2> HIDE DEF q
  <2>3. Len(q) <= PerAgentCap
    BY <2>1, <2>2, LenProperties, ThrottleAssumption
  <2>4. QED
    BY <2>2, <2>3
<1> HIDE DEF q
<1>4. DOMAIN win' = DOMAIN win \ {k} /\ \A j \in DOMAIN win' : win'[j] = win[j]
  BY <1>2
<1>5. ListsInv' /\ lru' \in [Agents -> Seq(Signatures)]
  <2>1. ASSUME NEW s \in Signatures PROVE <<a, s>> \in DOMAIN win' <=> s \in SeqRange(q)
    <3>1. <<a, s>> = k <=> s = k[2]
      BY <1>2
    <3>2. QED
      BY <1>1, <1>2, <1>3, <1>4, <3>1 DEF ListsInv
  <2>2. ASSUME NEW b \in Agents, NEW s \in Signatures, b # a
        PROVE  <<b, s>> \in DOMAIN win' <=> <<b, s>> \in DOMAIN win
    <3>1. <<b, s>> # k
      BY <1>2, <2>2
    <3>2. QED
      BY <1>4, <3>1
  <2>3. QED
    BY <1>1, <1>2, <1>3, <2>1, <2>2, ListMoves
<1>6. PICK n \in Nat \ {0} : n = win[k].count
  BY <1>1, <1>2, WindowTypes
<1>7. win[k].id \in Positive /\ win[k].id = opened[k]
  BY <1>1, <1>2, WindowTypes DEF IdInv, Positive
<1>8. \/ n = 1 /\ closers' = closers
      \/ n > 1 /\ closers' = closers \cup {sum}
  <2>1. CASE n = 1
    <3>1. Summary(k) = <<>>
      BY <1>6, <2>1 DEF Summary
    <3>2. SeqRange(<<>>) = {}
      BY EmptySeq DEF SeqRange
    <3>3. QED
      BY <1>2, <2>1, <3>1, <3>2
  <2>2. CASE n > 1
    <3>1. Summary(k) = <<sum>>
      BY <1>6, <2>2 DEF Summary
    <3> HIDE DEF sum
    <3>2. SeqRange(<<sum>>) = {sum}
      BY DEF SeqRange
    <3>3. QED
      BY <1>2, <2>2, <3>1, <3>2
  <2>3. QED
    BY <2>1, <2>2
<1>9. /\ sum.key = k /\ sum.id = opened[k] /\ (n > 1 => sum.fresh = n - 1 /\ sum \in EventRow)
  BY <1>2, <1>6, <1>7, ThrottleAssumption DEF RowOf, EventRow, NotRead, Positive
<1>10. sum \notin closers
  <2>1. \A r \in closers : r.key = k => r.id # opened[k]
    <3> SUFFICES ASSUME NEW r \in closers, r.key = k PROVE r.id # opened[k]
      OBVIOUS
    <3>1. r.id < opened[k] /\ r.id \in Nat /\ opened[k] \in Nat
      BY <1>1, <1>2, KeyNaturals DEF IdInv, ThrottleTypes, ThrottleTypeOK, EventRow, Positive
    <3>2. QED
      BY <3>1
  <2>2. QED
    BY <1>9, <2>1
<1> HIDE DEF sum
<1>11. /\ closers' \subseteq EventRow /\ Finite(closers')
  <2>1. CASE n = 1 /\ closers' = closers
    BY <1>1, <2>1 DEF ThrottleTypes, ThrottleTypeOK
  <2>2. CASE n > 1 /\ closers' = closers \cup {sum}
    BY <1>1, <1>9, <1>10, <2>2, AddRow DEF ThrottleTypes, ThrottleTypeOK
  <2>3. QED
    BY <1>8, <2>1, <2>2
<1>12. ThrottleTypes'
  <2>1. win' \in [DOMAIN win' -> [id : Positive, count : Positive]] /\ DOMAIN win' \subseteq Keys
    <3>1. \A j \in DOMAIN win' : win'[j] \in [id : Positive, count : Positive] /\ j \in Keys
      BY <1>1, <1>4, WindowTypes
    <3>2. win' = [j \in DOMAIN win' |-> win'[j]]
      BY <1>2, <1>4
    <3>3. QED
      BY <3>1, <3>2
  <2>2. fired' \subseteq Timer
    BY <1>1, <1>2 DEF ThrottleTypes, ThrottleTypeOK
  <2>3. Finite(closers)' /\ (closers \subseteq EventRow)'
    BY <1>11 DEF Finite, Tells
  <2>4. QED
    BY <1>1, <1>2, <1>5, <2>1, <2>2, <2>3 DEF ThrottleTypes, ThrottleTypeOK, emitVars
<1>13. EveryWindowWillClose'
  <2> SUFFICES ASSUME NEW j \in DOMAIN win' PROVE \E t \in armed' \cup fired' : t.key = j
    BY DEF EveryWindowWillClose
  <2>1. PICK t \in armed \cup fired : t.key = j
    BY <1>1, <1>4 DEF EveryWindowWillClose
  <2>2. t # timer
    BY <1>4, <2>1
  <2>3. QED
    BY <1>2, <2>1, <2>2
<1>14. IdInv'
  <2>1. \A r \in closers : r.key = k => r.id # opened[k]
    <3> SUFFICES ASSUME NEW r \in closers, r.key = k PROVE r.id # opened[k]
      OBVIOUS
    <3>1. r.id < opened[k] /\ r.id \in Nat /\ opened[k] \in Nat
      BY <1>1, <1>2, KeyNaturals DEF IdInv, ThrottleTypes, ThrottleTypeOK, EventRow, Positive
    <3>2. QED
      BY <3>1
  <2>2. opened[k] <= opened[k]
    BY <1>1, <1>2, KeyNaturals
  <2>3. closers' \subseteq closers \cup {sum}
    BY <1>8
  <2>4. \A r \in closers' : r.id <= opened'[r.key] /\ (r.key \in DOMAIN win' => r.id < opened'[r.key])
    BY <1>1, <1>2, <1>4, <1>9, <2>2, <2>3 DEF IdInv
  <2>5. \A r, p \in closers' : r.key = p.key /\ r.id = p.id => r = p
    BY <1>1, <1>9, <2>1, <2>3 DEF IdInv
  <2>6. \A j \in DOMAIN win' : win'[j].id = opened'[j]
    BY <1>1, <1>2, <1>4 DEF IdInv
  <2>7. QED
    BY <2>4, <2>5, <2>6 DEF IdInv
<1>15. ASSUME NEW j \in Keys
       PROVE  recorded'[j] = Out(j)' + Within(j)' /\ rows'[j] + Coming(j)' <= 2 * opened'[j]
  <2>1. /\ recorded'[j] = recorded[j] /\ opened'[j] = opened[j] /\ rows'[j] = rows[j]
        /\ told'[j] = told[j] /\ lost'[j] = lost[j] /\ Out(j)' = Out(j)
        /\ FreshAt(1, j)' = FreshAt(1, j) /\ FreshAt(2, j)' = FreshAt(2, j)
        /\ RowAt(1, j)' = RowAt(1, j) /\ RowAt(2, j)' = RowAt(2, j)
    BY <1>2 DEF Out, FreshAt, RowAt, emitVars
  <2>2. CASE j # k
    <3>1. ClosersOf(j)' = ClosersOf(j)
      BY <1>8, <1>9, <2>2 DEF ClosersOf
    <3>2. (j \in DOMAIN win' <=> j \in DOMAIN win) /\ (j \in DOMAIN win => win'[j] = win[j])
      BY <1>4, <2>2
    <3>3. QED
      BY <1>1, <1>12, <2>1, <3>1, <3>2, Untouched
  <2>3. CASE j = k
    <3> DEFINE own == ClosersOf(j)
               own2 == ClosersOf(j)'
    <3>1. Finite(own) /\ sum \notin own
      <4>1. own \subseteq closers
        BY DEF ClosersOf
      <4>2. QED
        BY <1>1, <1>10, <4>1, SubsetFinite DEF ThrottleTypes
    <3>2. PICK f \in Nat, c \in Nat, f1 \in Nat, f2 \in Nat, r1 \in Nat, r2 \in Nat :
            /\ f = Cardinality(Tells(own)) /\ c = Cardinality(own)
            /\ f1 = FreshAt(1, j) /\ f2 = FreshAt(2, j) /\ r1 = RowAt(1, j) /\ r2 = RowAt(2, j)
      BY <1>1, KeyNaturals
    <3>3. Cardinality(Tells(own2)) = f + (n - 1) /\ Cardinality(own2) <= c + 1
      <4>1. CASE n = 1 /\ closers' = closers
        <5>1. own2 = own
          BY <4>1 DEF ClosersOf
        <5>2. f + (n - 1) = f /\ c <= c + 1
          BY <4>1
        <5>3. QED
          BY <3>2, <5>1, <5>2
      <4>2. CASE n > 1 /\ closers' = closers \cup {sum}
        <5>1. own2 = own \cup {sum}
          BY <1>9, <2>3, <4>2 DEF ClosersOf
        <5> HIDE DEF own, own2
        <5>2. /\ Cardinality(own2) = c + 1
              /\ Cardinality(Tells(own2)) = f + sum.fresh
          BY <1>9, <3>1, <3>2, <4>2, <5>1, AddRow
        <5>3. c + 1 <= c + 1
          OBVIOUS
        <5>4. QED
          BY <1>9, <4>2, <5>2, <5>3
      <4>3. QED
        BY <1>8, <4>1, <4>2
    <3>4. Counted(j) = n - 1 /\ Counted(j)' = 0 /\ IsOpen(j) = 1 /\ IsOpen(j)' = 0
      BY <1>2, <1>4, <1>6, <2>3 DEF Counted, IsOpen
    <3>5. Within(j)' = (f1 + f2 + (f + (n - 1))) + 0 /\ Within(j) = (f1 + f2 + f) + (n - 1)
      BY <2>1, <3>2, <3>3, <3>4 DEF Within, InFlight
    <3>6. Within(j)' = Within(j)
      BY <3>5
    <3>7. Coming(j)' <= Coming(j)
      <4>1. Cardinality(own2) \in Nat
        BY <1>12, BooksCounted
      <4>2. PICK c2 \in Nat : c2 = Cardinality(own2) /\ c2 <= c + 1
        BY <3>3, <4>1
      <4>3. Coming(j)' = r1 + r2 + c2 + 0
        BY <2>1, <3>2, <3>4, <4>2 DEF Coming
      <4>4. Coming(j) = r1 + r2 + c + 1
        BY <3>2, <3>4 DEF Coming
      <4>5. QED
        BY <4>2, <4>3, <4>4
    <3>8. recorded'[j] = Out(j)' + Within(j)'
      BY <1>1, <2>1, <3>6 DEF KeyInv
    <3>9. rows'[j] + Coming(j)' <= 2 * opened'[j]
      <4>1. /\ rows'[j] <= rows[j] + 0 /\ opened'[j] = opened[j] + 0
            /\ Coming(j)' + 0 <= Coming(j) + 2 * 0
        BY <1>1, <1>12, <2>1, <3>7, BooksTypedNow, BooksTypedNext DEF BooksTyped
      <4>2. QED
        BY <1>1, <1>12, <4>1, RowsBalance
    <3>10. QED
      BY <3>8, <3>9
  <2>4. QED
    BY <2>2, <2>3
<1>16. KeyInv'
  BY <1>15 DEF KeyInv
<1>17. QED
  BY <1>5, <1>12, <1>13, <1>14, <1>16 DEF ThrottleInv
-----------------------------------------------------------------------------
(* tryEmit *)

\* Windows, lists, timers and history of what was recorded are not Emit's.
LEMMA WindowsKeep ==
  ASSUME ThrottleInv, UNCHANGED <<windowVars, opened>>
  PROVE  ListsInv' /\ EveryWindowWillClose' /\ \A k \in DOMAIN win' : win'[k].id = opened'[k]
  BY DEF ThrottleInv, ListsInv, EveryWindowWillClose, IdInv, windowVars

LEMMA RecRows ==
  ASSUME ThrottleTypes, rec # <<>>
  PROVE  /\ DOMAIN rec = 1..Len(rec) /\ Len(rec) \in {1, 2} /\ 1 \in DOMAIN rec
         /\ \A i \in DOMAIN rec : rec[i] \in EventRow
<1>1. rec \in Seq(EventRow) /\ Len(rec) <= 2
  BY DEF ThrottleTypes, ThrottleTypeOK
<1>2. Len(rec) \in Nat \ {0}
  BY <1>1, EmptySeq
<1>3. Len(rec) \in {1, 2}
  <2>1. PICK n \in Nat \ {0} : n = Len(rec)
    BY <1>2
  <2>2. n <= 2
    BY <1>1, <2>1
  <2>3. n \in {1, 2}
    BY <2>2
  <2>4. QED
    BY <2>1, <2>3
<1>4. DOMAIN rec = 1..Len(rec) /\ rec \in [1..Len(rec) -> EventRow]
  BY <1>1, LenProperties
<1>5. 1 \in 1..Len(rec)
  BY <1>3
<1>6. QED
  BY <1>3, <1>4, <1>5

LEMMA RecordReadsClockKeeps ==
  ASSUME ThrottleInv, RecordReadsClock
  PROVE  ThrottleInv'
<1>1. /\ ThrottleTypes /\ KeyInv /\ IdInv /\ rec # <<>>
      /\ rec' = [rec EXCEPT ![1].second = now]
      /\ UNCHANGED <<windowVars, closers, now, opened, recorded, emitVars>>
  BY DEF ThrottleInv, RecordReadsClock
<1> DEFINE event == [rec[1] EXCEPT !.second = now]
<1>2. event \in EventRow /\ event.key = rec[1].key /\ event.fresh = rec[1].fresh
  <2>1. rec[1] \in EventRow /\ now \in 0..NotRead
    BY <1>1, RecRows, ThrottleAssumption DEF ThrottleTypes, ThrottleTypeOK, NotRead
  <2>2. QED
    BY <2>1 DEF EventRow
<1>3. rec' = [rec EXCEPT ![1] = event]
  BY <1>1
<1> HIDE DEF event
<1>4. /\ rec' \in Seq(EventRow) /\ Len(rec') = Len(rec) /\ DOMAIN rec' = DOMAIN rec
      /\ \A i \in DOMAIN rec : rec'[i].key = rec[i].key /\ rec'[i].fresh = rec[i].fresh
  <2>1. rec \in Seq(EventRow) /\ 1 \in 1..Len(rec)
    BY <1>1, RecRows DEF ThrottleTypes, ThrottleTypeOK
  <2>2. /\ rec' \in Seq(EventRow) /\ Len(rec') = Len(rec)
        /\ \A j \in 1..Len(rec) : rec'[j] = IF j = 1 THEN event ELSE rec[j]
    BY <1>2, <1>3, <2>1, ExceptSeq
  <2>3. QED
    BY <1>2, <2>1, <2>2, LenProperties
<1>5. ThrottleTypes'
  BY <1>1, <1>4 DEF ThrottleTypes, ThrottleTypeOK, windowVars, emitVars
<1>6. ASSUME NEW k \in Keys
      PROVE  recorded'[k] = Out(k)' + Within(k)' /\ rows'[k] + Coming(k)' <= 2 * opened'[k]
  <2>1. ClosersOf(k)' = ClosersOf(k)
    BY <1>1 DEF ClosersOf
  <2>2. /\ FreshAt(1, k)' = FreshAt(1, k) /\ FreshAt(2, k)' = FreshAt(2, k)
        /\ RowAt(1, k)' = RowAt(1, k) /\ RowAt(2, k)' = RowAt(2, k)
    BY <1>4 DEF FreshAt, RowAt
  <2>3. QED
    BY <1>1, <1>5, <2>1, <2>2, Untouched DEF windowVars, emitVars
<1>7. IdInv'
  BY <1>1 DEF IdInv, windowVars
<1>8. QED
  BY <1>1, <1>5, <1>6, <1>7, WindowsKeep DEF ThrottleInv, KeyInv

LEMMA CloserReadsClockKeeps ==
  ASSUME ThrottleInv, NEW event \in closers, CloserReadsClock(event)
  PROVE  ThrottleInv'
<1> DEFINE rest == closers \ {event}
           read == [event EXCEPT !.second = now]
<1>1. /\ ThrottleTypes /\ KeyInv /\ IdInv
      /\ closers' = rest \cup {read}
      /\ UNCHANGED <<windowVars, rec, now, opened, recorded, emitVars>>
  BY DEF ThrottleInv, CloserReadsClock
<1>2. event \in EventRow /\ read \in EventRow /\ read.key = event.key /\ read.fresh = event.fresh /\ read.id = event.id
  <2>1. event \in EventRow /\ now \in 0..NotRead
    BY <1>1, ThrottleAssumption DEF ThrottleTypes, ThrottleTypeOK, NotRead
  <2>2. QED
    BY <2>1 DEF EventRow
<1> HIDE DEF read
<1>3. read \notin rest
  BY <1>1, <1>2 DEF IdInv
<1>4. Finite(rest) /\ Finite(closers')
  BY <1>1, <1>2, <1>3, AddRow, RemoveRow DEF ThrottleTypes
<1>5. ThrottleTypes'
  <2>1. closers' \subseteq EventRow
    BY <1>1, <1>2 DEF ThrottleTypes, ThrottleTypeOK
  <2>2. Finite(closers)' /\ (closers \subseteq EventRow)'
    BY <1>4, <2>1 DEF Finite, Tells
  <2>3. QED
    BY <1>1, <2>2 DEF ThrottleTypes, ThrottleTypeOK, windowVars, emitVars
<1>6. IdInv'
  BY <1>1, <1>2 DEF IdInv, windowVars
<1>7. ASSUME NEW k \in Keys
      PROVE  recorded'[k] = Out(k)' + Within(k)' /\ rows'[k] + Coming(k)' <= 2 * opened'[k]
  <2> DEFINE own == ClosersOf(k)
             own2 == ClosersOf(k)'
             less == own \ {event}
  <2>1. /\ Cardinality(Tells(own2)) = Cardinality(Tells(own))
        /\ Cardinality(own2) = Cardinality(own)
    <3>1. CASE k = event.key
      <4>1. Finite(own) /\ event \in own /\ read \notin less /\ own2 = less \cup {read}
        <5>1. own \subseteq closers /\ event \in own
          BY <3>1 DEF ClosersOf
        <5>2. read \notin less
          BY <1>3, <5>1
        <5>3. own2 = less \cup {read}
          BY <1>1, <1>2, <3>1 DEF ClosersOf
        <5>4. QED
          BY <1>1, <5>1, <5>2, <5>3, SubsetFinite DEF ThrottleTypes
      <4> HIDE DEF own, own2
      <4>2. /\ Finite(less) /\ Cardinality(own) = Cardinality(less) + 1
            /\ Cardinality(Tells(own)) = Cardinality(Tells(less)) + event.fresh
        BY <1>2, <4>1, RemoveRow
      <4>3. /\ Cardinality(own2) = Cardinality(less) + 1
            /\ Cardinality(Tells(own2)) = Cardinality(Tells(less)) + read.fresh
        <5> HIDE DEF less
        <5>1. QED
          BY <1>2, <4>1, <4>2, AddRow
      <4>4. QED
        BY <1>2, <4>2, <4>3
    <3>2. CASE k # event.key
      BY <1>1, <1>2, <3>2 DEF ClosersOf
    <3>3. QED
      BY <3>1, <3>2
  <2>2. Out(k)' = Out(k) /\ Within(k)' = Within(k) /\ Coming(k)' = Coming(k)
    BY <1>1, <2>1 DEF Out, Within, InFlight, Counted, FreshAt, Coming, RowAt, IsOpen, windowVars, emitVars
  <2>3. QED
    BY <1>1, <2>2 DEF KeyInv, emitVars
<1>8. QED
  BY <1>1, <1>5, <1>6, <1>7, WindowsKeep DEF ThrottleInv, KeyInv

\* A row is emitted or dropped at the ceiling: what it tells first is told or lost.
LEMMA EmitProps ==
  ASSUME ThrottleTypes, NEW event \in EventRow, Emit(event)
  PROVE  /\ rate' \in [second : 0..MaxSecond, count : Nat] /\ droppedRows' \in Nat
         /\ {rows', told', lost'} \subseteq [Keys -> Nat]
         /\ \A k \in Keys : /\ k = event.key => told'[k] + lost'[k] = told[k] + lost[k] + event.fresh
                            /\ k # event.key => told'[k] = told[k] /\ lost'[k] = lost[k] /\ rows'[k] = rows[k]
                            /\ k = event.key => rows'[k] <= rows[k] + 1
<1> DEFINE used == IF event.second = rate.second THEN rate.count ELSE 0
           ok   == GlobalPerSecond = 0 \/ used < GlobalPerSecond
           k    == event.key
<1>1. /\ event.key \in Keys /\ event.fresh \in Nat /\ event.second \in 0..MaxSecond
      /\ rows \in [Keys -> Nat] /\ told \in [Keys -> Nat] /\ lost \in [Keys -> Nat]
      /\ rate \in [second : 0..MaxSecond, count : Nat] /\ droppedRows \in Nat
  <2>1. event.key \in Keys /\ event.fresh \in Nat /\ event.second \in 0..(MaxSecond + 1)
    BY DEF EventRow, Positive, NotRead
  <2>2. event.second # MaxSecond + 1
    BY DEF Emit, NotRead
  <2>3. MaxSecond \in Nat
    BY ThrottleAssumption
  <2>4. event.second \in 0..MaxSecond
    BY <2>1, <2>2, <2>3
  <2>5. /\ rows \in [Keys -> Nat] /\ told \in [Keys -> Nat] /\ lost \in [Keys -> Nat]
        /\ rate \in [second : 0..MaxSecond, count : Nat] /\ droppedRows \in Nat
    BY DEF ThrottleTypes, ThrottleTypeOK
  <2>6. QED
    BY <2>1, <2>4, <2>5
<1>2. /\ rate' = IF GlobalPerSecond = 0 THEN rate
                 ELSE [second |-> event.second, count |-> IF ok THEN used + 1 ELSE used]
      /\ rows' = IF ok THEN [rows EXCEPT ![k] = @ + 1] ELSE rows
      /\ told' = IF ok THEN [told EXCEPT ![k] = @ + event.fresh] ELSE told
      /\ lost' = IF ok THEN lost ELSE [lost EXCEPT ![k] = @ + event.fresh]
      /\ droppedRows' = IF ok THEN droppedRows ELSE droppedRows + 1
  BY DEF Emit
<1>3. used \in Nat
  BY <1>1
<1> HIDE DEF used
<1>4. rate' \in [second : 0..MaxSecond, count : Nat]
  BY <1>1, <1>2, <1>3
<1>5. PICK r \in Nat, t \in Nat, l \in Nat, f \in Nat :
        r = rows[k] /\ t = told[k] /\ l = lost[k] /\ f = event.fresh
  BY <1>1
<1>6. (t + f) + l = t + l + f /\ t + (l + f) = t + l + f /\ r <= r + 1 /\ r + 1 <= r + 1
  OBVIOUS
<1>7. CASE ok
  <2>1. rows' = [rows EXCEPT ![k] = r + 1] /\ told' = [told EXCEPT ![k] = t + f] /\ lost' = lost
    BY <1>2, <1>5, <1>7
  <2>2. r + 1 \in Nat /\ t + f \in Nat /\ droppedRows' \in Nat
    BY <1>1, <1>2, <1>7
  <2> HIDE DEF ok
  <2>3. QED
    BY <1>1, <1>4, <1>5, <1>6, <2>1, <2>2
<1>8. CASE ~ok
  <2>1. rows' = rows /\ told' = told /\ lost' = [lost EXCEPT ![k] = l + f]
    BY <1>2, <1>5, <1>8
  <2>2. l + f \in Nat /\ droppedRows' \in Nat
    BY <1>1, <1>2, <1>8
  <2> HIDE DEF ok
  <2>3. QED
    BY <1>1, <1>4, <1>5, <1>6, <2>1, <2>2
<1>9. QED
  BY <1>7, <1>8

LEMMA RecordEmitsKeeps ==
  ASSUME ThrottleInv, RecordEmits
  PROVE  ThrottleInv'
<1> DEFINE event == rec[1]
<1>1. /\ ThrottleTypes /\ KeyInv /\ IdInv /\ rec # <<>> /\ Emit(event) /\ rec' = Tail(rec)
      /\ UNCHANGED <<windowVars, closers, now, opened, recorded>>
  BY DEF ThrottleInv, RecordEmits
<1>2. event \in EventRow /\ event.fresh \in Nat /\ 1 \in DOMAIN rec
  BY <1>1, RecRows DEF EventRow, Positive
<1>3. /\ rec' \in Seq(EventRow) /\ Len(rec') <= 2
      /\ 2 \notin DOMAIN rec'
      /\ 1 \in DOMAIN rec' <=> 2 \in DOMAIN rec
      /\ 1 \in DOMAIN rec' => rec'[1] = rec[2]
  <2>1. /\ rec' \in Seq(EventRow) /\ Len(rec') = Len(rec) - 1
        /\ \A i \in 1..Len(rec') : rec'[i] = rec[i + 1]
    BY <1>1, HeadTailProperties DEF ThrottleTypes, ThrottleTypeOK
  <2>2. DOMAIN rec' = 1..Len(rec') /\ DOMAIN rec = 1..Len(rec) /\ Len(rec) \in {1, 2}
    BY <1>1, <2>1, RecRows, LenProperties
  <2>3. CASE Len(rec) = 1
    <3>1. Len(rec') = 0 /\ DOMAIN rec' = {} /\ 2 \notin DOMAIN rec
      BY <2>1, <2>2, <2>3
    <3>2. 1 \notin DOMAIN rec' /\ 2 \notin DOMAIN rec' /\ Len(rec') <= 2
      BY <3>1
    <3>3. QED
      BY <2>1, <3>1, <3>2
  <2>4. CASE Len(rec) = 2
    <3>1. Len(rec') = 1 /\ DOMAIN rec' = {1} /\ 2 \in DOMAIN rec /\ 1 + 1 = 2
      BY <2>1, <2>2, <2>4
    <3>2. QED
      BY <2>1, <2>2, <3>1
  <2>5. QED
    BY <2>2, <2>3, <2>4
<1>4. ThrottleTypes'
  BY <1>1, <1>2, <1>3, EmitProps, SMTT(30) DEF ThrottleTypes, ThrottleTypeOK, windowVars
<1>5. ASSUME NEW k \in Keys
      PROVE  recorded'[k] = Out(k)' + Within(k)' /\ rows'[k] + Coming(k)' <= 2 * opened'[k]
  <2>1. FreshAt(1, k)' = FreshAt(2, k) /\ FreshAt(2, k)' = 0 /\ RowAt(1, k)' = RowAt(2, k) /\ RowAt(2, k)' = 0
    BY <1>3 DEF FreshAt, RowAt
  <2>2. /\ k = event.key => FreshAt(1, k) = event.fresh /\ RowAt(1, k) = 1
        /\ k # event.key => FreshAt(1, k) = 0 /\ RowAt(1, k) = 0
    BY <1>2 DEF FreshAt, RowAt
  <2>3. ClosersOf(k)' = ClosersOf(k) /\ Counted(k)' = Counted(k) /\ IsOpen(k)' = IsOpen(k)
    BY <1>1 DEF ClosersOf, Counted, IsOpen, windowVars
  <2>4. PICK g \in Nat, c \in Nat, n \in Nat, f2 \in Nat, r2 \in Nat, o \in Nat, t \in Nat, l \in Nat, r \in Nat :
          /\ g = Cardinality(Tells(ClosersOf(k))) /\ c = Cardinality(ClosersOf(k)) /\ n = Counted(k)
          /\ f2 = FreshAt(2, k) /\ r2 = RowAt(2, k) /\ o = IsOpen(k) /\ t = told[k] /\ l = lost[k] /\ r = rows[k]
    BY <1>1, KeyNaturals
  <2>5. Within(k)' = (f2 + 0 + g) + n /\ Coming(k)' = r2 + 0 + c + o
    BY <2>1, <2>3, <2>4 DEF Within, InFlight, Coming
  <2>6. recorded'[k] = recorded[k] + 0 /\ opened'[k] = opened[k] + 0 /\ recorded[k] + 0 = recorded[k]
    BY <1>1, BooksTypedNow DEF BooksTyped
  <2>7. CASE k = event.key
    <3>1. PICK f \in Nat : f = event.fresh
      BY <1>2
    <3>2. Within(k) = (f + f2 + g) + n /\ Coming(k) = 1 + r2 + c + o
      BY <2>2, <2>4, <2>7, <3>1 DEF Within, InFlight, Coming
    <3>3. Within(k)' + f = Within(k) + 0
      BY <2>5, <3>2
    <3>4. Out(k)' = Out(k) + f
      BY <1>1, <1>2, <2>7, <3>1, EmitProps DEF Out
    <3>5. recorded'[k] = Out(k)' + Within(k)'
      BY <1>1, <1>4, <2>6, <3>3, <3>4, Balance
    <3>6. rows'[k] <= rows[k] + 1
      BY <1>1, <1>2, <2>7, EmitProps
    <3>7. Coming(k)' + 1 <= Coming(k) + 2 * 0
      BY <2>5, <3>2
    <3>8. QED
      BY <1>1, <1>4, <2>6, <3>5, <3>6, <3>7, RowsBalance
  <2>8. CASE k # event.key
    <3>1. Within(k) = (0 + f2 + g) + n /\ Coming(k) = 0 + r2 + c + o
      BY <2>2, <2>4, <2>8 DEF Within, InFlight, Coming
    <3>2. Within(k)' = Within(k) /\ Coming(k)' = Coming(k)
      BY <2>5, <3>1
    <3>3. Out(k)' = Out(k) /\ rows'[k] = rows[k]
      BY <1>1, <1>2, <2>8, EmitProps DEF Out
    <3>4. QED
      BY <1>1, <3>2, <3>3 DEF KeyInv
  <2>9. QED
    BY <2>7, <2>8
<1>6. IdInv'
  BY <1>1 DEF IdInv, windowVars
<1>7. QED
  BY <1>1, <1>4, <1>5, <1>6, WindowsKeep DEF ThrottleInv, KeyInv

LEMMA CloserEmitsKeeps ==
  ASSUME ThrottleInv, NEW event \in closers, CloserEmits(event)
  PROVE  ThrottleInv'
<1>1. /\ ThrottleTypes /\ KeyInv /\ IdInv /\ Emit(event) /\ closers' = closers \ {event}
      /\ UNCHANGED <<windowVars, rec, now, opened, recorded>>
  BY DEF ThrottleInv, CloserEmits
<1>2. event \in EventRow /\ event.fresh \in Nat
  BY <1>1 DEF ThrottleTypes, ThrottleTypeOK, EventRow, Positive
<1>3. ThrottleTypes'
  <2>1. closers' \subseteq EventRow /\ Finite(closers')
    BY <1>1, SubsetFinite DEF ThrottleTypes, ThrottleTypeOK
  <2>2. Finite(closers)' /\ (closers \subseteq EventRow)'
    BY <2>1 DEF Finite, Tells
  <2>3. QED
    BY <1>1, <1>2, <2>2, EmitProps DEF ThrottleTypes, ThrottleTypeOK, windowVars
<1>4. IdInv'
  BY <1>1 DEF IdInv, windowVars
<1>5. ASSUME NEW k \in Keys
      PROVE  recorded'[k] = Out(k)' + Within(k)' /\ rows'[k] + Coming(k)' <= 2 * opened'[k]
  <2> DEFINE own == ClosersOf(k)
             own2 == ClosersOf(k)'
  <2>1. /\ FreshAt(1, k)' = FreshAt(1, k) /\ FreshAt(2, k)' = FreshAt(2, k)
        /\ RowAt(1, k)' = RowAt(1, k) /\ RowAt(2, k)' = RowAt(2, k)
        /\ Counted(k)' = Counted(k) /\ IsOpen(k)' = IsOpen(k)
    BY <1>1 DEF FreshAt, RowAt, Counted, IsOpen, windowVars
  <2>2. PICK g \in Nat, c \in Nat, n \in Nat, f1 \in Nat, f2 \in Nat, r1 \in Nat, r2 \in Nat, o \in Nat :
          /\ g = Cardinality(Tells(own)) /\ c = Cardinality(own) /\ n = Counted(k)
          /\ f1 = FreshAt(1, k) /\ f2 = FreshAt(2, k) /\ r1 = RowAt(1, k) /\ r2 = RowAt(2, k) /\ o = IsOpen(k)
    BY <1>1, KeyNaturals
  <2>3. recorded'[k] = recorded[k] + 0 /\ opened'[k] = opened[k] + 0
    BY <1>1, BooksTypedNow DEF BooksTyped
  <2>4. Within(k) = (f1 + f2 + g) + n /\ Coming(k) = r1 + r2 + c + o
    BY <2>2 DEF Within, InFlight, Coming
  <2>5. CASE k = event.key
    <3>1. Finite(own) /\ event \in own /\ own2 = own \ {event}
      <4>1. own \subseteq closers /\ event \in own /\ own2 = own \ {event}
        BY <1>1, <2>5 DEF ClosersOf
      <4>2. QED
        BY <1>1, <4>1, SubsetFinite DEF ThrottleTypes
    <3>2. Within(k)' = (f1 + f2 + Cardinality(Tells(own2))) + n /\ Coming(k)' = r1 + r2 + Cardinality(own2) + o
      BY <2>1, <2>2 DEF Within, InFlight, Coming
    <3> HIDE DEF own, own2
    <3>3. /\ Cardinality(own) = Cardinality(own2) + 1
          /\ Cardinality(Tells(own)) = Cardinality(Tells(own2)) + event.fresh
          /\ Cardinality(own2) \in Nat /\ Cardinality(Tells(own2)) \in Nat
      BY <1>2, <3>1, RemoveRow, RowsCount
    <3>4. PICK g2 \in Nat, c2 \in Nat, f \in Nat :
            g2 = Cardinality(Tells(own2)) /\ c2 = Cardinality(own2) /\ f = event.fresh
      BY <1>2, <3>3
    <3>5. g = g2 + f /\ c = c2 + 1
      BY <2>2, <3>3, <3>4
    <3>6. Within(k)' + f = Within(k) + 0 /\ Coming(k)' + 1 <= Coming(k) + 2 * 0
      <4>1. Within(k)' = (f1 + f2 + g2) + n /\ Coming(k)' = r1 + r2 + c2 + o
        BY <3>2, <3>4
      <4>2. QED
        BY <2>4, <3>5, <4>1
    <3>7. Out(k)' = Out(k) + f /\ rows'[k] <= rows[k] + 1
      BY <1>1, <1>2, <2>5, <3>4, EmitProps DEF Out
    <3>8. recorded'[k] = Out(k)' + Within(k)'
      BY <1>1, <1>3, <2>3, <3>6, <3>7, Balance
    <3>9. QED
      BY <1>1, <1>3, <2>3, <3>6, <3>7, <3>8, RowsBalance
  <2>6. CASE k # event.key
    <3>1. own2 = own
      BY <1>1, <2>6 DEF ClosersOf
    <3>2. Within(k)' = Within(k) /\ Coming(k)' = Coming(k)
      BY <2>1, <3>1 DEF Within, InFlight, Coming
    <3>3. Out(k)' = Out(k) /\ rows'[k] = rows[k]
      BY <1>1, <1>2, <2>6, EmitProps DEF Out
    <3>4. QED
      BY <1>1, <3>2, <3>3 DEF KeyInv
  <2>7. QED
    BY <2>5, <2>6
<1>6. QED
  BY <1>1, <1>3, <1>4, <1>5, WindowsKeep DEF ThrottleInv, KeyInv
-----------------------------------------------------------------------------
LEMMA ThrottleInitInv == ThrottleInit => ThrottleInv
<1> SUFFICES ASSUME ThrottleInit PROVE ThrottleInv
  OBVIOUS
<1>1. <<>> \in Seq(Signatures) /\ <<>> \in Seq(EventRow) /\ Len(<<>>) = 0 /\ DOMAIN <<>> = {}
  BY EmptySeq
<1>2. DOMAIN win = {} /\ win = [k \in {} |-> 0]
  BY DEF ThrottleInit
<1>3. ThrottleTypes
  <2>1. win \in [DOMAIN win -> [id : Positive, count : Positive]]
    BY <1>2
  <2>2. QED
    BY <1>1, <1>2, <2>1, NoRows, ThrottleAssumption DEF ThrottleInit, ThrottleTypes, ThrottleTypeOK
<1>4. ListsInv
  BY <1>1, <1>2, ThrottleAssumption DEF ThrottleInit, ListsInv, Distinct, SeqRange
<1>5. EveryWindowWillClose /\ IdInv
  BY <1>2 DEF ThrottleInit, EveryWindowWillClose, IdInv
<1>6. ASSUME NEW k \in Keys PROVE recorded[k] = Out(k) + Within(k) /\ rows[k] + Coming(k) <= 2 * opened[k]
  <2>1. Cardinality(Tells(ClosersOf(k))) = 0 /\ Cardinality(ClosersOf(k)) = 0
    <3>1. ClosersOf(k) = {}
      BY DEF ThrottleInit, ClosersOf
    <3>2. QED
      BY <3>1, NoRows
  <2>2. FreshAt(1, k) = 0 /\ FreshAt(2, k) = 0 /\ RowAt(1, k) = 0 /\ RowAt(2, k) = 0
    BY <1>1 DEF ThrottleInit, FreshAt, RowAt
  <2>3. Counted(k) = 0 /\ IsOpen(k) = 0
    BY <1>2 DEF Counted, IsOpen
  <2>4. Within(k) = 0 /\ Coming(k) = 0
    BY <2>1, <2>2, <2>3 DEF Within, InFlight, Coming
  <2>5. recorded[k] = 0 /\ Out(k) = 0 /\ rows[k] = 0 /\ opened[k] = 0
    BY DEF ThrottleInit, Out
  <2>6. QED
    BY <2>4, <2>5
<1>7. QED
  BY <1>3, <1>4, <1>5, <1>6 DEF ThrottleInv, KeyInv

LEMMA ThrottleInvIsSound == ThrottleInv => ThrottleSound
<1> SUFFICES ASSUME ThrottleInv PROVE ThrottleSound
  OBVIOUS
<1>1. ThrottleTypes /\ ListsInv /\ KeyInv
  BY DEF ThrottleInv
<1>2. ListsMatchWindows
  <2>1. DOMAIN win = {k \in Keys : k[2] \in SeqRange(lru[k[1]])}
    <3>1. ASSUME NEW k \in Keys PROVE k \in DOMAIN win <=> k[2] \in SeqRange(lru[k[1]])
      <4>1. <<k[1], k[2]>> \in DOMAIN win <=> k[2] \in SeqRange(lru[k[1]])
        BY <1>1, KeyParts DEF ListsInv
      <4>2. QED
        BY <4>1, KeyParts
    <3>2. QED
      BY <1>1, <3>1 DEF ThrottleTypes, ThrottleTypeOK
  <2>2. ASSUME NEW a \in Agents
        PROVE  Len(lru[a]) <= PerAgentCap /\ Cardinality(SeqRange(lru[a])) = Len(lru[a])
    BY <1>1, DistinctCardinality DEF ListsInv, ThrottleTypes, ThrottleTypeOK
  <2>3. QED
    BY <2>1, <2>2 DEF ListsMatchWindows
<1>3. ASSUME NEW k \in Keys
      PROVE  /\ recorded[k] = told[k] + lost[k] + InFlight(k) + Counted(k)
             /\ rows[k] <= 2 * opened[k]
  <2>1. PICK t \in Nat, l \in Nat, f \in Nat, n \in Nat, r \in Nat, c \in Nat, o \in Nat :
          /\ t = told[k] /\ l = lost[k] /\ f = InFlight(k) /\ n = Counted(k)
          /\ r = rows[k] /\ c = Coming(k) /\ o = opened[k]
    BY <1>1, KeyNaturals
  <2>2. recorded[k] = (t + l) + (f + n) /\ r + c <= 2 * o
    BY <1>1, <2>1 DEF KeyInv, Out, Within
  <2>3. recorded[k] = t + l + f + n /\ r <= 2 * o
    BY <2>2
  <2>4. QED
    BY <2>1, <2>3
<1>4. EveryOccurrenceAccounted /\ TwoRowsPerWindow
  BY <1>3 DEF EveryOccurrenceAccounted, TwoRowsPerWindow
<1>5. QED
  BY <1>1, <1>2, <1>4 DEF ThrottleInv, ThrottleTypes, ThrottleSound

LEMMA ThrottleStep == ThrottleInv /\ [ThrottleNext]_throttleVars => ThrottleInv'
<1> SUFFICES ASSUME ThrottleInv, [ThrottleNext]_throttleVars PROVE ThrottleInv'
  OBVIOUS
<1>1. CASE \E k \in Keys : RecordViolation(k)
  BY <1>1, CountRepeatKeeps, OpenWindowKeeps, OpenWindowEvictingKeeps DEF RecordViolation
<1>2. CASE Finish
  BY <1>2, RecordReadsClockKeeps, RecordEmitsKeeps DEF Finish
<1>3. CASE \E event \in closers : Closer(event)
  BY <1>3, CloserReadsClockKeeps, CloserEmitsKeeps DEF Closer
<1>4. CASE \E timer \in fired : CloseWindow(timer)
  BY <1>4, CloseWindowKeeps
<1>5. CASE \/ \E timer \in armed : Fire(timer)
           \/ \E timer \in fired : CloseNothing(timer)
           \/ Tick \/ UNCHANGED throttleVars
  BY <1>5, TimerStepKeeps
<1>6. QED
  BY <1>1, <1>2, <1>3, <1>4, <1>5 DEF ThrottleNext, ThrottleWork

\* However Record, the timers' callbacks and tryEmit interleave, evictions, late callbacks
\* and the ceiling included: the lists match the windows and no agent has more than its cap,
\* every open window will be closed, each occurrence recorded is in exactly one row, open
\* window or drop, and a key's rows are at most two a window (Throttler.Record, closeWindow,
\* evictOldest, tryEmit).
THEOREM ThrottleIsSound == ThrottleSpec => []ThrottleSound
<1>1. ThrottleSpec => []ThrottleInv
  BY ThrottleInitInv, ThrottleStep, PTL DEF ThrottleSpec
<1>2. QED
  BY <1>1, ThrottleInvIsSound, PTL

-----------------------------------------------------------------------------
(* Configuration reload *)

Reloads == {"memberships", "agents", "missions", "layouts", "mappings", "schemas", "enabled"}

\* The tables an edit has still to replace.
TablesOfReloads(list) == UNION {Range(Replaces(list[i])) : i \in DOMAIN list}
Pending(e) == Range(edit[e].todo) \cup TablesOfReloads(edit[e].reloads)

\* The numbers of edits add up, as NextEdit says.
EditsSoFar ==
  db["agents"] + db["missions"] + db["agent_layouts"] + db["agent_groups"] + db["telemetry_settings"]

ReloadTypes ==
  /\ db \in [Collections -> Nat] /\ EditsSoFar <= MaxEdits
  /\ loaded \in [Tables -> Versions]
  /\ groupHash = HashesOf(loaded["schemas"])
  /\ edit \in [Edits -> [coll : Collections, reloads : Seq(Reloads), todo : Seq(Tables), snap : Versions]]
  /\ disturbed \subseteq Collections /\ touched \in BOOLEAN
  /\ msg \in [pc : {"idle", "validate", "group", "enabled", "resolve", "mapping", "row"},
              checked : Hashes \cup {NoSchema}, group : Groups \cup {NoGroup},
              stored : Hashes \cup {NoSchema}, mapping : Versions]

\* An edit not made yet has nothing to do; one that is under way replaces its own tables.
EditsInv ==
  /\ \A e \in Edits : e > EditsSoFar => ~Active(e)
  /\ \A e \in Edits : Pending(e) \subseteq TablesOf(edit[e].coll)

\* Of a collection that is not disturbed at most one edit is under way; what it has read is
\* the last version, which every table it does not replace any more has.
QuietInv ==
  \A c \in Collections \ disturbed :
    /\ \A e, f \in Edits : (Active(e) /\ Active(f) /\ edit[e].coll = c /\ edit[f].coll = c) => e = f
    /\ \A e \in Edits : (edit[e].coll = c /\ edit[e].todo # <<>>) => edit[e].snap = db[c]
    /\ \A t \in TablesOf(c) : loaded[t] = db[c] \/ \E e \in Edits : edit[e].coll = c /\ t \in Pending(e)

\* What the consumer has looked up is what it would find now, if no table was replaced.
LookedUpInv ==
  ~touched =>
    /\ msg.pc \in {"group", "enabled", "resolve", "mapping", "row"} => msg.checked = Resolve
    /\ msg.pc \in {"enabled", "resolve", "mapping", "row"} => msg.group = GroupID /\ msg.group # NoGroup
    /\ msg.pc \in {"resolve", "mapping", "row"} => msg.group \in EnabledIn[loaded["enabled"]]
    /\ msg.pc \in {"mapping", "row"} => msg.stored = Resolve

\* The inductive invariant of the live configuration.
ReloadInv == ReloadTypes /\ EditsInv /\ QuietInv /\ CacheServesGroups /\ LookedUpInv
-----------------------------------------------------------------------------
LEMMA RangesOfLists ==
  /\ \A a : Range(<<a>>) = {a} /\ TablesOfReloads(<<a>>) = Range(Replaces(a))
  /\ \A a, b : Range(<<a, b>>) = {a, b} /\ TablesOfReloads(<<a, b>>) = Range(Replaces(a)) \cup Range(Replaces(b))
<1>1. ASSUME NEW a PROVE Range(<<a>>) = {a} /\ TablesOfReloads(<<a>>) = Range(Replaces(a))
  <2>1. DOMAIN <<a>> = {1} /\ <<a>>[1] = a
      OBVIOUS
  <2>2. QED
      BY <2>1 DEF Range, TablesOfReloads
<1>2. ASSUME NEW a, NEW b
      PROVE  Range(<<a, b>>) = {a, b} /\ TablesOfReloads(<<a, b>>) = Range(Replaces(a)) \cup Range(Replaces(b))
  <2>1. DOMAIN <<a, b>> = {1, 2} /\ <<a, b>>[1] = a /\ <<a, b>>[2] = b
      OBVIOUS
  <2>2. QED
      BY <2>1 DEF Range, TablesOfReloads
<1>3. QED
    BY <1>1, <1>2

LEMMA ShortLists ==
  ASSUME NEW S, NEW a \in S, NEW b \in S
  PROVE  <<a>> \in Seq(S) /\ <<a>> # <<>> /\ <<a, b>> \in Seq(S) /\ <<a, b>> # <<>>
OBVIOUS

LEMMA TablesOfEachReload ==
  /\ Range(Replaces("agents")) = {"agentTokens", "allowedAgents"}
  /\ Range(Replaces("missions")) = {"missionTokens", "allowedMissions"}
  /\ \A r \in Reloads \ {"agents", "missions"} : Range(Replaces(r)) = {r}
<1>1. /\ Replaces("agents") = <<"agentTokens", "allowedAgents">>
      /\ Replaces("missions") = <<"missionTokens", "allowedMissions">>
      /\ \A r \in Reloads \ {"agents", "missions"} : Replaces(r) = <<r>>
    BY DEF Replaces
<1>2. QED
    BY <1>1, RangesOfLists

\* Which tables are whose.
LEMMA TablesByCollection ==
  /\ TablesOf("agents") = {"memberships", "agentTokens", "allowedAgents"}
  /\ TablesOf("missions") = {"missionTokens", "allowedMissions"}
  /\ TablesOf("agent_layouts") = {"layouts"}
  /\ TablesOf("agent_groups") = {"mappings", "schemas"}
  /\ TablesOf("telemetry_settings") = {"enabled"}
<1>1. /\ Bound("agents") = <<"memberships", "agents">> /\ Bound("missions") = <<"missions">>
      /\ Bound("agent_layouts") = <<"layouts">> /\ Bound("agent_groups") = <<"mappings", "schemas">>
      /\ Bound("telemetry_settings") = <<"enabled">>
    BY DEF Bound
<1>2. /\ TablesOf("agents") = Range(Replaces("memberships")) \cup Range(Replaces("agents"))
      /\ TablesOf("agent_groups") = Range(Replaces("mappings")) \cup Range(Replaces("schemas"))
      /\ TablesOf("missions") = Range(Replaces("missions")) /\ TablesOf("agent_layouts") = Range(Replaces("layouts"))
      /\ TablesOf("telemetry_settings") = Range(Replaces("enabled"))
    BY <1>1, RangesOfLists DEF TablesOf
<1>3. QED
    BY <1>2, TablesOfEachReload DEF Reloads

LEMMA TablesAreDisjoint ==
  /\ \A c, d \in Collections : c # d => TablesOf(c) \cap TablesOf(d) = {}
  /\ Tables = {"memberships", "agentTokens", "allowedAgents", "missionTokens", "allowedMissions",
               "layouts", "mappings", "schemas", "enabled"}
  /\ \A c \in Collections : TablesOf(c) \subseteq Tables
<1>1. \A c, d \in Collections : c # d => TablesOf(c) \cap TablesOf(d) = {}
    BY TablesByCollection DEF Collections
<1>2. Tables = TablesOf("agents") \cup TablesOf("missions") \cup TablesOf("agent_layouts")
                \cup TablesOf("agent_groups") \cup TablesOf("telemetry_settings")
    BY DEF Tables, Collections
<1>3. QED
    BY <1>1, <1>2, TablesByCollection DEF Collections

\* What a reload replaces is a list of tables.
LEMMA ReplacesTables ==
  ASSUME NEW r \in Reloads
  PROVE  Replaces(r) \in Seq(Tables) /\ Replaces(r) # <<>>
<1>1. \/ r = "agents" /\ Replaces(r) = <<"agentTokens", "allowedAgents">>
      \/ r = "missions" /\ Replaces(r) = <<"missionTokens", "allowedMissions">>
      \/ r \in Reloads \ {"agents", "missions"} /\ Replaces(r) = <<r>>
    BY DEF Replaces
<1>2. Reloads \ {"agents", "missions"} \subseteq Tables
    BY TablesAreDisjoint DEF Reloads
<1>3. CASE r = "agents"
    BY <1>1, <1>3, TablesAreDisjoint, ShortLists, Zenon
<1>4. CASE r = "missions"
    BY <1>1, <1>4, TablesAreDisjoint, ShortLists, Zenon
<1>5. CASE r \in Reloads \ {"agents", "missions"}
    BY <1>1, <1>2, <1>5, ShortLists, Zenon
<1>6. QED
    BY <1>3, <1>4, <1>5

LEMMA BoundReloads ==
  ASSUME NEW c \in Collections
  PROVE  /\ Bound(c) \in Seq(Reloads) /\ Bound(c) # <<>>
         /\ TablesOfReloads(Bound(c)) = TablesOf(c)
<1>1. /\ Bound("agents") = <<"memberships", "agents">> /\ Bound("missions") = <<"missions">>
      /\ Bound("agent_layouts") = <<"layouts">> /\ Bound("agent_groups") = <<"mappings", "schemas">>
      /\ Bound("telemetry_settings") = <<"enabled">>
    BY DEF Bound
<1>2. \/ \E r \in Reloads : Bound(c) = <<r>>
      \/ \E r, q \in Reloads : Bound(c) = <<r, q>>
    BY <1>1, Zenon DEF Collections, Reloads
<1>3. CASE \E r \in Reloads : Bound(c) = <<r>>
  <2>1. PICK r \in Reloads : Bound(c) = <<r>>
      BY <1>3
  <2>2. UNION {Range(Replaces(q)) : q \in {r}} = Range(Replaces(r))
      OBVIOUS
  <2>3. QED
    <3>1. TablesOfReloads(Bound(c)) = TablesOf(c)
        BY <2>1, <2>2, RangesOfLists, Zenon DEF TablesOf
    <3>2. Bound(c) \in Seq(Reloads) /\ Bound(c) # <<>>
        BY <2>1, ShortLists, Zenon
    <3>3. QED
        BY <3>1, <3>2
<1>4. CASE \E r, q \in Reloads : Bound(c) = <<r, q>>
  <2>1. PICK r \in Reloads, q \in Reloads : Bound(c) = <<r, q>>
      BY <1>4
  <2>2. UNION {Range(Replaces(x)) : x \in {r, q}} = Range(Replaces(r)) \cup Range(Replaces(q))
      OBVIOUS
  <2>3. /\ Range(Bound(c)) = {r, q}
        /\ TablesOfReloads(Bound(c)) = Range(Replaces(r)) \cup Range(Replaces(q))
      BY <2>1, RangesOfLists
  <2>4. TablesOf(c) = Range(Replaces(r)) \cup Range(Replaces(q))
      BY <2>2, <2>3 DEF TablesOf
  <2>5. QED
      BY <2>1, <2>3, <2>4, ShortLists
<1>5. QED
    BY <1>2, <1>3, <1>4

\* Taking the first of a list.
LEMMA RangeOfTail ==
  ASSUME NEW S, NEW s \in Seq(S), s # <<>>
  PROVE  /\ Range(s) = {Head(s)} \cup Range(Tail(s))
         /\ TablesOfReloads(s) = Range(Replaces(Head(s))) \cup TablesOfReloads(Tail(s))
<1>1. /\ Len(s) \in Nat \ {0} /\ Len(Tail(s)) = Len(s) - 1 /\ Head(s) = s[1]
      /\ \A i \in 1..Len(Tail(s)) : Tail(s)[i] = s[i + 1]
      /\ DOMAIN s = 1..Len(s) /\ DOMAIN Tail(s) = 1..Len(Tail(s))
    BY HeadTailProperties, LenProperties, EmptySeq
<1>2. \A i \in 1..Len(s) : i = 1 \/ (i - 1 \in 1..Len(Tail(s)) /\ s[i] = Tail(s)[i - 1])
    BY <1>1
<1>3. Range(s) = {Head(s)} \cup Range(Tail(s))
  <2>1. ASSUME NEW i \in 1..Len(s) PROVE s[i] \in {Head(s)} \cup Range(Tail(s))
      BY <1>1, <1>2 DEF Range
  <2>2. ASSUME NEW i \in 1..Len(Tail(s)) PROVE Tail(s)[i] \in Range(s)
    <3>1. i + 1 \in 1..Len(s)
        BY <1>1
    <3>2. QED
        BY <1>1, <3>1 DEF Range
  <2>3. Head(s) \in Range(s)
      BY <1>1 DEF Range
  <2>4. QED
      BY <1>1, <2>1, <2>2, <2>3 DEF Range
<1>4. TablesOfReloads(s) = Range(Replaces(Head(s))) \cup TablesOfReloads(Tail(s))
  <2>1. \A t : t \in TablesOfReloads(s) <=> \E i \in 1..Len(s) : t \in Range(Replaces(s[i]))
      BY <1>1 DEF TablesOfReloads
  <2>2. \A t : t \in TablesOfReloads(Tail(s)) <=> \E i \in 1..Len(Tail(s)) : t \in Range(Replaces(Tail(s)[i]))
      BY <1>1 DEF TablesOfReloads
  <2>3. ASSUME NEW t, t \in TablesOfReloads(s)
        PROVE  t \in Range(Replaces(Head(s))) \cup TablesOfReloads(Tail(s))
    <3>1. PICK i \in 1..Len(s) : t \in Range(Replaces(s[i]))
        BY <2>1, <2>3
    <3>2. CASE i = 1
        BY <1>1, <3>1, <3>2
    <3>3. CASE i - 1 \in 1..Len(Tail(s)) /\ s[i] = Tail(s)[i - 1]
        BY <2>2, <3>1, <3>3
    <3>4. QED
        BY <1>2, <3>2, <3>3
  <2>4. ASSUME NEW t, t \in TablesOfReloads(Tail(s)) PROVE t \in TablesOfReloads(s)
    <3>1. PICK i \in 1..Len(Tail(s)) : t \in Range(Replaces(Tail(s)[i]))
        BY <2>2, <2>4
    <3>2. i + 1 \in 1..Len(s) /\ t \in Range(Replaces(s[i + 1]))
        BY <1>1, <3>1
    <3>3. QED
        BY <2>1, <3>2
  <2>5. ASSUME NEW t, t \in Range(Replaces(Head(s))) PROVE t \in TablesOfReloads(s)
    <3>1. 1 \in 1..Len(s)
        BY <1>1
    <3>2. QED
        BY <1>1, <2>1, <2>5, <3>1
  <2>6. QED
      BY <2>3, <2>4, <2>5
<1>5. QED
    BY <1>3, <1>4

\* An edit with nothing left is over, one with something left is under way.
LEMMA PendingIsActive ==
  ASSUME ReloadTypes, NEW e \in Edits
  PROVE  ~Active(e) => Pending(e) = {}
BY EmptySeq DEF Active, Pending, Range, TablesOfReloads

LEMMA HashesOfTypes ==
  ASSUME NEW v \in Versions
  PROVE  DOMAIN HashesOf(v) \subseteq Groups /\ Range(HashesOf(v)) \subseteq Hashes
BY DEF HashesOf, Range

LEMMA ReloadInvIsEnough == ReloadInv => ReloadSound
<1> SUFFICES ASSUME ReloadInv PROVE ReloadSound
    OBVIOUS
<1> USE ReloadAssumption DEF ReloadInv
<1>1. db \in [Collections -> Versions]
  <2>1. /\ db["agents"] \in Nat /\ db["missions"] \in Nat /\ db["agent_layouts"] \in Nat
        /\ db["agent_groups"] \in Nat /\ db["telemetry_settings"] \in Nat
      BY DEF ReloadTypes, Collections
  <2>2. \A c \in Collections : db[c] <= MaxEdits
      BY <2>1 DEF ReloadTypes, EditsSoFar, Collections
  <2>3. QED
      BY <2>2 DEF ReloadTypes, Versions
<1>2. loaded["schemas"] \in Versions
    BY TablesAreDisjoint DEF ReloadTypes
<1>3. ReloadTypeOK
    BY <1>1, <1>2, HashesOfTypes DEF ReloadTypes, ReloadTypeOK, EditsInv, Pending, CacheServesGroups
<1>4. EditsTakeEffect
  <2> SUFFICES ASSUME NEW c \in Collections, ~Busy(c), c \notin disturbed, NEW t \in TablesOf(c)
               PROVE  loaded[t] = db[c]
      BY DEF EditsTakeEffect
  <2>1. \A e \in Edits : edit[e].coll = c => Pending(e) = {}
      BY PendingIsActive DEF Busy
  <2>2. QED
      BY <2>1 DEF QuietInv
<1>5. RowsAreCoherent
  <2> SUFFICES ASSUME msg.pc = "row", ~touched
               PROVE  /\ msg.checked = msg.stored
                      /\ msg.group = MemberOf[loaded["memberships"]] /\ msg.group \in EnabledIn[loaded["enabled"]]
                      /\ msg.stored = (IF msg.group \in DOMAIN groupHash THEN groupHash[msg.group] ELSE NoSchema)
      BY DEF RowsAreCoherent
  <2>1. msg.checked = Resolve /\ msg.stored = Resolve /\ msg.group = GroupID /\ msg.group \in EnabledIn[loaded["enabled"]]
      BY DEF LookedUpInv
  <2>2. GroupID \in DOMAIN groupHash => groupHash[GroupID] \in compiled
      BY DEF CacheServesGroups, Range
  <2>3. QED
      BY <2>1, <2>2 DEF Resolve, GroupID
<1>6. QED
    BY <1>3, <1>4, <1>5 DEF ReloadSound

LEMMA ReloadInitInv == ReloadInit => ReloadInv
<1> SUFFICES ASSUME ReloadInit PROVE ReloadInv
    OBVIOUS
<1> USE ReloadAssumption DEF ReloadInit
<1>1. \A e \in Edits : edit[e] = NoEdit /\ ~Active(e)
    BY DEF Active, NoEdit
<1>2. EditsSoFar = 0
    BY DEF EditsSoFar, Collections
<1>3. ReloadTypes
  <2>1. NoEdit \in [coll : Collections, reloads : Seq(Reloads), todo : Seq(Tables), snap : Versions]
      BY EmptySeq DEF NoEdit, Collections, Versions
  <2>2. loaded \in [Tables -> Versions] /\ loaded["schemas"] = 0
      BY TablesAreDisjoint DEF Versions
  <2>3. db \in [Collections -> Nat] /\ EditsSoFar <= MaxEdits
      BY <1>2
  <2>4. msg \in [pc : {"idle", "validate", "group", "enabled", "resolve", "mapping", "row"},
                 checked : Hashes \cup {NoSchema}, group : Groups \cup {NoGroup},
                 stored : Hashes \cup {NoSchema}, mapping : Versions]
      BY DEF NoReport, Versions
  <2>5. QED
      BY <2>1, <2>2, <2>3, <2>4 DEF ReloadTypes
<1>4. EditsInv
    BY <1>1, <1>3, PendingIsActive DEF EditsInv
<1>5. QuietInv
    BY <1>1, <1>3, TablesAreDisjoint DEF QuietInv, NoEdit
<1>6. CacheServesGroups /\ LookedUpInv
    BY DEF CacheServesGroups, LookedUpInv, NoReport
<1>7. QED
    BY <1>3, <1>4, <1>5, <1>6 DEF ReloadInv

\* A table is replaced by the version its edit has read.
LEMMA InstallKeeps ==
  ASSUME ReloadInv, NEW e \in Edits, edit[e].todo # <<>>,
         loaded' = [loaded EXCEPT ![Head(edit[e].todo)] = edit[e].snap],
         edit' = [edit EXCEPT ![e].todo = Tail(@)],
         db' = db, disturbed' = disturbed
  PROVE  /\ loaded' \in [Tables -> Versions]
         /\ edit' \in [Edits -> [coll : Collections, reloads : Seq(Reloads), todo : Seq(Tables), snap : Versions]]
         /\ EditsInv' /\ QuietInv'
<1> DEFINE h == Head(edit[e].todo)
<1>0. ReloadTypes /\ EditsInv /\ QuietInv
    BY DEF ReloadInv
<1>1. /\ edit[e] \in [coll : Collections, reloads : Seq(Reloads), todo : Seq(Tables), snap : Versions]
      /\ loaded \in [Tables -> Versions]
    BY <1>0 DEF ReloadTypes
<1>2. h \in Tables /\ Tail(edit[e].todo) \in Seq(Tables) /\ Range(edit[e].todo) = {h} \cup Range(Tail(edit[e].todo))
    BY <1>1, HeadTailProperties, RangeOfTail
<1>3. h \in TablesOf(edit[e].coll)
    BY <1>0, <1>2 DEF EditsInv, Pending
<1>4. edit' \in [Edits -> [coll : Collections, reloads : Seq(Reloads), todo : Seq(Tables), snap : Versions]]
    BY <1>0, <1>1, <1>2 DEF ReloadTypes
<1>5. /\ \A f \in Edits : f # e => edit'[f] = edit[f]
      /\ edit'[e].coll = edit[e].coll /\ edit'[e].reloads = edit[e].reloads
      /\ edit'[e].todo = Tail(edit[e].todo) /\ edit'[e].snap = edit[e].snap
    BY <1>0, <1>1 DEF ReloadTypes
<1>6. loaded' \in [Tables -> Versions] /\ loaded'[h] = edit[e].snap /\ \A t \in Tables : t # h => loaded'[t] = loaded[t]
    BY <1>1, <1>2
<1> HIDE DEF h
<1>7. \A f \in Edits : f # e => Pending(f)' = Pending(f) /\ (Active(f)' <=> Active(f))
    BY <1>5 DEF Pending, Active
<1>8. Pending(e) = {h} \cup Pending(e)' /\ Active(e)
    BY <1>2, <1>5 DEF Pending, Active
<1>9. EditsInv'
    BY <1>0, <1>5, <1>7, <1>8 DEF EditsInv, EditsSoFar
<1>10. QuietInv'
  <2> SUFFICES ASSUME NEW c \in Collections, c \notin disturbed
               PROVE  /\ \A f, g \in Edits : (Active(f)' /\ Active(g)' /\ edit'[f].coll = c /\ edit'[g].coll = c) => f = g
                      /\ \A f \in Edits : (edit'[f].coll = c /\ edit'[f].todo # <<>>) => edit'[f].snap = db[c]
                      /\ \A t \in TablesOf(c) : loaded'[t] = db[c] \/ \E f \in Edits : edit'[f].coll = c /\ t \in Pending(f)'
      BY DEF QuietInv
  <2>1. \A f, g \in Edits : (Active(f)' /\ Active(g)' /\ edit'[f].coll = c /\ edit'[g].coll = c) => f = g
      BY <1>0, <1>5, <1>7, <1>8 DEF QuietInv
  <2>2. \A f \in Edits : (edit'[f].coll = c /\ edit'[f].todo # <<>>) => edit'[f].snap = db[c]
      BY <1>0, <1>5 DEF QuietInv
  <2>3. ASSUME NEW t \in TablesOf(c)
        PROVE  loaded'[t] = db[c] \/ \E f \in Edits : edit'[f].coll = c /\ t \in Pending(f)'
    <3>1. t \in Tables
        BY TablesAreDisjoint
    <3>2. CASE t = h
      <4>1. edit[e].coll = c
          BY <1>1, <1>3, <3>2, TablesAreDisjoint
      <4>2. edit[e].snap = db[c]
          BY <1>0, <4>1 DEF QuietInv
      <4>3. QED
          BY <1>6, <3>2, <4>2
    <3>3. CASE t # h
      <4>1. loaded'[t] = loaded[t]
          BY <1>6, <3>1, <3>3
      <4>2. CASE loaded[t] = db[c]
          BY <4>1, <4>2
      <4>3. CASE \E f \in Edits : edit[f].coll = c /\ t \in Pending(f)
          BY <4>3, <3>3, <1>5, <1>7, <1>8
      <4>4. QED
          BY <1>0, <4>2, <4>3 DEF QuietInv
    <3>4. QED
        BY <3>2, <3>3
  <2>4. QED
      BY <2>1, <2>2, <2>3
<1>11. QED
    BY <1>4, <1>6, <1>9, <1>10

\* An edit commits: only it has anything to do that was not there before.
LEMMA CommitKeeps == ASSUME ReloadInv, NEW coll \in Collections, Commit(coll) PROVE ReloadInv'
<1> USE ReloadAssumption
<1>0. ReloadTypes /\ EditsInv /\ QuietInv /\ CacheServesGroups /\ LookedUpInv
    BY DEF ReloadInv
<1>1. db \in [Collections -> Nat] /\ db' = [db EXCEPT ![coll] = @ + 1]
    BY <1>0 DEF Commit, ReloadTypes
<1>2. EditsSoFar \in Nat /\ NextEdit = EditsSoFar + 1 /\ EditsSoFar' = EditsSoFar + 1 /\ db' \in [Collections -> Nat]
  <2>1. /\ db["agents"] \in Nat /\ db["missions"] \in Nat /\ db["agent_layouts"] \in Nat
        /\ db["agent_groups"] \in Nat /\ db["telemetry_settings"] \in Nat
      BY <1>1 DEF Collections
  <2>2. db[coll] + 1 \in Nat /\ db'[coll] = db[coll] + 1 /\ \A c \in Collections : c # coll => db'[c] = db[c]
      BY <1>1
  <2>3. db' \in [Collections -> Nat]
      BY <1>1, <2>2
  <2>6. PICK i \in Nat, j \in Nat, k \in Nat, l \in Nat, m \in Nat :
          /\ i = db["agents"] /\ j = db["missions"] /\ k = db["agent_layouts"]
          /\ l = db["agent_groups"] /\ m = db["telemetry_settings"]
      BY <2>1
  <2>7. EditsSoFar = i + j + k + l + m
      BY <2>6 DEF EditsSoFar
  <2>4. EditsSoFar' = EditsSoFar + 1
    <3>1. CASE coll = "agents"
      <4>1. /\ db'["agents"] = db["agents"] + 1 /\ db'["missions"] = db["missions"] /\ db'["agent_layouts"] = db["agent_layouts"]
            /\ db'["agent_groups"] = db["agent_groups"] /\ db'["telemetry_settings"] = db["telemetry_settings"]
          BY <2>2, <3>1 DEF Collections
      <4>2. EditsSoFar' = (i + 1) + j + k + l + m
          BY <2>6, <4>1 DEF EditsSoFar
      <4>3. QED
          BY <2>7, <4>2
    <3>2. CASE coll = "missions"
      <4>1. /\ db'["agents"] = db["agents"] /\ db'["missions"] = db["missions"] + 1 /\ db'["agent_layouts"] = db["agent_layouts"]
            /\ db'["agent_groups"] = db["agent_groups"] /\ db'["telemetry_settings"] = db["telemetry_settings"]
          BY <2>2, <3>2 DEF Collections
      <4>2. EditsSoFar' = i + (j + 1) + k + l + m
          BY <2>6, <4>1 DEF EditsSoFar
      <4>3. QED
          BY <2>7, <4>2
    <3>3. CASE coll = "agent_layouts"
      <4>1. /\ db'["agents"] = db["agents"] /\ db'["missions"] = db["missions"] /\ db'["agent_layouts"] = db["agent_layouts"] + 1
            /\ db'["agent_groups"] = db["agent_groups"] /\ db'["telemetry_settings"] = db["telemetry_settings"]
          BY <2>2, <3>3 DEF Collections
      <4>2. EditsSoFar' = i + j + (k + 1) + l + m
          BY <2>6, <4>1 DEF EditsSoFar
      <4>3. QED
          BY <2>7, <4>2
    <3>4. CASE coll = "agent_groups"
      <4>1. /\ db'["agents"] = db["agents"] /\ db'["missions"] = db["missions"] /\ db'["agent_layouts"] = db["agent_layouts"]
            /\ db'["agent_groups"] = db["agent_groups"] + 1 /\ db'["telemetry_settings"] = db["telemetry_settings"]
          BY <2>2, <3>4 DEF Collections
      <4>2. EditsSoFar' = i + j + k + (l + 1) + m
          BY <2>6, <4>1 DEF EditsSoFar
      <4>3. QED
          BY <2>7, <4>2
    <3>5. CASE coll = "telemetry_settings"
      <4>1. /\ db'["agents"] = db["agents"] /\ db'["missions"] = db["missions"] /\ db'["agent_layouts"] = db["agent_layouts"]
            /\ db'["agent_groups"] = db["agent_groups"] /\ db'["telemetry_settings"] = db["telemetry_settings"] + 1
          BY <2>2, <3>5 DEF Collections
      <4>2. EditsSoFar' = i + j + k + l + (m + 1)
          BY <2>6, <4>1 DEF EditsSoFar
      <4>3. QED
          BY <2>7, <4>2
    <3>6. QED
        BY <3>1, <3>2, <3>3, <3>4, <3>5 DEF Collections
  <2>5. QED
      BY <2>1, <2>3, <2>4 DEF EditsSoFar, NextEdit
<1>3. PICK n \in Edits : n = EditsSoFar + 1
    BY <1>2 DEF Commit
<1>4. /\ edit' = [edit EXCEPT ![n] = [coll |-> coll, reloads |-> Bound(coll), todo |-> <<>>, snap |-> 0]]
      /\ disturbed' = (IF Busy(coll) THEN disturbed \cup {coll} ELSE disturbed \ {coll})
      /\ UNCHANGED <<loaded, groupHash, compiled, msg, touched>>
    BY <1>2, <1>3 DEF Commit
<1>5. ~Active(n) /\ Pending(n) = {}
    BY <1>0, <1>2, <1>3, PendingIsActive DEF EditsInv
<1>6. [coll |-> coll, reloads |-> Bound(coll), todo |-> <<>>, snap |-> 0]
        \in [coll : Collections, reloads : Seq(Reloads), todo : Seq(Tables), snap : Versions]
    BY BoundReloads, EmptySeq DEF Versions
<1>7. ReloadTypes'
  <2>1. EditsSoFar' <= MaxEdits
      BY <1>2, <1>3 DEF Edits
  <2>2. edit' \in [Edits -> [coll : Collections, reloads : Seq(Reloads), todo : Seq(Tables), snap : Versions]]
      BY <1>0, <1>4, <1>6 DEF ReloadTypes
  <2>3. disturbed' \subseteq Collections
      BY <1>0, <1>4 DEF ReloadTypes
  <2>4. QED
      BY <1>0, <1>2, <1>4, <2>1, <2>2, <2>3 DEF ReloadTypes
<1>8. /\ \A e \in Edits : e # n => edit'[e] = edit[e] /\ Pending(e)' = Pending(e) /\ (Active(e)' <=> Active(e))
      /\ edit'[n].coll = coll /\ edit'[n].reloads = Bound(coll) /\ edit'[n].todo = <<>>
    BY <1>0, <1>4 DEF ReloadTypes, Pending, Active
<1>9. Pending(n)' = TablesOf(coll)
    BY <1>8, BoundReloads DEF Pending, Range
<1>10. EditsInv'
    BY <1>0, <1>2, <1>3, <1>8, <1>9, SMTT(30) DEF EditsInv, Edits
<1>11. QuietInv'
  <2> SUFFICES ASSUME NEW c \in Collections, c \notin disturbed'
               PROVE  /\ \A f, g \in Edits : (Active(f)' /\ Active(g)' /\ edit'[f].coll = c /\ edit'[g].coll = c) => f = g
                      /\ \A f \in Edits : (edit'[f].coll = c /\ edit'[f].todo # <<>>) => edit'[f].snap = db'[c]
                      /\ \A t \in TablesOf(c) : loaded'[t] = db'[c] \/ \E f \in Edits : edit'[f].coll = c /\ t \in Pending(f)'
      BY DEF QuietInv
  <2>1. CASE c = coll
    <3>1. \A f \in Edits : edit[f].coll = c => ~Active(f) /\ edit[f].todo = <<>>
        BY <1>4, <2>1 DEF Busy, Active
    <3>2. QED
        BY <2>1, <3>1, <1>8, <1>9
  <2>2. CASE c # coll
    <3>1. c \notin disturbed /\ db'[c] = db[c]
        BY <1>1, <1>4, <2>2
    <3>2. \A f \in Edits : edit'[f].coll = c => f # n
        BY <1>8, <2>2
    <3>3. \A f, g \in Edits : (Active(f)' /\ Active(g)' /\ edit'[f].coll = c /\ edit'[g].coll = c) => f = g
        BY <1>0, <1>8, <3>1, <3>2 DEF QuietInv
    <3>4. \A f \in Edits : (edit'[f].coll = c /\ edit'[f].todo # <<>>) => edit'[f].snap = db'[c]
        BY <1>0, <1>8, <3>1, <3>2 DEF QuietInv
    <3>5. ASSUME NEW t \in TablesOf(c)
          PROVE  loaded'[t] = db'[c] \/ \E f \in Edits : edit'[f].coll = c /\ t \in Pending(f)'
        BY <1>0, <1>4, <1>5, <1>8, <3>1 DEF QuietInv
    <3>6. QED
        BY <3>3, <3>4, <3>5
  <2>3. QED
      BY <2>1, <2>2
<1>12. CacheServesGroups' /\ LookedUpInv'
    BY <1>0, <1>4 DEF CacheServesGroups, LookedUpInv, Resolve, GroupID
<1>13. QED
    BY <1>7, <1>10, <1>11, <1>12 DEF ReloadInv

\* A reload reads: what it is to replace was among what its edit had to replace.
LEMMA LoadKeeps == ASSUME ReloadInv, NEW e \in Edits, NEW ok \in BOOLEAN, Load(e, ok) PROVE ReloadInv'
<1> USE ReloadAssumption
<1>0. ReloadTypes /\ EditsInv /\ QuietInv /\ CacheServesGroups /\ LookedUpInv
    BY DEF ReloadInv
<1>1. /\ edit[e] \in [coll : Collections, reloads : Seq(Reloads), todo : Seq(Tables), snap : Versions]
      /\ edit[e].todo = <<>> /\ edit[e].reloads # <<>>
      /\ db[edit[e].coll] \in Versions
  <2>1. db \in [Collections -> Versions]
    <3>1. db \in [Collections -> Nat] /\ ReloadSound
        BY <1>0, ReloadInvIsEnough DEF ReloadTypes
    <3>2. QED
        BY <3>1 DEF ReloadSound, ReloadTypeOK
  <2>2. QED
      BY <1>0, <2>1 DEF ReloadTypes, Load
<1>2. Head(edit[e].reloads) \in Reloads /\ Tail(edit[e].reloads) \in Seq(Reloads)
      /\ TablesOfReloads(edit[e].reloads) = Range(Replaces(Head(edit[e].reloads))) \cup TablesOfReloads(Tail(edit[e].reloads))
    BY <1>1, HeadTailProperties, RangeOfTail
<1>3. PICK todo \in Seq(Tables) :
        /\ todo = (IF ok THEN Replaces(Head(edit[e].reloads)) ELSE <<>>)
        /\ Range(todo) \subseteq Range(Replaces(Head(edit[e].reloads)))
  <2>1. CASE ok
      BY <1>2, <2>1, ReplacesTables
  <2>2. CASE ~ok
    <3>1. <<>> \in Seq(Tables) /\ Range(<<>>) = {}
        BY EmptySeq DEF Range
    <3>2. QED
        BY <2>2, <3>1
  <2>3. QED
      BY <2>1, <2>2
<1>4. /\ edit' = [edit EXCEPT ![e].reloads = Tail(@), ![e].todo = todo, ![e].snap = db[edit[e].coll]]
      /\ disturbed' = (IF ok THEN disturbed ELSE disturbed \cup {edit[e].coll})
      /\ UNCHANGED <<db, loaded, groupHash, compiled, msg, touched>>
    BY <1>3 DEF Load
<1>5. edit' \in [Edits -> [coll : Collections, reloads : Seq(Reloads), todo : Seq(Tables), snap : Versions]]
    BY <1>0, <1>1, <1>2, <1>3, <1>4 DEF ReloadTypes
<1>6. /\ \A f \in Edits : f # e => edit'[f] = edit[f] /\ Pending(f)' = Pending(f) /\ (Active(f)' <=> Active(f))
      /\ edit'[e].coll = edit[e].coll /\ edit'[e].reloads = Tail(edit[e].reloads) /\ edit'[e].todo = todo
      /\ edit'[e].snap = db[edit[e].coll] /\ Active(e)
    BY <1>0, <1>1, <1>4 DEF ReloadTypes, Pending, Active
<1>7. Pending(e)' \subseteq Pending(e) /\ (ok => Pending(e)' = Pending(e))
  <2>1. Pending(e) = Range(Replaces(Head(edit[e].reloads))) \cup TablesOfReloads(Tail(edit[e].reloads))
      BY <1>1, <1>2 DEF Pending, Range
  <2>2. Pending(e)' = Range(todo) \cup TablesOfReloads(Tail(edit[e].reloads))
      BY <1>6 DEF Pending
  <2>3. QED
      BY <1>3, <2>1, <2>2
<1>8. ReloadTypes'
    BY <1>0, <1>1, <1>4, <1>5 DEF ReloadTypes, EditsSoFar
<1>9. EditsInv'
    BY <1>0, <1>4, <1>6, <1>7 DEF EditsInv, EditsSoFar
<1>10. QuietInv'
  <2> SUFFICES ASSUME NEW c \in Collections, c \notin disturbed'
               PROVE  /\ \A f, g \in Edits : (Active(f)' /\ Active(g)' /\ edit'[f].coll = c /\ edit'[g].coll = c) => f = g
                      /\ \A f \in Edits : (edit'[f].coll = c /\ edit'[f].todo # <<>>) => edit'[f].snap = db'[c]
                      /\ \A t \in TablesOf(c) : loaded'[t] = db'[c] \/ \E f \in Edits : edit'[f].coll = c /\ t \in Pending(f)'
      BY DEF QuietInv
  <2>1. c \notin disturbed /\ (c = edit[e].coll => ok)
      BY <1>4
  <2>2. \A f, g \in Edits : (Active(f)' /\ Active(g)' /\ edit'[f].coll = c /\ edit'[g].coll = c) => f = g
      BY <1>0, <1>6, <2>1 DEF QuietInv
  <2>3. \A f \in Edits : (edit'[f].coll = c /\ edit'[f].todo # <<>>) => edit'[f].snap = db'[c]
    <3> SUFFICES ASSUME NEW f \in Edits, edit'[f].coll = c, edit'[f].todo # <<>> PROVE edit'[f].snap = db[c]
        BY <1>4
    <3>1. CASE f = e
        BY <1>6, <3>1
    <3>2. CASE f # e
        BY <1>0, <1>6, <2>1, <3>2 DEF QuietInv
    <3>3. QED
        BY <3>1, <3>2
  <2>4. ASSUME NEW t \in TablesOf(c)
        PROVE  loaded'[t] = db'[c] \/ \E f \in Edits : edit'[f].coll = c /\ t \in Pending(f)'
    <3>1. loaded[t] = db[c] \/ \E f \in Edits : edit[f].coll = c /\ t \in Pending(f)
        BY <1>0, <2>1 DEF QuietInv
    <3>2. CASE loaded[t] = db[c]
        BY <1>4, <3>2
    <3>3. ASSUME NEW f \in Edits, edit[f].coll = c, t \in Pending(f)
          PROVE  edit'[f].coll = c /\ t \in Pending(f)'
      <4>1. CASE f = e
          BY <1>6, <1>7, <2>1, <3>3, <4>1
      <4>2. CASE f # e
          BY <1>6, <3>3, <4>2
      <4>3. QED
          BY <4>1, <4>2
    <3>4. QED
        BY <3>1, <3>2, <3>3
  <2>5. QED
      BY <2>2, <2>3, <2>4
<1>11. CacheServesGroups' /\ LookedUpInv'
    BY <1>0, <1>4 DEF CacheServesGroups, LookedUpInv, Resolve, GroupID
<1>12. QED
    BY <1>8, <1>9, <1>10, <1>11 DEF ReloadInv

LEMMA ReloadStep == ReloadInv /\ [ReloadNext]_reloadVars => ReloadInv'
<1> SUFFICES ASSUME ReloadInv, [ReloadNext]_reloadVars PROVE ReloadInv'
    OBVIOUS
<1> USE ReloadAssumption
<1>0. ReloadTypes /\ EditsInv /\ QuietInv /\ CacheServesGroups /\ LookedUpInv
    BY DEF ReloadInv
<1>1. ASSUME NEW e \in Edits, Install(e) PROVE ReloadInv'
  <2>1. /\ loaded' \in [Tables -> Versions]
        /\ edit' \in [Edits -> [coll : Collections, reloads : Seq(Reloads), todo : Seq(Tables), snap : Versions]]
        /\ EditsInv' /\ QuietInv'
      BY <1>1, InstallKeeps DEF Install
  <2>2. loaded'["schemas"] = loaded["schemas"]
      BY <1>0, <1>1, TablesAreDisjoint DEF Install, ReloadTypes
  <2>3. ReloadTypes' /\ CacheServesGroups' /\ LookedUpInv'
      BY <1>0, <1>1, <2>1, <2>2 DEF Install, ReloadTypes, EditsSoFar, CacheServesGroups, LookedUpInv
  <2>4. QED
      BY <2>1, <2>3 DEF ReloadInv
<1>2. ASSUME NEW e \in Edits, SetGroupSchemas(e) PROVE ReloadInv'
  <2>1. /\ loaded' \in [Tables -> Versions]
        /\ edit' \in [Edits -> [coll : Collections, reloads : Seq(Reloads), todo : Seq(Tables), snap : Versions]]
        /\ EditsInv' /\ QuietInv'
      BY <1>2, InstallKeeps DEF SetGroupSchemas
  <2>2. loaded'["schemas"] = edit[e].snap
      BY <1>0, <1>2, TablesAreDisjoint DEF SetGroupSchemas, ReloadTypes
  <2>3. ReloadTypes' /\ CacheServesGroups' /\ LookedUpInv'
      BY <1>0, <1>2, <2>1, <2>2 DEF SetGroupSchemas, ReloadTypes, EditsSoFar, CacheServesGroups, LookedUpInv
  <2>4. QED
      BY <2>1, <2>3 DEF ReloadInv
<1>3. GroupID \in Groups \cup {NoGroup} /\ Resolve \in Hashes \cup {NoSchema} /\ loaded["mappings"] \in Versions
  <2>1. loaded["memberships"] \in Versions /\ loaded["schemas"] \in Versions /\ loaded["mappings"] \in Versions
      BY <1>0, TablesAreDisjoint DEF ReloadTypes
  <2>2. Range(groupHash) \subseteq Hashes
      BY <1>0, <2>1, HashesOfTypes DEF ReloadTypes
  <2>3. QED
      BY <2>1, <2>2 DEF GroupID, Resolve, Range
<1>4. ASSUME UNCHANGED <<db, loaded, groupHash, compiled, edit, disturbed>>,
             touched' \in {touched, FALSE}, msg' \in [pc : {"idle", "validate", "group", "enabled", "resolve", "mapping", "row"},
              checked : Hashes \cup {NoSchema}, group : Groups \cup {NoGroup},
              stored : Hashes \cup {NoSchema}, mapping : Versions], LookedUpInv'
      PROVE  ReloadInv'
  <2>1. \A e \in Edits : Pending(e)' = Pending(e) /\ (Active(e)' <=> Active(e))
      BY <1>4 DEF Pending, Active
  <2>2. EditsInv' /\ QuietInv'
      BY <1>0, <1>4, <2>1 DEF EditsInv, QuietInv, EditsSoFar
  <2>3. ReloadTypes'
      BY <1>0, <1>4 DEF ReloadTypes, EditsSoFar
  <2>4. CacheServesGroups'
      BY <1>0, <1>4 DEF CacheServesGroups
  <2>5. QED
      BY <1>4, <2>2, <2>3, <2>4 DEF ReloadInv
<1>5. CASE TakeMessage
  <2>1. 0 \in Versions
      BY DEF Versions
  <2>2. msg' = [pc |-> "validate", checked |-> NoSchema, group |-> NoGroup, stored |-> NoSchema, mapping |-> 0]
      BY <1>5 DEF TakeMessage, NoReport
  <2>3. LookedUpInv'
      BY <2>2 DEF LookedUpInv
  <2>4. QED
    <3>1. msg' \in [pc : {"idle", "validate", "group", "enabled", "resolve", "mapping", "row"},
                    checked : Hashes \cup {NoSchema}, group : Groups \cup {NoGroup},
                    stored : Hashes \cup {NoSchema}, mapping : Versions]
        BY <2>1, <2>2
    <3>2. UNCHANGED <<db, loaded, groupHash, compiled, edit, disturbed>> /\ touched' = FALSE
        BY <1>5 DEF TakeMessage
    <3>3. QED
        BY <1>4, <2>3, <3>1, <3>2
<1>6. CASE ValidateMessage
    BY <1>0, <1>3, <1>4, <1>6 DEF ValidateMessage, Lookup, LookedUpInv, ReloadTypes, Resolve, GroupID
<1>7. CASE LookUpGroup
    BY <1>0, <1>3, <1>4, <1>7 DEF LookUpGroup, Lookup, LookedUpInv, ReloadTypes, Resolve, GroupID
<1>8. CASE LookUpToggle
    BY <1>0, <1>3, <1>4, <1>8 DEF LookUpToggle, Lookup, LookedUpInv, ReloadTypes, Resolve, GroupID
<1>9. CASE ResolveAgain
    BY <1>0, <1>3, <1>4, <1>9 DEF ResolveAgain, Lookup, LookedUpInv, ReloadTypes, Resolve, GroupID
<1>10. CASE LookUpMapping
    BY <1>0, <1>3, <1>4, <1>10 DEF LookUpMapping, Lookup, LookedUpInv, ReloadTypes, Resolve, GroupID
<1>11. CASE UNCHANGED reloadVars
    BY <1>0, <1>4, <1>11 DEF reloadVars, LookedUpInv, ReloadTypes, Resolve, GroupID
<1>12. QED
    BY <1>1, <1>2, <1>5, <1>6, <1>7, <1>8, <1>9, <1>10, <1>11, CommitKeeps, LoadKeeps DEF ReloadNext

\* Whatever edits overlap, fail to load or race the ingest consumer: a collection whose last
\* edit overlapped none and could be read is in force in all its tables once its hooks are
\* done (bind), SetGroupSchemas keeps compiled exactly the schemas a group points at, and a
\* telemetry row is of one group, one toggle and one contract unless a table was replaced
\* while its message was under way.
THEOREM ReloadIsSound == ReloadSpec => []ReloadSound
<1>1. QED
    BY ReloadInitInv, ReloadStep, ReloadInvIsEnough, PTL DEF ReloadSpec

-----------------------------------------------------------------------------
(* One message *)

\* What Validate made of the payload, for as long as a row or an envelope tells of it.
Verdict ==
  IF entry = NoContract THEN [kind |-> "no_contract", paths |-> {}]
  ELSE IF payload.body.form \in Unparsable THEN [kind |-> "not_json", paths |-> {}]
  ELSE IF Conforms(entry, payload.body, payload.fails) THEN Valid
  ELSE Classify(entry, payload.body)

Verdicts == [kind : Kinds \cup {"none"}, paths : SUBSET Props]

ContractTypes ==
  /\ stage \in {"arrive", "validate", "announced", "persist", "live", "record", "over"}
  /\ entry \in Schemas \cup {NoContract}
  /\ payload.body \in Bodies
  /\ violation \in Verdicts /\ (violation.kind = "none" => violation = Valid)
  /\ envelope \in {"none", "true", "false", "null"}

\* The listener's calls come in one order: nothing is there before its call.
OrderInv ==
  /\ stage \in {"arrive", "validate", "announced", "persist"} => row = NoRow /\ events = <<>>
  /\ stage \in {"arrive", "validate", "announced", "persist", "live"} => envelope = "none"

VerdictInv == (stage \in {"persist", "live"} \/ row # NoRow \/ envelope # "none") => violation = Verdict

RowInv ==
  row # NoRow => row.valid = ValidPtr(violation) /\ row.hash = entry.hash /\ TimeIsBelieved

EnvelopeInv == envelope # "none" => envelope = ValidPtr(violation)

\* Before the verdict is recorded there is at most a bad time; after it the verdict is last.
Early(s) == s = <<>> \/ \E e : s = <<e>> /\ e.kind = "bad_timestamp"
EventsInv ==
  /\ stage # "over" => Early(events)
  /\ (stage = "over" /\ violation = Valid) => Early(events)
  /\ (stage = "over" /\ violation # Valid) =>
       \E f : /\ f.kind = violation.kind
              /\ events = <<f>> \/ \E e : events = <<e, f>> /\ e.kind = "bad_timestamp"

ContractInv ==
  /\ ContractTypes /\ OrderInv /\ VerdictInv /\ RowInv /\ EnvelopeInv /\ EventsInv

\* Within the window by Go's arithmetic: the distance is at most the window, or it is so far
\* back that the Duration is saturated and its negation is itself.
LEMMA WindowOfDurations ==
  ASSUME NEW t \in Nat, WithinSaneWindow(t)
  PROVE  \/ t - ReceivedAt \in (-SaneWindow)..SaneWindow
         \/ t - ReceivedAt <= -(MaxDuration + 1)
<1> DEFINE d == t - ReceivedAt
<1>1. /\ t \in Int /\ ReceivedAt \in Int /\ SaneWindow \in Int /\ MaxDuration \in Int
      /\ 0 < SaneWindow /\ SaneWindow < MaxDuration
    BY ContractAssumption
<1>2. PICK e \in Int : e = t - ReceivedAt
    BY <1>1
<1>3. PICK diff \in Int :
        diff = IF e > MaxDuration THEN MaxDuration
               ELSE IF e < -(MaxDuration + 1) THEN -(MaxDuration + 1) ELSE e
  <2> DEFINE diff == IF e > MaxDuration THEN MaxDuration
                     ELSE IF e < -(MaxDuration + 1) THEN -(MaxDuration + 1) ELSE e
  <2>1. diff \in Int
      BY <1>1, <1>2
  <2>2. QED
      BY <2>1
<1>4. (IF diff < 0 THEN (IF diff = -(MaxDuration + 1) THEN diff ELSE -diff) ELSE diff) <= SaneWindow
    BY <1>2, <1>3 DEF WithinSaneWindow, Sub, Neg
<1>5. e \in (-SaneWindow)..SaneWindow \/ e <= -(MaxDuration + 1)
    BY <1>1, <1>3, <1>4
<1>6. QED
    BY <1>2, <1>5

LEMMA TuplesOfOneAndTwo ==
  ASSUME NEW e, NEW f
  PROVE  /\ Len(<<e>>) = 1 /\ DOMAIN <<e>> = {1} /\ <<e>>[1] = e
         /\ Len(<<e, f>>) = 2 /\ DOMAIN <<e, f>> = {1, 2} /\ <<e, f>>[1] = e /\ <<e, f>>[2] = f
         /\ Append(<<e>>, f) = <<e, f>>
<1>1. Len(<<e>>) = 1 /\ DOMAIN <<e>> = {1} /\ <<e>>[1] = e
    OBVIOUS
<1>2. Len(<<e, f>>) = 2 /\ DOMAIN <<e, f>> = {1, 2} /\ <<e, f>>[1] = e /\ <<e, f>>[2] = f
    OBVIOUS
<1>3. Append(<<e>>, f) = <<e, f>>
  <2>1. <<e>> \in Seq({e, f})
      OBVIOUS
  <2>2. PICK t \in Seq({e, f}) : t = <<e, f>>
    <3>1. <<e, f>> \in Seq({e, f})
        BY ShortLists
    <3>2. QED
        BY <3>1, Zenon
  <2>3. PICK u \in Seq({e, f}) : u = Append(<<e>>, f)
      BY <2>1, AppendProperties
  <2>4. Len(u) = 2 /\ u[1] = e /\ u[2] = f
      BY <1>1, <2>1, <2>3, AppendProperties
  <2>5. Len(t) = 2 /\ t[1] = e /\ t[2] = f
      BY <1>2, <2>2
  <2>6. Len(u) = Len(t) /\ \A i \in 1..Len(u) : u[i] = t[i]
      BY <2>4, <2>5
  <2>7. u = t
      BY <2>6, SeqEqual
  <2>8. QED
      BY <2>2, <2>3, <2>7
<1>4. QED
    BY <1>1, <1>2, <1>3

LEMMA NoContractIsNone ==
  ASSUME NEW contract \in Schemas \cup {NoContract}
  PROVE  (contract.hash = NoHash) = (contract = NoContract)
BY ContractAssumption DEF Schemas, NoContract

LEMMA BodiesAreTyped ==
  ASSUME NEW body \in Bodies
  PROVE  /\ body.form \in {"not_json", "empty", "null", "scalar", "object"}
         /\ body.form = "object" => \E d \in SUBSET Props : body.fields \in [d -> JSONValues]
BY DEF Bodies, Fieldless, Object

\* A verdict names properties of the contract or of the payload, and Valid names none.
LEMMA VerdictsAreTyped ==
  ASSUME ContractTypes
  PROVE  Verdict \in Verdicts /\ (Verdict.kind = "none" => Verdict = Valid)
<1>1. CASE entry = NoContract
    BY <1>1 DEF Verdict, Verdicts, Kinds
<1>2. CASE entry # NoContract /\ payload.body.form # "object"
    BY <1>2 DEF Verdict, Verdicts, Kinds, Classify, Valid
<1>3. CASE entry # NoContract /\ payload.body.form = "object"
  <2>1. entry \in Schemas /\ payload.body \in Bodies
      BY <1>3 DEF ContractTypes
  <2>2. MissingRequired(entry, payload.body.fields) \subseteq Props
      BY <2>1 DEF MissingRequired, Schemas
  <2>3. PICK d \in SUBSET Props : payload.body.fields \in [d -> JSONValues]
      BY <1>3, <2>1, BodiesAreTyped
  <2>4. MismatchedTypes(entry, payload.body.fields) \subseteq Props
      BY <2>3 DEF MismatchedTypes
  <2>5. QED
      BY <1>3, <2>2, <2>4 DEF Verdict, Verdicts, Kinds, Classify, Valid
<1>4. QED
    BY <1>1, <1>2, <1>3

LEMMA ValidPtrIsTyped ==
  ASSUME NEW v
  PROVE  ValidPtr(v) \in {"true", "false", "null"}
BY DEF ValidPtr

LEMMA ContractBegins == ContractInit => ContractInv
<1> SUFFICES ASSUME ContractInit PROVE ContractInv
    OBVIOUS
<1>1. NoContract \in Schemas \cup {NoContract} /\ Fieldless("not_json") \in Bodies
    BY DEF Bodies
<1>2. Valid \in Verdicts
    BY DEF Valid, Verdicts
<1>3. QED
    BY <1>1, <1>2
    DEF ContractInit, ContractInv, ContractTypes, OrderInv, VerdictInv, RowInv, EnvelopeInv,
        EventsInv, Early

LEMMA ArriveKeeps ==
  ASSUME ContractInv, NEW kind \in {"telemetry", "schema"}, NEW contract \in Schemas \cup {NoContract},
         NEW body \in Bodies, NEW fails \in BOOLEAN, Arrive(kind, contract, body, fails)
  PROVE  ContractInv'
<1>1. /\ row = NoRow /\ events = <<>> /\ envelope = "none" /\ row' = NoRow /\ events' = <<>>
      /\ envelope' = "none" /\ violation' = violation /\ stage' \in {"validate", "announced"}
    BY DEF ContractInv, OrderInv, Arrive, Goes
<1>2. ContractTypes'
  <2>1. entry' \in Schemas \cup {NoContract} /\ payload'.body \in Bodies
      BY DEF Arrive
  <2>2. QED
      BY <1>1, <2>1 DEF ContractInv, ContractTypes
<1>3. QED
    BY <1>1, <1>2
    DEF ContractInv, OrderInv, VerdictInv, RowInv, EnvelopeInv, EventsInv, Early

LEMMA ValidateKeeps ==
  ASSUME ContractInv, Validate
  PROVE  ContractInv'
<1>1. /\ row = NoRow /\ events = <<>> /\ envelope = "none" /\ row' = NoRow /\ events' = <<>>
      /\ envelope' = "none" /\ stage' = "persist" /\ entry' = entry /\ payload' = payload
    BY DEF ContractInv, OrderInv, Validate, Goes
<1>2. violation' = Verdict
    BY DEF Validate, Verdict
<1>3. ContractTypes'
    BY <1>1, <1>2, VerdictsAreTyped DEF ContractInv, ContractTypes
<1>4. VerdictInv'
    BY <1>1, <1>2 DEF VerdictInv, Verdict
<1>5. QED
    BY <1>1, <1>3, <1>4 DEF ContractInv, OrderInv, RowInv, EnvelopeInv, EventsInv, Early

LEMMA AnnouncementKeeps ==
  ASSUME ContractInv, NEW hash \in ContractHashes \cup {NoHash}, NEW decodes \in BOOLEAN,
         CheckSchemaAnnouncement(hash, decodes)
  PROVE  ContractInv'
<1>1. /\ row = NoRow /\ events = <<>> /\ envelope = "none" /\ row' = NoRow /\ events' = <<>>
      /\ envelope' = "none" /\ stage' = "record" /\ entry' = entry /\ payload' = payload
    BY DEF ContractInv, OrderInv, CheckSchemaAnnouncement, Goes
<1>2. violation' \in Verdicts /\ (violation'.kind = "none" => violation' = Valid)
    BY DEF CheckSchemaAnnouncement, Verdicts, Kinds, Valid
<1>3. ContractTypes'
    BY <1>1, <1>2 DEF ContractInv, ContractTypes
<1>4. QED
    BY <1>1, <1>3 DEF ContractInv, OrderInv, VerdictInv, RowInv, EnvelopeInv, EventsInv, Early

LEMMA RowKeeps ==
  ASSUME ContractInv, NEW enabled \in BOOLEAN, NEW agent \in {"none", "other"}, NEW time \in Found,
         EnqueueTelemetryRow(enabled, agent, time)
  PROVE  ContractInv'
<1>1. /\ row = NoRow /\ events = <<>> /\ envelope = "none" /\ violation = Verdict
      /\ stage' = "live" /\ entry' = entry /\ payload' = payload /\ violation' = violation
      /\ envelope' = "none"
    BY DEF ContractInv, OrderInv, VerdictInv, EnqueueTelemetryRow, Goes
<1>2. ContractTypes' /\ OrderInv' /\ EnvelopeInv'
    BY <1>1 DEF ContractInv, ContractTypes, OrderInv, EnvelopeInv
<1>3. VerdictInv'
    BY <1>1 DEF VerdictInv, Verdict
<1>4. EventsInv'
    BY <1>1 DEF EventsInv, Early, EnqueueTelemetryRow
<1>5. RowInv'
  <2>1. CASE ~enabled
      BY <1>1, <2>1 DEF RowInv, EnqueueTelemetryRow
  <2>2. CASE enabled
    <3>1. row' = [agent |-> Apply(agent, time).agent, time |-> Apply(agent, time).time,
                  valid |-> ValidPtr(violation), hash |-> entry.hash]
        BY <2>2 DEF EnqueueTelemetryRow
    <3>2. row'.time = IF time \in 0..MaxTime /\ WithinSaneWindow(time) THEN time ELSE ReceivedAt
        BY <3>1 DEF Apply
    <3>3. row'.valid = ValidPtr(violation) /\ row'.hash = entry.hash
        BY <3>1
    <3>4. TimeIsBelieved'
      <4>1. CASE time \in 0..MaxTime /\ WithinSaneWindow(time)
        <5>1. time \in Nat /\ row'.time = time
            BY <3>2, <4>1, ContractAssumption
        <5>2. \/ time - ReceivedAt \in (-SaneWindow)..SaneWindow
              \/ time - ReceivedAt <= -(MaxDuration + 1)
            BY <4>1, <5>1, WindowOfDurations
        <5>3. QED
            BY <5>1, <5>2 DEF TimeIsBelieved
      <4>2. CASE ~(time \in 0..MaxTime /\ WithinSaneWindow(time))
          BY <3>2, <4>2 DEF TimeIsBelieved
      <4>3. QED
          BY <4>1, <4>2
    <3>5. QED
        BY <1>1, <3>3, <3>4 DEF RowInv
  <2>3. QED
      BY <2>1, <2>2
<1>6. QED
    BY <1>2, <1>3, <1>4, <1>5 DEF ContractInv

LEMMA EnvelopeKeeps ==
  ASSUME ContractInv, PublishLiveEnvelope
  PROVE  ContractInv'
<1>1. /\ violation = Verdict /\ stage = "live" /\ stage' = "record" /\ entry' = entry
      /\ payload' = payload /\ violation' = violation /\ row' = row /\ events' = events
      /\ envelope' = IF payload.body.form = "not_json" THEN "none" ELSE ValidPtr(violation)
    BY DEF ContractInv, VerdictInv, PublishLiveEnvelope, Goes
<1>2. envelope' \in {"none", "true", "false", "null"}
    BY <1>1, ValidPtrIsTyped
<1>3. ContractTypes'
    BY <1>1, <1>2 DEF ContractInv, ContractTypes
<1>4. QED
    BY <1>1, <1>3
    DEF ContractInv, OrderInv, VerdictInv, Verdict, RowInv, TimeIsBelieved, EnvelopeInv, EventsInv,
        Early

LEMMA RecordKeeps ==
  ASSUME ContractInv, NEW long \in BOOLEAN, Record(long)
  PROVE  ContractInv'
<1>1. /\ stage = "record" /\ stage' = "over" /\ entry' = entry /\ payload' = payload
      /\ violation' = violation /\ row' = row /\ envelope' = envelope /\ Early(events)
    BY DEF ContractInv, EventsInv, Record, Goes
<1>2. ContractTypes' /\ OrderInv' /\ VerdictInv' /\ RowInv' /\ EnvelopeInv'
    BY <1>1
    DEF ContractInv, ContractTypes, OrderInv, VerdictInv, Verdict, RowInv, TimeIsBelieved, EnvelopeInv
<1>3. EventsInv'
  <2>1. CASE violation = Valid
      BY <1>1, <2>1 DEF EventsInv, Early, Record
  <2>2. CASE violation # Valid
    <3>1. PICK f : f.kind = violation.kind /\ events' = Append(events, f)
      <4> DEFINE f == [agent |-> "topic", kind |-> violation.kind, paths |-> violation.paths,
                       sample |-> SampleFor(payload, long)]
      <4>1. f.kind = violation.kind /\ events' = Append(events, f)
          BY <2>2 DEF Record
      <4>2. QED
          BY <4>1
    <3>2. events' = <<f>> \/ \E e : events' = <<e, f>> /\ e.kind = "bad_timestamp"
      <4>1. CASE events = <<>>
          BY <3>1, <4>1
      <4>2. CASE \E e : events = <<e>> /\ e.kind = "bad_timestamp"
        <5>1. PICK e : events = <<e>> /\ e.kind = "bad_timestamp"
            BY <4>2
        <5>2. events' = <<e, f>>
            BY <3>1, <5>1, TuplesOfOneAndTwo
        <5>3. QED
            BY <5>1, <5>2
      <4>3. QED
          BY <1>1, <4>1, <4>2 DEF Early
    <3>3. QED
        BY <1>1, <2>2, <3>1, <3>2 DEF EventsInv
  <2>3. QED
      BY <2>1, <2>2
<1>4. QED
    BY <1>2, <1>3 DEF ContractInv

LEMMA ContractStep ==
  ContractInv /\ [ContractNext]_contractVars => ContractInv'
<1> SUFFICES ASSUME ContractInv, [ContractNext]_contractVars PROVE ContractInv'
    OBVIOUS
<1>1. CASE \E kind \in {"telemetry", "schema"}, contract \in Schemas \cup {NoContract},
              body \in Bodies, fails \in BOOLEAN : Arrive(kind, contract, body, fails)
    BY <1>1, ArriveKeeps
<1>2. CASE Validate
    BY <1>2, ValidateKeeps
<1>3. CASE \E hash \in ContractHashes \cup {NoHash}, decodes \in BOOLEAN :
              CheckSchemaAnnouncement(hash, decodes)
    BY <1>3, AnnouncementKeeps
<1>4. CASE \E enabled \in BOOLEAN, agent \in {"none", "other"}, time \in Found :
              EnqueueTelemetryRow(enabled, agent, time)
    BY <1>4, RowKeeps
<1>5. CASE PublishLiveEnvelope
    BY <1>5, EnvelopeKeeps
<1>6. CASE \E long \in BOOLEAN : Record(long)
    BY <1>6, RecordKeeps
<1>7. CASE UNCHANGED contractVars
    BY <1>7
    DEF contractVars, ContractInv, ContractTypes, OrderInv, VerdictInv, Verdict, RowInv,
        TimeIsBelieved, EnvelopeInv, EventsInv, Early
<1>8. QED
    BY <1>1, <1>2, <1>3, <1>4, <1>5, <1>6, <1>7 DEF ContractNext

\* A verdict on an object names its highest fault and what has it.
LEMMA VerdictOfObject ==
  ASSUME ContractTypes, violation = Verdict, entry # NoContract, payload.body.form = "object"
  PROVE  LET missing == {p \in entry.required : p \notin DOMAIN payload.body.fields}
             wrong   == {p \in DOMAIN payload.body.fields :
                           ~TypeMatches(payload.body.fields[p], entry.types[p])}
         IN  /\ violation.paths = IF missing # {} THEN missing ELSE wrong
             /\ violation.kind \in (IF missing # {} THEN {"missing_required"}
                                    ELSE IF wrong # {} THEN {"type_mismatch"} ELSE {"constraint", "none"})
<1>1. MissingRequired(entry, payload.body.fields)
        = {p \in entry.required : p \notin DOMAIN payload.body.fields}
    BY DEF MissingRequired
<1>2. violation = IF Conforms(entry, payload.body, payload.fails) THEN Valid
                  ELSE Classify(entry, payload.body)
    BY DEF Verdict, Unparsable
<1>3. CASE Conforms(entry, payload.body, payload.fails)
    BY <1>1, <1>2, <1>3 DEF Conforms, Valid, MismatchedTypes
<1>4. CASE ~Conforms(entry, payload.body, payload.fails)
    BY <1>1, <1>2, <1>4 DEF Classify, MismatchedTypes
<1>5. QED
    BY <1>3, <1>4

LEMMA ContractInvIsSound == ContractInv => ContractSound
<1> SUFFICES ASSUME ContractInv PROVE ContractSound
    OBVIOUS
<1>1. violation \in Verdicts /\ entry \in Schemas \cup {NoContract}
    BY DEF ContractInv, ContractTypes
<1>2. ContractTypeOK
  <2>1. /\ stage \in {"arrive", "validate", "announced", "persist", "live", "record", "over"}
        /\ entry \in Schemas \cup {NoContract}
        /\ violation.kind \in Kinds \cup {"none"} /\ violation.paths \subseteq Props
        /\ envelope \in {"none", "true", "false", "null"}
      BY DEF ContractInv, ContractTypes, Verdicts
  <2>2. violation # Valid => violation.kind \in Kinds
      BY <2>1 DEF ContractInv, ContractTypes
  <2>3. Len(events) <= 2 /\ \A i \in DOMAIN events : events[i].kind \in Kinds \cup {"bad_timestamp"}
    <3>1. CASE Early(events)
      <4>1. CASE events = <<>>
          BY <4>1
      <4>2. CASE \E e : events = <<e>> /\ e.kind = "bad_timestamp"
          BY <4>2, TuplesOfOneAndTwo
      <4>3. QED
          BY <3>1, <4>1, <4>2 DEF Early
    <3>2. CASE /\ violation # Valid
               /\ \E f : /\ f.kind = violation.kind
                         /\ events = <<f>> \/ \E e : events = <<e, f>> /\ e.kind = "bad_timestamp"
      <4>1. PICK f : /\ f.kind = violation.kind
                     /\ events = <<f>> \/ \E e : events = <<e, f>> /\ e.kind = "bad_timestamp"
          BY <3>2
      <4> f.kind \in Kinds
          BY <2>2, <3>2, <4>1
      <4>2. CASE events = <<f>>
          BY <4>1, <4>2, TuplesOfOneAndTwo
      <4>3. CASE \E e : events = <<e, f>> /\ e.kind = "bad_timestamp"
        <5>1. PICK e : events = <<e, f>> /\ e.kind = "bad_timestamp"
            BY <4>3
        <5>2. Len(events) = 2 /\ DOMAIN events = {1, 2} /\ events[1] = e /\ events[2] = f
            BY <5>1, TuplesOfOneAndTwo
        <5>3. QED
            BY <4>1, <5>1, <5>2
      <4>4. QED
          BY <4>1, <4>2, <4>3
    <3>3. QED
        BY <3>1, <3>2 DEF ContractInv, EventsInv
  <2>4. QED
      BY <2>1, <2>3 DEF ContractTypeOK
<1>3. VerdictNamesFault
  <2> SUFFICES ASSUME Judged, entry # NoContract, payload.body.form = "object"
               PROVE  LET missing == {p \in entry.required : p \notin DOMAIN payload.body.fields}
                          wrong   == {p \in DOMAIN payload.body.fields :
                                        ~TypeMatches(payload.body.fields[p], entry.types[p])}
                      IN  /\ violation.paths = IF missing # {} THEN missing ELSE wrong
                          /\ violation.kind \in (IF missing # {} THEN {"missing_required"}
                               ELSE IF wrong # {} THEN {"type_mismatch"} ELSE {"constraint", "none"})
      BY DEF VerdictNamesFault
  <2>1. violation = Verdict
      BY DEF ContractInv, VerdictInv, Judged
  <2>2. QED
      BY <2>1, VerdictOfObject DEF ContractInv
<1>4. RowAndViewAgree
  <2>1. (row # NoRow /\ envelope # "none") => row.valid = envelope
      BY DEF ContractInv, RowInv, EnvelopeInv
  <2>2. row # NoRow => violation = Verdict /\ row.valid = ValidPtr(violation) /\ row.hash = entry.hash
      BY DEF ContractInv, RowInv, VerdictInv
  <2>3. Verdict.kind = "no_contract" <=> entry = NoContract
      BY DEF Verdict, Classify, Valid
  <2>4. Verdict.kind \in {"none", "no_contract"} \cup Bad
      BY DEF Verdict, Classify, Valid, Bad
  <2>5. row # NoRow => (row.valid = "null") = (entry = NoContract) /\ (row.hash = NoHash) = (entry = NoContract)
      BY <1>1, <2>2, <2>3, NoContractIsNone DEF ValidPtr
  <2>6. ASSUME stage = "over", row # NoRow
        PROVE  (row.valid = "false") = (\E i \in DOMAIN events : events[i].kind \in Bad)
    <3>1. (row.valid = "false") = (violation.kind \in Bad)
        BY <2>2, <2>4, <2>6 DEF ValidPtr, Bad
    <3>2. CASE violation = Valid
      <4>1. Early(events)
          BY <2>6, <3>2 DEF ContractInv, EventsInv
      <4>2. \A i \in DOMAIN events : events[i].kind = "bad_timestamp"
          BY <4>1 DEF Early
      <4>3. QED
          BY <3>1, <3>2, <4>2 DEF Bad, Valid
    <3>3. CASE violation # Valid
      <4>1. PICK f : /\ f.kind = violation.kind
                     /\ events = <<f>> \/ \E e : events = <<e, f>> /\ e.kind = "bad_timestamp"
          BY <2>6, <3>3 DEF ContractInv, EventsInv
      <4>2. CASE events = <<f>>
        <5>1. DOMAIN events = {1} /\ events[1] = f
            BY <4>2, TuplesOfOneAndTwo
        <5>2. QED
            BY <3>1, <4>1, <5>1
      <4>3. CASE \E e : events = <<e, f>> /\ e.kind = "bad_timestamp"
        <5>1. PICK e : events = <<e, f>> /\ e.kind = "bad_timestamp"
            BY <4>3
        <5>2. DOMAIN events = {1, 2} /\ events[1] = e /\ events[2] = f
            BY <5>1, TuplesOfOneAndTwo
        <5>3. "bad_timestamp" \notin Bad
            BY DEF Bad
        <5>4. (\E i \in DOMAIN events : events[i].kind \in Bad) <=> f.kind \in Bad
            BY <5>1, <5>2, <5>3
        <5>5. QED
            BY <3>1, <4>1, <5>4
      <4>4. QED
          BY <4>1, <4>2, <4>3
    <3>4. QED
        BY <3>2, <3>3
  <2>7. QED
      BY <2>1, <2>5, <2>6 DEF RowAndViewAgree
<1>5. TimeIsBelieved
    BY DEF ContractInv, RowInv, TimeIsBelieved
<1>6. QED
    BY <1>2, <1>3, <1>4, <1>5 DEF ContractSound

\* For every schema and payload, every window and every time: Validate's verdict names the
\* highest fault and what has it; the row and the live envelope of a message say the same,
\* null exactly where there is no contract, false exactly where a fault is recorded; and the
\* row's time is the agent's only where withinSaneWindow's Duration can tell it is near.
THEOREM ContractIsSound == ContractSpec => []ContractSound
<1>1. ContractInv => ContractSound
    BY ContractInvIsSound
<1>2. QED
    BY <1>1, ContractBegins, ContractStep, PTL DEF ContractSpec
=============================================================================
