--------------------------- MODULE BoundedSeqProofs ---------------------------
(***************************************************************************)
(* What keeping the newest n elements of a sequence returns, for every     *)
(* sequence; the least-index principle the window sweep rests on; and that *)
(* a sum over a finite set is the sum of its parts, in whatever order.     *)
(***************************************************************************)
EXTENDS BoundedSeq, SequenceTheorems, FiniteSetTheorems, WellFoundedInduction, TLAPS

(* A non-empty set of naturals has a least element. *)
LEMMA LeastNat ==
  ASSUME NEW T \in SUBSET Nat, T # {}
  PROVE  \E n \in T : \A m \in T : n <= m
<1>1. \E n \in T : \A m \in T : <<m, n>> \notin OpToRel(<, Nat)
  BY NatLessThanWellFounded, WFMin
<1>2. PICK n \in T : \A m \in T : <<m, n>> \notin OpToRel(<, Nat)
  BY <1>1
<1>3. \A m \in T : ~(m < n)
  BY <1>2 DEF OpToRel
<1> QED
  BY <1>3

(* Dropping the first k elements of a sequence keeps the others in place. *)
LEMMA DropFirst ==
  ASSUME NEW S, NEW s \in Seq(S), NEW k \in 0..Len(s)
  PROVE  /\ SubSeq(s, k + 1, Len(s)) \in Seq(S)
         /\ Len(SubSeq(s, k + 1, Len(s))) = Len(s) - k
         /\ \A i \in 1..(Len(s) - k) : SubSeq(s, k + 1, Len(s))[i] = s[k + i]
<1>1. \A i \in (k + 1)..Len(s) : s[i] \in S
  BY ElementOfSeq
<1> QED
  BY <1>1, SubSeqProperties, LenProperties

(* Recent drops a number of the oldest elements and never keeps more than n. *)
LEMMA RecentProperties ==
  ASSUME NEW S, NEW s \in Seq(S), NEW n \in Nat
  PROVE  \E k \in 0..Len(s) :
           /\ Recent(s, n) = SubSeq(s, k + 1, Len(s))
           /\ Recent(s, n) \in Seq(S)
           /\ Len(Recent(s, n)) = Len(s) - k
           /\ Len(Recent(s, n)) <= n
           /\ \A i \in 1..(Len(s) - k) : Recent(s, n)[i] = s[k + i]
           /\ k > 0 => Len(s) - k = n
<1> DEFINE Keeps(k) ==
      /\ Recent(s, n) = SubSeq(s, k + 1, Len(s))
      /\ Recent(s, n) \in Seq(S)
      /\ Len(Recent(s, n)) = Len(s) - k
      /\ Len(Recent(s, n)) <= n
      /\ \A i \in 1..(Len(s) - k) : Recent(s, n)[i] = s[k + i]
      /\ k > 0 => Len(s) - k = n
<1>0. Len(s) \in Nat
  BY LenProperties
<1>1. CASE Len(s) > n
  <2>1. Len(s) - n \in 0..Len(s) /\ Len(s) - (Len(s) - n) = n
    BY <1>0, <1>1
  <2>2. Recent(s, n) = SubSeq(s, (Len(s) - n) + 1, Len(s))
    BY <1>1 DEF Recent
  <2>3. /\ Recent(s, n) \in Seq(S)
        /\ Len(Recent(s, n)) = Len(s) - (Len(s) - n)
        /\ \A i \in 1..(Len(s) - (Len(s) - n)) : Recent(s, n)[i] = s[(Len(s) - n) + i]
    BY <2>1, <2>2, DropFirst
  <2>4. Keeps(Len(s) - n)
    BY <2>1, <2>2, <2>3
  <2> QED
    BY <2>1, <2>4
<1>2. CASE ~(Len(s) > n)
  <2>1. Recent(s, n) = s
    BY <1>2 DEF Recent
  <2>2. SubSeq(s, 0 + 1, Len(s)) = s
    BY SubSeqFull
  <2>3. Keeps(0)
    BY <1>0, <1>2, <2>1, <2>2
  <2> QED
    BY <1>0, <2>3
<1> QED
  BY <1>1, <1>2

(* Append adds one element at the end and moves none. *)
LEMMA AppendElements ==
  ASSUME NEW S, NEW s \in Seq(S), NEW e \in S
  PROVE  /\ Append(s, e) \in Seq(S)
         /\ Len(Append(s, e)) = Len(s) + 1
         /\ \A i \in 1..Len(s) : Append(s, e)[i] = s[i]
         /\ Append(s, e)[Len(s) + 1] = e
         /\ Append(s, e) # <<>>
<1> QED
  BY AppendProperties, LenProperties, EmptySeq

(* Append adds its argument to the elements, and nothing else. *)
LEMMA AppendAddsElement ==
  ASSUME NEW S, NEW s \in Seq(S), NEW e \in S
  PROVE  Elements(Append(s, e)) = Elements(s) \cup {e}
<1> DEFINE t == Append(s, e)
<1>1. /\ DOMAIN s = 1..Len(s)
      /\ Len(s) \in Nat
      /\ t \in Seq(S)
      /\ Len(t) = Len(s) + 1
      /\ \A i \in 1..Len(s) : t[i] = s[i]
      /\ t[Len(s) + 1] = e
  BY AppendElements, LenProperties
<1> HIDE DEF t
<1>2. DOMAIN t = 1..(Len(s) + 1)
  BY <1>1, LenProperties
<1>3. \A i \in DOMAIN t : t[i] \in Elements(s) \cup {e}
  <2> SUFFICES ASSUME NEW i \in 1..(Len(s) + 1)
               PROVE  t[i] \in Elements(s) \cup {e}
    BY <1>2
  <2>1. CASE i \in 1..Len(s)
    BY <1>1, <2>1 DEF Elements
  <2>2. CASE i = Len(s) + 1
    BY <1>1, <2>2
  <2> QED
    BY <1>1, <2>1, <2>2
<1>4. \A i \in 1..Len(s) : s[i] \in Elements(t)
  BY <1>1, <1>2 DEF Elements
<1>5. e \in Elements(t)
  BY <1>1, <1>2 DEF Elements
<1>6. Elements(s) \subseteq Elements(t)
  BY <1>1, <1>4 DEF Elements
<1>7. Elements(t) \subseteq Elements(s) \cup {e}
  BY <1>3 DEF Elements
<1>8. Elements(t) = Elements(s) \cup {e}
  BY <1>5, <1>6, <1>7
<1> QED
  BY <1>8 DEF t

(* The i-th of the last n positions of a sequence of length m. *)
LEMMA TailPosition ==
  ASSUME NEW m \in Nat, NEW n \in Nat, n <= m
  PROVE  m - n \in 0..m /\ \A i \in 1..n : (m - n) + i \in 1..m
<1> QED
  OBVIOUS

(* Recent invents no element. *)
LEMMA RecentElements ==
  ASSUME NEW S, NEW s \in Seq(S), NEW n \in Nat
  PROVE  Elements(Recent(s, n)) \subseteq Elements(s)
<1> DEFINE r == Recent(s, n)
<1>1. PICK k \in 0..Len(s) :
        /\ r \in Seq(S)
        /\ Len(r) = Len(s) - k
        /\ \A i \in 1..(Len(s) - k) : r[i] = s[k + i]
  BY RecentProperties
<1> HIDE DEF r
<1>2. /\ DOMAIN r = 1..Len(r)
      /\ DOMAIN s = 1..Len(s)
      /\ Len(s) \in Nat
  BY <1>1, LenProperties
<1>3. ASSUME NEW i \in 1..Len(r)
      PROVE  r[i] \in Elements(s)
  <2>1. k + i \in 1..Len(s) /\ i \in 1..(Len(s) - k)
    BY <1>1, <1>2
  <2>2. r[i] = s[k + i]
    BY <1>1, <2>1
  <2> QED
    BY <1>2, <2>1, <2>2 DEF Elements
<1> QED
  BY <1>2, <1>3 DEF Elements, r

(* Appending to what was kept keeps the same elements as appending to all. *)
LEMMA RecentOfAppend ==
  ASSUME NEW S, NEW s \in Seq(S), NEW e \in S, NEW n \in Nat
  PROVE  Recent(Append(Recent(s, n), e), n) = Recent(Append(s, e), n)
<1>0. Len(s) \in Nat
  BY LenProperties
<1>1. CASE ~(Len(s) > n)
  BY <1>1 DEF Recent
<1>2. CASE Len(s) > n
  <2> DEFINE r == Recent(s, n)
             x == Append(r, e)
             y == Append(s, e)
             k == Len(s) - n
  <2>1. k \in 0..Len(s) /\ Len(s) - k = n /\ k \in Nat
    BY <1>0, <1>2
  <2>2. r = SubSeq(s, k + 1, Len(s))
    BY <1>2 DEF Recent
  <2>3. /\ r \in Seq(S)
        /\ Len(r) = n
        /\ \A i \in 1..n : r[i] = s[k + i]
    <3> HIDE DEF k, r
    <3> QED
      BY <2>1, <2>2, DropFirst
  <2> HIDE DEF r
  <2>4. /\ x \in Seq(S)
        /\ Len(x) = n + 1
        /\ \A i \in 1..n : x[i] = r[i]
        /\ x[n + 1] = e
    BY <2>3, AppendElements
  <2>5. /\ y \in Seq(S)
        /\ Len(y) = Len(s) + 1
        /\ \A i \in 1..Len(s) : y[i] = s[i]
        /\ y[Len(s) + 1] = e
    BY AppendElements
  <2> HIDE DEF x, y
  <2>6. /\ Recent(x, n) = SubSeq(x, 1 + 1, Len(x))
        /\ Recent(y, n) = SubSeq(y, (k + 1) + 1, Len(y))
    <3>1. /\ Len(x) > n /\ Len(x) - n + 1 = 1 + 1
          /\ Len(y) > n /\ Len(y) - n + 1 = (k + 1) + 1
      BY <1>0, <1>2, <2>4, <2>5
    <3> QED
      BY <3>1 DEF Recent
  <2>7. /\ Recent(x, n) \in Seq(S)
        /\ Len(Recent(x, n)) = n
        /\ \A i \in 1..n : Recent(x, n)[i] = x[1 + i]
    <3>1. 1 \in 0..Len(x) /\ Len(x) - 1 = n
      BY <2>4
    <3> QED
      BY <2>4, <2>6, <3>1, DropFirst
  <2>8. /\ Recent(y, n) \in Seq(S)
        /\ Len(Recent(y, n)) = n
        /\ \A i \in 1..n : Recent(y, n)[i] = y[(k + 1) + i]
    <3>1. k + 1 \in 0..Len(y) /\ Len(y) - (k + 1) = n
      BY <1>0, <2>1, <2>5, SMTT(30)
    <3> QED
      BY <2>5, <2>6, <3>1, DropFirst
  <2>9. ASSUME NEW i \in 1..n
        PROVE  x[1 + i] = y[(k + 1) + i]
    <3>1. CASE i = n
      <4>1. 1 + i = n + 1 /\ (k + 1) + i = Len(s) + 1
        BY <1>0, <2>1, <3>1
      <4> QED
        BY <2>4, <2>5, <4>1
    <3>2. CASE i # n
      <4>1. /\ 1 + i \in 1..n
            /\ k + (1 + i) \in 1..Len(s)
            /\ k + (1 + i) = (k + 1) + i
        BY <1>0, <1>2, <2>1, <3>2
      <4> QED
        BY <2>3, <2>4, <2>5, <4>1
    <3> QED
      BY <3>1, <3>2
  <2>10. Recent(x, n) = Recent(y, n)
    BY <2>7, <2>8, <2>9, SeqEqual
  <2> QED
    BY <2>10 DEF x, y, r
<1> QED
  BY <1>1, <1>2

-------------------------------------------------------------------------------
(* Sums over a finite set *)

\* h is the recursive function by which a sum of the values v over S is computed, on
\* some of the subsets of S.
Pick(s) == CHOOSE x \in s : TRUE
Adds(h, v, s) == h[s] = IF s = {} THEN 0 ELSE v[Pick(s)] + h[s \ {Pick(s)}]

(* A family of finite sets in which each set can lose an element is empty. *)
LEMMA NoDescent ==
  ASSUME NEW S, IsFiniteSet(S), NEW F \in SUBSET (SUBSET S),
         \A s \in F : \E y \in s : s \ {y} \in F
  PROVE  F = {}
<1> DEFINE Sizes == {Cardinality(s) : s \in F}
<1>1. \A s \in F : IsFiniteSet(s) /\ Cardinality(s) \in Nat
  BY FS_Subset, FS_CardinalityType
<1>2. ASSUME NEW n \in Sizes, \A m \in Sizes : n <= m
      PROVE  FALSE
  <2>1. PICK s \in F : n = Cardinality(s)
    BY <1>2
  <2>2. PICK y \in s : s \ {y} \in F
    BY <2>1
  <2>3. Cardinality(s \ {y}) = Cardinality(s) - 1
    BY <1>1, <2>2, FS_RemoveElement
  <2>4. n <= Cardinality(s) - 1
    BY <1>2, <2>2, <2>3
  <2> QED
    BY <1>1, <2>1, <2>4
<1>3. Sizes \in SUBSET Nat
  BY <1>1
<1>4. Sizes = {}
  <2> HIDE DEF Sizes
  <2> QED
    BY <1>2, <1>3, LeastNat
<1> QED
  BY <1>4

(* That function exists. *)
LEMMA SumExists ==
  ASSUME NEW S, IsFiniteSet(S), NEW v \in [S -> Nat]
  PROVE  \E h \in [SUBSET S -> Nat] : \A s \in SUBSET S : Adds(h, v, s)
<1> DEFINE Upto(n) == {s \in SUBSET S : Cardinality(s) <= n}
           Missing == {n \in Nat :
                         ~ \E h \in [Upto(n) -> Nat] : \A s \in Upto(n) : Adds(h, v, s)}
<1>1. \A s \in SUBSET S : IsFiniteSet(s) /\ Cardinality(s) \in Nat
  BY FS_Subset, FS_CardinalityType
<1>2. ASSUME NEW n \in Missing, \A m \in Missing : n <= m
      PROVE  FALSE
  <2>1. n \in Nat /\ ~ \E h \in [Upto(n) -> Nat] : \A s \in Upto(n) : Adds(h, v, s)
    BY <1>2
  <2>2. ASSUME NEW s \in Upto(n), s # {}
        PROVE  /\ n # 0 /\ Pick(s) \in S /\ v[Pick(s)] \in Nat
               /\ s \ {Pick(s)} \in Upto(n - 1)
    <3>1. s \in SUBSET S /\ Cardinality(s) <= n /\ Pick(s) \in s
      BY <2>2 DEF Pick
    <3>2. Cardinality(s \ {Pick(s)}) = Cardinality(s) - 1 /\ Cardinality(s \ {Pick(s)}) \in Nat
      BY <1>1, <3>1, FS_RemoveElement
    <3>3. Cardinality(s) \in Nat
      BY <1>1, <3>1
    <3> QED
      BY <2>1, <3>1, <3>2, <3>3
  <2>3. PICK k : \A s \in Upto(n) : s # {} =>
                    /\ k[s \ {Pick(s)}] \in Nat
                    /\ Adds(k, v, s \ {Pick(s)})
                    /\ n - 1 \in Nat
    <3>1. CASE n = 0
      <4>1. \A s \in Upto(n) : s = {}
        BY <2>2, <3>1
      <4> QED
        BY <4>1
    <3>2. CASE n # 0
      <4>1. n - 1 \in Nat /\ n - 1 \notin Missing
        <5>1. n - 1 \in Nat /\ ~(n <= n - 1)
          BY <2>1, <3>2
        <5> HIDE DEF Missing
        <5> QED
          BY <1>2, <5>1
      <4>2. PICK h \in [Upto(n - 1) -> Nat] : \A s \in Upto(n - 1) : Adds(h, v, s)
        BY <4>1
      <4> HIDE DEF Upto, Missing
      <4> QED
        BY <2>2, <4>1, <4>2
    <3> QED
      BY <3>1, <3>2
  <2> HIDE DEF Missing
  <2> DEFINE g == [s \in Upto(n) |-> IF s = {} THEN 0 ELSE v[Pick(s)] + k[s \ {Pick(s)}]]
  <2>4. g \in [Upto(n) -> Nat]
    <3>1. ASSUME NEW s \in Upto(n), s # {}
          PROVE  v[Pick(s)] + k[s \ {Pick(s)}] \in Nat
      <4>1. v[Pick(s)] \in Nat
        BY <2>2, <3>1
      <4> HIDE DEF Upto
      <4>2. k[s \ {Pick(s)}] \in Nat
        BY <2>3, <3>1
      <4> QED
        BY <4>1, <4>2
    <3> HIDE DEF Upto
    <3> QED
      BY <3>1
  <2>5. ASSUME NEW s \in Upto(n)
        PROVE  Adds(g, v, s)
    <3>1. CASE s = {}
      BY <3>1 DEF Adds
    <3>2. CASE s # {}
      <4>1. PICK r : r = s \ {Pick(s)}
        OBVIOUS
      <4>2. r \in Upto(n)
        <5>1. r \in Upto(n - 1)
          BY <2>2, <3>2, <4>1
        <5> QED
          BY <1>1, <2>1, <5>1
      <4> HIDE DEF Upto
      <4>3. g[r] = IF r = {} THEN 0 ELSE v[Pick(r)] + k[r \ {Pick(r)}]
        BY <4>2
      <4>4. k[r] = g[r]
        BY <2>3, <3>2, <4>1, <4>3 DEF Adds
      <4>5. g[s] = v[Pick(s)] + k[r]
        BY <3>2, <4>1
      <4> HIDE DEF g
      <4> QED
        BY <3>2, <4>1, <4>4, <4>5 DEF Adds
    <3> QED
      BY <3>1, <3>2
  <2> QED
    BY <2>1, <2>4, <2>5
<1>3. Missing = {}
  <2>1. Missing \in SUBSET Nat
    OBVIOUS
  <2> HIDE DEF Missing
  <2> QED
    BY <1>2, <2>1, LeastNat
<1>4. PICK n : n = Cardinality(S)
  OBVIOUS
<1>5. n \in Nat /\ Upto(n) = SUBSET S
  <2>1. \A s \in SUBSET S : Cardinality(s) <= n
    BY <1>4, FS_Subset
  <2> QED
    BY <1>1, <1>4, <2>1
<1> QED
  BY <1>3, <1>5

\* The sum h of the values v, whatever order its terms are added in.
Totals(h, v, S) ==
  /\ h[{}] = 0
  /\ \A s \in SUBSET S : h[s] \in Nat
  /\ \A s \in SUBSET S : \A y \in s : h[s] = v[y] + h[s \ {y}]

(* The order in which a sum is computed does not matter. *)
LEMMA OrderIrrelevant ==
  ASSUME NEW S, IsFiniteSet(S), NEW v \in [S -> Nat],
         NEW h, \A s \in SUBSET S : Adds(h, v, s)
  PROVE  Totals(h, v, S)
<1> DEFINE Untyped == {s \in SUBSET S : h[s] \notin Nat}
           Good(s) == \A y \in s : h[s] = v[y] + h[s \ {y}]
           Bad == {s \in SUBSET S : ~Good(s)}
<1>0. h[{}] = 0
  BY DEF Adds
<1>1. \A s \in SUBSET S : h[s] \in Nat
  <2>1. ASSUME NEW s \in Untyped
        PROVE  \E y \in s : s \ {y} \in Untyped
    <3>1. s \in SUBSET S /\ s # {}
      BY <1>0, <2>1
    <3>2. PICK x \in s : x = Pick(s)
      BY <3>1 DEF Pick
    <3>3. h[s] = v[x] + h[s \ {x}] /\ v[x] \in Nat
      BY <3>1, <3>2 DEF Adds
    <3>4. s \ {x} \in SUBSET S /\ h[s] \notin Nat
      BY <2>1, <3>1
    <3>5. h[s \ {x}] \notin Nat
      BY <3>3, <3>4
    <3> QED
      BY <3>2, <3>4, <3>5
  <2>2. Untyped \in SUBSET (SUBSET S)
    OBVIOUS
  <2>3. Untyped = {}
    <3> HIDE DEF Untyped
    <3> QED
      BY <2>1, <2>2, NoDescent
  <2> QED
    BY <2>3
<1>2. ASSUME NEW s \in Bad
      PROVE  \E y \in s : s \ {y} \in Bad
  <2>1. SUFFICES ASSUME \A y \in s : Good(s \ {y})
                 PROVE  FALSE
    BY <1>2
  <2>2. s \in SUBSET S /\ s # {}
    BY <1>2
  <2>3. PICK x \in s : x = Pick(s)
    BY <2>2 DEF Pick
  <2>4. h[s] = v[x] + h[s \ {x}]
    BY <2>2, <2>3 DEF Adds
  <2>5. ASSUME NEW y \in s, y # x
        PROVE  h[s] = v[y] + h[s \ {y}]
    <3>1. PICK r : r = (s \ {x}) \ {y}
      OBVIOUS
    <3>2. r = (s \ {y}) \ {x} /\ y \in s \ {x} /\ x \in s \ {y}
      BY <2>5, <3>1
    <3>3. h[s \ {x}] = v[y] + h[r]
      BY <2>1, <3>1, <3>2
    <3>4. h[s \ {y}] = v[x] + h[r]
      BY <2>1, <3>2
    <3>5. v[y] \in Nat /\ v[x] \in Nat /\ h[r] \in Nat
      BY <1>1, <2>2, <3>1
    <3> QED
      BY <2>4, <3>3, <3>4, <3>5
  <2>6. Good(s)
    BY <2>4, <2>5
  <2> QED
    BY <1>2, <2>6
<1>3. Bad = {}
  <2>1. Bad \in SUBSET (SUBSET S)
    OBVIOUS
  <2> HIDE DEF Bad
  <2> QED
    BY <1>2, <2>1, NoDescent
<1>4. \A s \in SUBSET S : Good(s)
  <2> HIDE DEF Good
  <2> QED
    BY <1>3
<1> QED
  BY <1>0, <1>1, <1>4 DEF Totals

===============================================================================
