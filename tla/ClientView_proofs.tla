------------------------- MODULE ClientView_proofs -------------------------
(***************************************************************************)
(* What holds of ClientView for every value of its constants.              *)
(***************************************************************************)
EXTENDS ClientView, WellFoundedInduction, SequenceTheorems, TLAPS

----------------------------------------------------------------------------
(* Induction.  The library's induction theorems speak of an operator; here *)
(* they are stated of a set, the numbers or sequences a fact holds of.     *)

LEMMA SmallestOf ==
    ASSUME NEW S, S \subseteq Nat, S # {}
    PROVE  \E x \in S : \A y \in S : x <= y
<1>1. PICK x \in S : \A y \in S : <<y, x>> \notin OpToRel(<, Nat)
  BY NatLessThanWellFounded, WFMin, Zenon
<1>2. \A y \in S : ~(y < x)
  BY <1>1, Zenon DEF OpToRel
<1> QED
  BY <1>2

LEMMA NatInd ==
    ASSUME NEW S, 0 \in S, \A n \in Nat : n \in S => n + 1 \in S
    PROVE  Nat \subseteq S
<1>. DEFINE D == Nat \ S
<1>. SUFFICES ASSUME D # {} PROVE FALSE
  OBVIOUS
<1>1. PICK x \in D : \A y \in D : x <= y
  <2>. HIDE DEF D
  <2>1. D \subseteq Nat
    BY DEF D
  <2> QED
    BY <2>1, SmallestOf
<1>2. x - 1 \in Nat /\ x = (x - 1) + 1
  OBVIOUS
<1>3. x - 1 \in S
  BY <1>1, <1>2
<1> QED
  BY <1>2, <1>3

LEMMA SeqInd ==
    ASSUME NEW X, NEW S, <<>> \in S,
           \A s \in Seq(X), x \in X : s \in S => Append(s, x) \in S
    PROVE  Seq(X) \subseteq S
<1>. DEFINE L == {n \in Nat : \A s \in Seq(X) : Len(s) = n => s \in S}
<1>1. 0 \in L
  BY EmptySeq
<1>2. ASSUME NEW n \in Nat, n \in L PROVE n + 1 \in L
  <2>. SUFFICES ASSUME NEW s \in Seq(X), Len(s) = n + 1 PROVE s \in S
    OBVIOUS
  <2>. DEFINE f == SubSeq(s, 1, n)
  <2>1. f \in Seq(X) /\ Len(f) = n /\ s[n + 1] \in X /\ s = Append(f, s[n + 1])
    OBVIOUS
  <2> QED
    BY <1>2, <2>1
<1>3. Nat \subseteq L
  <2>. HIDE DEF L
  <2> QED
    BY <1>1, <1>2, NatInd
<1> QED
  BY <1>3

\* What holds of a function's first value and passes on holds of all.
LEMMA InSteps ==
    ASSUME NEW V, NEW n \in Nat, NEW w, w[0] \in V,
           \A i \in 1..n : w[i - 1] \in V => w[i] \in V
    PROVE  \A i \in 0..n : w[i] \in V
<1>. DEFINE L == {k \in Nat : k <= n => w[k] \in V}
<1>1. 0 \in L
  OBVIOUS
<1>2. ASSUME NEW k \in Nat, k \in L PROVE k + 1 \in L
  <2>1. (k + 1) - 1 = k
    OBVIOUS
  <2> QED
    BY <2>1, <1>2
<1>3. Nat \subseteq L
  <2>. HIDE DEF L
  <2> QED
    BY <1>1, <1>2, NatInd
<1> QED
  BY <1>3

\* A function computed step by step from a first value.
Computed(f, V, n, first, step) ==
    /\ f \in [0..n -> V]
    /\ f[0] = first
    /\ \A i \in 1..n : f[i] = step[i][f[i - 1]]

LEMMA Recursion ==
    ASSUME NEW V, NEW n \in Nat, NEW first \in V, NEW step, step \in [1..n -> [V -> V]]
    PROVE  \E f : Computed(f, V, n, first, step)
<1>. DEFINE L == {k \in Nat : k <= n =>
                    \E f \in [0..k -> V] :
                       /\ f[0] = first
                       /\ \A i \in 1..k : f[i] = step[i][f[i - 1]]}
<1>1. 0 \in L
  <2>. DEFINE f == [i \in 0..0 |-> first]
  <2>1. f \in [0..0 -> V] /\ f[0] = first /\ \A i \in 1..0 : f[i] = step[i][f[i - 1]]
    OBVIOUS
  <2> QED
    BY <2>1
<1>2. ASSUME NEW k \in Nat, k \in L PROVE k + 1 \in L
  <2>. SUFFICES ASSUME k + 1 <= n
                PROVE  \E f \in [0..(k + 1) -> V] :
                          /\ f[0] = first
                          /\ \A i \in 1..(k + 1) : f[i] = step[i][f[i - 1]]
    OBVIOUS
  <2>1. PICK f \in [0..k -> V] :
               /\ f[0] = first
               /\ \A i \in 1..k : f[i] = step[i][f[i - 1]]
    BY <1>2
  <2>. DEFINE g == [i \in 0..(k + 1) |-> IF i <= k THEN f[i] ELSE step[k + 1][f[k]]]
  <2>2. step[k + 1][f[k]] \in V
    OBVIOUS
  <2>3. g \in [0..(k + 1) -> V]
    BY <2>2
  <2>4. g[0] = first
    BY <2>1
  <2>5. ASSUME NEW i \in 1..(k + 1) PROVE g[i] = step[i][g[i - 1]]
    BY <2>1
  <2> QED
    BY <2>3, <2>4, <2>5
<1>3. Nat \subseteq L
  <2>. HIDE DEF L
  <2> QED
    BY <1>1, <1>2, NatInd
<1> QED
  BY <1>3 DEF Computed

----------------------------------------------------------------------------
(* What is in a sequence, and whether it is there once *)

LEMMA AppendFacts ==
    ASSUME NEW X, NEW s \in Seq(X), NEW x \in X
    PROVE  /\ Append(s, x) \in Seq(X)
           /\ ToSet(Append(s, x)) = ToSet(s) \cup {x}
           /\ IsInjective(Append(s, x)) <=> IsInjective(s) /\ x \notin ToSet(s)
<1>. DEFINE r == Append(s, x)
            n == Len(s)
<1>1. /\ r \in Seq(X) /\ n \in Nat /\ DOMAIN r = 1..(n + 1) /\ DOMAIN s = 1..n
      /\ r[n + 1] = x /\ \A i \in 1..n : r[i] = s[i]
  OBVIOUS
<1>. HIDE DEF r, n
<1>2. ToSet(r) = ToSet(s) \cup {x}
  BY <1>1 DEF ToSet
<1>3. ASSUME IsInjective(r) PROVE IsInjective(s) /\ x \notin ToSet(s)
  BY <1>1, <1>3 DEF IsInjective, ToSet
<1>4. ASSUME IsInjective(s), x \notin ToSet(s) PROVE IsInjective(r)
  BY <1>1, <1>4 DEF IsInjective, ToSet
<1> QED
  BY <1>1, <1>2, <1>3, <1>4 DEF r

LEMMA ConcatFacts ==
    ASSUME NEW X, NEW s \in Seq(X), NEW t \in Seq(X)
    PROVE  /\ s \o t \in Seq(X)
           /\ ToSet(s \o t) = ToSet(s) \cup ToSet(t)
           /\ IsInjective(s) /\ IsInjective(t) /\ ToSet(s) \cap ToSet(t) = {}
              => IsInjective(s \o t)
<1>. DEFINE r == s \o t
            m == Len(s)
            n == Len(t)
<1>1. /\ r \in Seq(X) /\ m \in Nat /\ n \in Nat
      /\ DOMAIN r = 1..(m + n) /\ DOMAIN s = 1..m /\ DOMAIN t = 1..n
      /\ \A i \in 1..m : r[i] = s[i]
      /\ \A i \in (m + 1)..(m + n) : r[i] = t[i - m]
  OBVIOUS
<1>2. \A i \in 1..n : r[i + m] = t[i] /\ i + m \in 1..(m + n)
  BY <1>1
<1>3. \A i \in (m + 1)..(m + n) : i - m \in 1..n
  BY <1>1
<1>4. \A i \in 1..(m + n) : i \in 1..m \/ i \in (m + 1)..(m + n)
  BY <1>1
<1>5. 1..m \subseteq 1..(m + n)
  BY <1>1
<1>. HIDE DEF r, m, n
<1>6. ToSet(r) = ToSet(s) \cup ToSet(t)
  <2>1. \A i \in 1..(m + n) : r[i] \in ToSet(s) \cup ToSet(t)
    BY <1>1, <1>3, <1>4 DEF ToSet
  <2>2. \A i \in 1..m : s[i] \in ToSet(r)
    BY <1>1, <1>5 DEF ToSet
  <2>3. \A i \in 1..n : t[i] \in ToSet(r)
    BY <1>1, <1>2 DEF ToSet
  <2>4. ToSet(r) \subseteq ToSet(s) \cup ToSet(t)
    BY <2>1, <1>1, Zenon DEF ToSet
  <2>5. ToSet(s) \subseteq ToSet(r) /\ ToSet(t) \subseteq ToSet(r)
    BY <2>2, <2>3, <1>1, Zenon DEF ToSet
  <2> QED
    BY <2>4, <2>5
<1>7. ASSUME IsInjective(s), IsInjective(t), ToSet(s) \cap ToSet(t) = {}
      PROVE  IsInjective(r)
  <2>. SUFFICES ASSUME NEW i \in 1..(m + n), NEW j \in 1..(m + n), r[i] = r[j]
                PROVE  i = j
    BY <1>1 DEF IsInjective
  <2>1. CASE i \in 1..m /\ j \in 1..m
    BY <1>1, <1>7, <2>1 DEF IsInjective
  <2>2. CASE i \in (m + 1)..(m + n) /\ j \in (m + 1)..(m + n)
    <3>1. t[i - m] = t[j - m] /\ i - m \in 1..n /\ j - m \in 1..n
      BY <1>1, <1>3, <2>2
    <3>2. i - m = j - m
      BY <1>1, <1>7, <3>1 DEF IsInjective
    <3> QED
      BY <1>1, <3>2
  <2>3. CASE i \in 1..m /\ j \in (m + 1)..(m + n)
    BY <1>1, <1>3, <1>7, <2>3 DEF ToSet
  <2>4. CASE j \in 1..m /\ i \in (m + 1)..(m + n)
    BY <1>1, <1>3, <1>7, <2>4 DEF ToSet
  <2> QED
    BY <1>4, <2>1, <2>2, <2>3, <2>4
<1> QED
  BY <1>1, <1>6, <1>7 DEF r

----------------------------------------------------------------------------
(* Without *)

\* w[i] is what is left of the first i.
Dropping(w, X, q, S) ==
    /\ w \in [0..Len(q) -> Seq(X)]
    /\ Without(q, S) = w[Len(q)]
    /\ w[0] = <<>>
    /\ \A i \in 1..Len(q) :
          w[i] = IF q[i] \in S THEN w[i - 1] ELSE Append(w[i - 1], q[i])

LEMMA WithoutRec ==
    ASSUME NEW X, NEW q \in Seq(X), NEW S
    PROVE  \E w : Dropping(w, X, q, S)
<1>. DEFINE next(v, i) == IF q[i] \in S THEN v ELSE Append(v, q[i])
            step == [i \in 1..Len(q) |-> [v \in Seq(X) |-> next(v, i)]]
            Eq(w) == w = [i \in 0..Len(q) |->
                            IF i = 0 THEN <<>>
                            ELSE IF q[i] \in S THEN w[i - 1]
                            ELSE Append(w[i - 1], q[i])]
<1>1. step \in [1..Len(q) -> [Seq(X) -> Seq(X)]] /\ Len(q) \in Nat
  OBVIOUS
<1>2. PICK f : Computed(f, Seq(X), Len(q), <<>>, step)
  <2>. HIDE DEF step
  <2>1. <<>> \in Seq(X)
    OBVIOUS
  <2> QED
    BY <1>1, <2>1, Recursion, Zenon
<1>3. \A i \in 1..Len(q) :
         f[i] = IF q[i] \in S THEN f[i - 1] ELSE Append(f[i - 1], q[i])
  <2>. TAKE i \in 1..Len(q)
  <2>1. f[i] = step[i][f[i - 1]]
    BY <1>2 DEF Computed
  <2>2. f[i - 1] \in Seq(X)
    BY <1>1, <1>2 DEF Computed
  <2>3. step[i][f[i - 1]] = next(f[i - 1], i)
    BY <2>2
  <2> QED
    BY <2>1, <2>3
<1>. HIDE DEF step
<1>4. Eq(f)
  <2>. DEFINE g == [i \in 0..Len(q) |-> IF i = 0 THEN <<>>
                                        ELSE IF q[i] \in S THEN f[i - 1]
                                        ELSE Append(f[i - 1], q[i])]
  <2>1. \A i \in 0..Len(q) : f[i] = g[i]
    <3>. TAKE i \in 0..Len(q)
    <3>1. CASE i = 0
      BY <1>2, <3>1 DEF Computed
    <3>2. CASE i # 0
      <4>1. i \in 1..Len(q)
        BY <1>1, <3>2
      <4> QED
        BY <1>3, <3>2, <4>1
    <3> QED
      BY <3>1, <3>2
  <2>2. f = [i \in 0..Len(q) |-> f[i]]
    BY <1>2 DEF Computed
  <2> QED
    BY <2>1, <2>2
<1>. DEFINE w == CHOOSE x : Eq(x)
<1>5. Without(q, S) = w[Len(q)]
  BY Zenon DEF Without
<1>6. w = [i \in 0..Len(q) |->
             IF i = 0 THEN <<>>
             ELSE IF q[i] \in S THEN w[i - 1]
             ELSE Append(w[i - 1], q[i])]
  BY <1>4, Zenon
<1>. HIDE DEF w
<1>7. w[0] = <<>>
  BY <1>6
<1>8. \A i \in 1..Len(q) :
         w[i] = IF q[i] \in S THEN w[i - 1] ELSE Append(w[i - 1], q[i])
  <2>. TAKE i \in 1..Len(q)
  <2>1. i \in 0..Len(q) /\ i # 0
    BY <1>1
  <2> QED
    BY <1>6, <2>1, Zenon
<1>9. \A i \in 0..Len(q) : w[i] \in Seq(X)
  <2>1. \A i \in 1..Len(q) : w[i - 1] \in Seq(X) => w[i] \in Seq(X)
    <3>. TAKE i \in 1..Len(q)
    <3>. HAVE w[i - 1] \in Seq(X)
    <3>1. Append(w[i - 1], q[i]) \in Seq(X)
      OBVIOUS
    <3> QED
      BY <1>8, <3>1, Zenon
  <2>2. w[0] \in Seq(X)
    BY <1>7
  <2> QED
    BY <1>1, <2>1, <2>2, InSteps, Zenon
<1>10. w \in [0..Len(q) -> Seq(X)]
  BY <1>6, <1>9
<1> QED
  BY <1>5, <1>7, <1>8, <1>10, Zenon DEF Dropping

LEMMA WithoutEmpty ==
    ASSUME NEW S PROVE Without(<<>>, S) = <<>>
<1>1. <<>> \in Seq({}) /\ Len(<<>>) = 0
  OBVIOUS
<1>2. PICK w : Dropping(w, {}, <<>>, S)
  BY <1>1, WithoutRec, Zenon
<1>3. Without(<<>>, S) = w[Len(<<>>)] /\ w[0] = <<>>
  BY <1>2, Zenon DEF Dropping
<1> QED
  BY <1>1, <1>3, Zenon

LEMMA WithoutAppend ==
    ASSUME NEW X, NEW q \in Seq(X), NEW x \in X, NEW S
    PROVE  Without(Append(q, x), S) =
              IF x \in S THEN Without(q, S) ELSE Append(Without(q, S), x)
<1>. DEFINE r == Append(q, x)
            n == Len(q)
<1>1. r \in Seq(X) /\ Len(r) = n + 1 /\ n \in Nat /\ r[n + 1] = x
      /\ \A i \in 1..n : r[i] = q[i]
  OBVIOUS
<1>. HIDE DEF r
<1>2. PICK v : Dropping(v, X, q, S)
  BY WithoutRec, Zenon
<1>3. PICK w : Dropping(w, X, r, S)
  BY <1>1, WithoutRec, Zenon
<1>. HIDE DEF n
<1>4. \A k \in Nat : k + 1 \in 1..n /\ w[k] = v[k] => w[k + 1] = v[k + 1]
  <2>. TAKE k \in Nat
  <2>. HAVE k + 1 \in 1..n /\ w[k] = v[k]
  <2>1. k + 1 \in 1..(n + 1) /\ (k + 1) - 1 = k /\ r[k + 1] = q[k + 1]
    BY <1>1
  <2> QED
    BY <1>1, <1>2, <1>3, <2>1, Zenon DEF Dropping, n
<1>. DEFINE L == {k \in Nat : k <= n => w[k] = v[k]}
<1>5. Nat \subseteq L
  <2>1. 0 \in L
    BY <1>2, <1>3, Zenon DEF Dropping
  <2>2. \A k \in Nat : k \in L => k + 1 \in L
    <3>. TAKE k \in Nat
    <3>. HAVE k \in L
    <3>. SUFFICES ASSUME k + 1 <= n PROVE w[k + 1] = v[k + 1]
      OBVIOUS
    <3>1. k + 1 \in 1..n /\ w[k] = v[k]
      BY <1>1
    <3> QED
      BY <1>4, <3>1, Zenon
  <2>. HIDE DEF L
  <2> QED
    BY <2>1, <2>2, NatInd
<1>6. w[n] = v[n]
  BY <1>1, <1>5
<1>7. n + 1 \in 1..(n + 1) /\ (n + 1) - 1 = n
  BY <1>1
<1>8. w[n + 1] = IF x \in S THEN w[n] ELSE Append(w[n], x)
  BY <1>1, <1>3, <1>7, Zenon DEF Dropping
<1> QED
  BY <1>1, <1>2, <1>3, <1>6, <1>8, Zenon DEF r, n, Dropping

LEMMA WithoutType ==
    ASSUME NEW X, NEW q \in Seq(X), NEW S
    PROVE  Without(q, S) \in Seq(X)
<1>1. Len(q) \in 0..Len(q)
  OBVIOUS
<1>2. PICK w : Dropping(w, X, q, S)
  BY WithoutRec, Zenon
<1> QED
  BY <1>1, <1>2, Zenon DEF Dropping

LEMMA WithoutSet ==
    ASSUME NEW X, NEW q \in Seq(X), NEW S
    PROVE  /\ ToSet(Without(q, S)) = ToSet(q) \ S
           /\ IsInjective(q) => IsInjective(Without(q, S))
<1>. DEFINE T == {r \in Seq(X) : /\ ToSet(Without(r, S)) = ToSet(r) \ S
                                 /\ IsInjective(r) => IsInjective(Without(r, S))}
<1>1. <<>> \in T
  BY WithoutEmpty DEF ToSet, IsInjective
<1>2. ASSUME NEW r \in Seq(X), NEW x \in X, r \in T PROVE Append(r, x) \in T
  <2>. DEFINE w == Without(r, S)
  <2>1. w \in Seq(X)
    BY WithoutType
  <2>2. Without(Append(r, x), S) = IF x \in S THEN w ELSE Append(w, x)
    BY WithoutAppend
  <2>. HIDE DEF w
  <2>3. /\ Append(r, x) \in Seq(X)
        /\ ToSet(Append(r, x)) = ToSet(r) \cup {x}
        /\ IsInjective(Append(r, x)) <=> IsInjective(r) /\ x \notin ToSet(r)
    BY AppendFacts
  <2>4. /\ ToSet(Append(w, x)) = ToSet(w) \cup {x}
        /\ IsInjective(Append(w, x)) <=> IsInjective(w) /\ x \notin ToSet(w)
    BY <2>1, AppendFacts
  <2>5. ToSet(w) = ToSet(r) \ S /\ (IsInjective(r) => IsInjective(w))
    BY <1>2 DEF w
  <2>6. ToSet(Without(Append(r, x), S)) = ToSet(Append(r, x)) \ S
    BY <2>2, <2>3, <2>4, <2>5
  <2>7. IsInjective(Append(r, x)) => IsInjective(Without(Append(r, x), S))
    BY <2>2, <2>3, <2>4, <2>5
  <2> QED
    BY <2>3, <2>6, <2>7
<1>3. Seq(X) \subseteq T
  <2>. HIDE DEF T
  <2> QED
    BY <1>1, <1>2, SeqInd, Zenon
<1> QED
  BY <1>3

LEMMA WithoutNone ==
    ASSUME NEW X, NEW q \in Seq(X), NEW S, ToSet(q) \cap S = {}
    PROVE  Without(q, S) = q
<1>. DEFINE T == {r \in Seq(X) : ToSet(r) \cap S = {} => Without(r, S) = r}
<1>1. <<>> \in T
  BY WithoutEmpty
<1>2. ASSUME NEW r \in Seq(X), NEW x \in X, r \in T PROVE Append(r, x) \in T
  <2>1. Without(Append(r, x), S) =
           IF x \in S THEN Without(r, S) ELSE Append(Without(r, S), x)
    BY WithoutAppend
  <2>2. Append(r, x) \in Seq(X) /\ ToSet(Append(r, x)) = ToSet(r) \cup {x}
    BY AppendFacts, Zenon
  <2>3. ASSUME ToSet(Append(r, x)) \cap S = {} PROVE Without(Append(r, x), S) = Append(r, x)
    <3>1. ToSet(r) \cap S = {} /\ x \notin S
      BY <2>2, <2>3
    <3> QED
      BY <1>2, <2>1, <3>1
  <2> QED
    BY <2>2, <2>3
<1>3. Seq(X) \subseteq T
  <2>. HIDE DEF T
  <2> QED
    BY <1>1, <1>2, SeqInd, Zenon
<1> QED
  BY <1>3

LEMMA WithoutTwice ==
    ASSUME NEW X, NEW q \in Seq(X), NEW S, NEW R
    PROVE  Without(Without(q, S), R) = Without(q, S \cup R)
<1>. DEFINE T == {r \in Seq(X) : Without(Without(r, S), R) = Without(r, S \cup R)}
<1>1. <<>> \in T
  BY WithoutEmpty
<1>2. ASSUME NEW r \in Seq(X), NEW x \in X, r \in T PROVE Append(r, x) \in T
  <2>. DEFINE w == Without(r, S)
  <2>1. w \in Seq(X)
    BY WithoutType
  <2>2. Without(Append(r, x), S) = IF x \in S THEN w ELSE Append(w, x)
    BY WithoutAppend
  <2>3. Without(Append(r, x), S \cup R) =
           IF x \in S \cup R THEN Without(r, S \cup R) ELSE Append(Without(r, S \cup R), x)
    <3>1. \A U : Without(Append(r, x), U) =
                    IF x \in U THEN Without(r, U) ELSE Append(Without(r, U), x)
      BY WithoutAppend
    <3> QED
      BY <3>1
  <2>. HIDE DEF w
  <2>4. Without(Append(w, x), R) = IF x \in R THEN Without(w, R) ELSE Append(Without(w, R), x)
    BY <2>1, WithoutAppend
  <2>5. Without(w, R) = Without(r, S \cup R)
    BY <1>2 DEF w
  <2>6. Append(r, x) \in Seq(X)
    OBVIOUS
  <2>7. Without(Without(Append(r, x), S), R) = Without(Append(r, x), S \cup R)
    BY <2>2, <2>3, <2>4, <2>5
  <2> QED
    BY <2>6, <2>7
<1>3. Seq(X) \subseteq T
  <2>. HIDE DEF T
  <2> QED
    BY <1>1, <1>2, SeqInd, Zenon
<1> QED
  BY <1>3

LEMMA WithoutConcat ==
    ASSUME NEW X, NEW q \in Seq(X), NEW p \in Seq(X), NEW S
    PROVE  Without(q \o p, S) = Without(q, S) \o Without(p, S)
<1>. DEFINE T == {r \in Seq(X) : Without(q \o r, S) = Without(q, S) \o Without(r, S)}
<1>1. <<>> \in T
  BY WithoutEmpty, WithoutType
<1>2. ASSUME NEW r \in Seq(X), NEW x \in X, r \in T PROVE Append(r, x) \in T
  <2>1. q \o Append(r, x) = Append(q \o r, x) /\ q \o r \in Seq(X) /\ Append(r, x) \in Seq(X)
    OBVIOUS
  <2>2. Without(Append(q \o r, x), S) =
           IF x \in S THEN Without(q \o r, S) ELSE Append(Without(q \o r, S), x)
    <3>. DEFINE s == q \o r
    <3>1. s \in Seq(X)
      OBVIOUS
    <3>. HIDE DEF s, T
    <3>2. Without(Append(s, x), S) =
             IF x \in S THEN Without(s, S) ELSE Append(Without(s, S), x)
      BY <3>1, WithoutAppend
    <3> QED
      BY <3>2 DEF s
  <2>3. Without(Append(r, x), S) =
           IF x \in S THEN Without(r, S) ELSE Append(Without(r, S), x)
    BY WithoutAppend
  <2>4. Without(q, S) \in Seq(X) /\ Without(r, S) \in Seq(X)
    BY WithoutType
  <2>5. Without(q, S) \o Append(Without(r, S), x) = Append(Without(q, S) \o Without(r, S), x)
    BY <2>4
  <2>6. Without(q \o r, S) = Without(q, S) \o Without(r, S)
    BY <1>2
  <2>7. Without(q \o Append(r, x), S) = Without(q, S) \o Without(Append(r, x), S)
    BY <2>1, <2>2, <2>3, <2>5, <2>6, Zenon
  <2> QED
    BY <2>1, <2>7
<1>3. Seq(X) \subseteq T
  <2>. HIDE DEF T
  <2> QED
    BY <1>1, <1>2, SeqInd, Zenon
<1> QED
  BY <1>3

----------------------------------------------------------------------------
(* The passes of a replay *)

\* left[k] is what is left of q after k passes.
Passing(left, X, b, q) ==
    /\ Passes(b, q) = left
    /\ left \in [0..Len(q) -> Seq(X)]
    /\ left[0] = q
    /\ \A k \in 1..Len(q) :
          left[k] = Without(left[k - 1], RefusedIn(b, left[k - 1]))

LEMMA PassesRec ==
    ASSUME NEW X, NEW b, NEW q \in Seq(X)
    PROVE  \E left : Passing(left, X, b, q)
<1>. DEFINE next(v) == Without(v, RefusedIn(b, v))
            step == [i \in 1..Len(q) |-> [v \in Seq(X) |-> next(v)]]
            Eq(w) == w = [k \in 0..Len(q) |->
                            IF k = 0 THEN q
                            ELSE Without(w[k - 1], RefusedIn(b, w[k - 1]))]
<1>1. Len(q) \in Nat
  OBVIOUS
<1>2. \A v \in Seq(X) : next(v) \in Seq(X)
  BY WithoutType, Zenon
<1>3. step \in [1..Len(q) -> [Seq(X) -> Seq(X)]]
  <2>. HIDE DEF next
  <2> QED
    BY <1>2
<1>4. PICK f : Computed(f, Seq(X), Len(q), q, step)
  <2>. HIDE DEF step
  <2> QED
    BY <1>1, <1>3, Recursion, Zenon
<1>5. \A k \in 1..Len(q) : f[k] = next(f[k - 1])
  <2>. TAKE k \in 1..Len(q)
  <2>. HIDE DEF next
  <2>1. f[k] = step[k][f[k - 1]]
    BY <1>4 DEF Computed
  <2>2. f[k - 1] \in Seq(X)
    BY <1>1, <1>4 DEF Computed
  <2> QED
    BY <2>1, <2>2
<1>. HIDE DEF step
<1>6. Eq(f)
  <2>. DEFINE g == [k \in 0..Len(q) |-> IF k = 0 THEN q
                                        ELSE Without(f[k - 1], RefusedIn(b, f[k - 1]))]
  <2>1. \A k \in 0..Len(q) : f[k] = g[k]
    <3>. TAKE k \in 0..Len(q)
    <3>1. CASE k = 0
      BY <1>4, <3>1 DEF Computed
    <3>2. CASE k # 0
      <4>1. k \in 1..Len(q)
        BY <1>1, <3>2
      <4> QED
        BY <1>5, <3>2, <4>1
    <3> QED
      BY <3>1, <3>2
  <2>2. f = [k \in 0..Len(q) |-> f[k]]
    BY <1>4 DEF Computed
  <2> QED
    BY <2>1, <2>2
<1>. DEFINE w == CHOOSE x : Eq(x)
<1>7. Passes(b, q) = w
  BY Zenon DEF Passes
<1>8. w = [k \in 0..Len(q) |->
             IF k = 0 THEN q ELSE Without(w[k - 1], RefusedIn(b, w[k - 1]))]
  BY <1>6, Zenon
<1>. HIDE DEF w
<1>9. w[0] = q
  BY <1>8
<1>10. \A k \in 1..Len(q) : w[k] = Without(w[k - 1], RefusedIn(b, w[k - 1]))
  <2>. TAKE k \in 1..Len(q)
  <2>1. k \in 0..Len(q) /\ k # 0
    BY <1>1
  <2> QED
    BY <1>8, <2>1, Zenon
<1>11. \A k \in 0..Len(q) : w[k] \in Seq(X)
  <2>1. \A k \in 1..Len(q) : w[k - 1] \in Seq(X) => w[k] \in Seq(X)
    BY <1>2, <1>10, Zenon
  <2>2. w[0] \in Seq(X)
    BY <1>9
  <2> QED
    BY <1>1, <2>1, <2>2, InSteps, Zenon
<1>12. w \in [0..Len(q) -> Seq(X)]
  BY <1>8, <1>11
<1> QED
  BY <1>7, <1>9, <1>10, <1>12, Zenon DEF Passing

\* Every pass only drops, whatever it drops.
LEMMA PassesDrop ==
    ASSUME NEW X, NEW b, NEW q \in Seq(X), NEW k \in 0..Len(q)
    PROVE  \E R : Passes(b, q)[k] = Without(q, R)
<1>1. PICK left : Passing(left, X, b, q)
  BY PassesRec, Zenon
<1>2. Len(q) \in Nat
  OBVIOUS
<1>. DEFINE V == {v \in Seq(X) : \E R : v = Without(q, R)}
<1>3. left[0] \in V
  <2>1. q = Without(q, {})
    BY WithoutNone, ToSet(q) \cap {} = {}
  <2> QED
    BY <1>1, <2>1, Zenon DEF Passing
<1>4. \A i \in 1..Len(q) : left[i - 1] \in V => left[i] \in V
  <2>. TAKE i \in 1..Len(q)
  <2>. HAVE left[i - 1] \in V
  <2>. DEFINE D == RefusedIn(b, left[i - 1])
  <2>1. PICK R : left[i - 1] = Without(q, R)
    OBVIOUS
  <2>2. left[i] = Without(left[i - 1], D)
    BY <1>1, Zenon DEF Passing
  <2>. HIDE DEF D
  <2>3. left[i] = Without(q, R \cup D)
    <3>1. Without(Without(q, R), D) = Without(q, R \cup D)
      BY WithoutTwice
    <3> QED
      BY <2>1, <2>2, <3>1, Zenon
  <2>4. left[i] \in Seq(X)
    BY <2>3, WithoutType, Zenon
  <2> QED
    BY <2>3, <2>4
<1>5. left[k] \in V
  <2>. HIDE DEF V
  <2> QED
    BY <1>2, <1>3, <1>4, InSteps, Zenon
<1> QED
  BY <1>1, <1>5, Zenon DEF Passing

LEMMA KeptDrops ==
    ASSUME NEW X, NEW b, NEW q \in Seq(X)
    PROVE  \E R : Kept(b, q) = Without(q, R)
<1>1. Len(q) \in 0..Len(q)
  OBVIOUS
<1> QED
  BY <1>1, PassesDrop DEF Kept

\* A queue of entries in X that is what is left of q.
LEMMA LeftOver ==
    ASSUME NEW X, NEW q \in Seq(X), NEW R, NEW p, p = Without(q, R)
    PROVE  /\ p \in Seq(X)
           /\ ToSet(p) = ToSet(q) \ R
           /\ IsInjective(q) => IsInjective(p)
           /\ q = <<>> => p = <<>>
BY WithoutType, WithoutSet, WithoutEmpty, Zenon

LEMMA KeptLeftOver ==
    ASSUME NEW X, NEW b, NEW q \in Seq(X)
    PROVE  /\ Kept(b, q) \in Seq(X)
           /\ ToSet(Kept(b, q)) \subseteq ToSet(q)
           /\ IsInjective(q) => IsInjective(Kept(b, q))
           /\ q = <<>> => Kept(b, q) = <<>>
<1>1. PICK R : Kept(b, q) = Without(q, R)
  BY KeptDrops, Zenon
<1>2. /\ Kept(b, q) \in Seq(X)
      /\ ToSet(Kept(b, q)) = ToSet(q) \ R
      /\ IsInjective(q) => IsInjective(Kept(b, q))
      /\ q = <<>> => Kept(b, q) = <<>>
  BY <1>1, LeftOver, Zenon
<1> QED
  BY <1>2

----------------------------------------------------------------------------
(* The log and the run a client holds of it *)

LEMMA RunEndFacts ==
    ASSUME NEW X, logged \in Seq(X), NEW h \in SUBSET (DOMAIN logged),
           NEW from \in 0..Len(logged)
    PROVE  /\ RunEnd(h, from) \in from..Len(logged)
           /\ (from + 1)..RunEnd(h, from) \subseteq h
<1>. DEFINE n == Len(logged)
            ends == {k \in Nat : from <= k /\ k <= n /\ k + 1 \notin h}
            Fits(k) == (from + 1)..k \subseteq h /\ k + 1 \notin h
<1>1. n \in Nat /\ DOMAIN logged = 1..n
  OBVIOUS
<1>. HIDE DEF n
<1>2. n \in ends
  BY <1>1 DEF n
<1>3. PICK k \in ends : \A j \in ends : k <= j
  <2>1. ends \subseteq Nat /\ ends # {}
    BY <1>2
  <2>. HIDE DEF ends
  <2> QED
    BY <2>1, SmallestOf, Zenon
<1>4. k \in from..n
  BY <1>1 DEF n
<1>5. (from + 1)..k \subseteq h
  <2>. SUFFICES ASSUME NEW i \in (from + 1)..k, i \notin h PROVE FALSE
    OBVIOUS
  <2>1. i - 1 \in ends
    BY <1>1 DEF n
  <2> QED
    BY <1>3, <2>1
<1>6. \E j \in from..n : Fits(j)
  BY <1>4, <1>5
<1>7. RunEnd(h, from) = CHOOSE j \in from..n : Fits(j)
  BY DEF RunEnd, n
<1>8. RunEnd(h, from) \in from..n /\ Fits(RunEnd(h, from))
  <2>. HIDE DEF Fits
  <2> QED
    BY <1>6, <1>7, Zenon
<1> QED
  BY <1>8 DEF n

\* A beginning of the log, and what comes after it.
LEMMA Beginnings ==
    ASSUME NEW X, logged \in Seq(X), NEW from \in 0..Len(logged),
           NEW to \in from..Len(logged)
    PROVE  /\ SubSeq(logged, 1, to) \in Seq(X)
           /\ SubSeq(logged, from + 1, to) \in Seq(X)
           /\ SubSeq(logged, 1, from) \o SubSeq(logged, from + 1, to) = SubSeq(logged, 1, to)
<1>1. to \in Nat /\ from \in Nat /\ to <= Len(logged) /\ from <= to
  OBVIOUS
<1>2. SubSeq(logged, 1, to) \in Seq(X) /\ Len(SubSeq(logged, 1, to)) = to
  BY <1>1
<1>3. /\ SubSeq(logged, from + 1, to) \in Seq(X)
      /\ Len(SubSeq(logged, from + 1, to)) = to - from
  BY <1>1
<1>4. SubSeq(logged, 1, from) \in Seq(X) /\ Len(SubSeq(logged, 1, from)) = from
  BY <1>1
<1>5. \A i \in 1..to : (SubSeq(logged, 1, from) \o SubSeq(logged, from + 1, to))[i]
                        = SubSeq(logged, 1, to)[i]
  BY <1>1, <1>2, <1>3, <1>4
<1> QED
  BY <1>1, <1>2, <1>3, <1>4, <1>5, SeqEqual

----------------------------------------------------------------------------
(* What the parts of a call make of the connection *)

Conn ==
    [disk : Seq(Entries), cursor : 0..Len(logged), rows : Seq(Entries),
     savepoint : BOOLEAN, changes : Seq(Entries), rebuilt : BOOLEAN]

Down(d) ==
    /\ d \in Conn
    /\ d.disk = SubSeq(logged, 1, d.cursor)
    /\ d.rows = d.disk

Shown(d, q) ==
    /\ d \in Conn
    /\ d.disk = SubSeq(logged, 1, d.cursor)
    /\ d.rows = d.disk \o q
    /\ ~d.savepoint => q = <<>>

LEMMA OpenedDown ==
    ASSUME TypeOK, NEW n \in 0..Len(logged), NEW t, t = SubSeq(logged, 1, n)
    PROVE  Down(Opened(t, n)) /\ ~Opened(t, n).savepoint
<1>1. t \in Seq(Entries)
  BY Beginnings, 0 \in 0..Len(logged), n \in 0..Len(logged) DEF TypeOK
<1> QED
  BY <1>1 DEF Opened, Down, Conn

LEMMA DiscardDown ==
    ASSUME ViewInv
    PROVE  /\ Down(DiscardOptimistic(db))
           /\ ~DiscardOptimistic(db).savepoint
           /\ DiscardOptimistic(db).cursor = db.cursor
           /\ DiscardOptimistic(db).disk = db.disk
           /\ DiscardOptimistic(db).changes = db.changes
           /\ DiscardOptimistic(db).rebuilt = (db.rebuilt \/ db.savepoint)
BY DEF ViewInv, TypeOK, DiskIsConfirmed, DiscardOptimistic, Down, Conn

LEMMA AdvanceDown ==
    ASSUME TypeOK, NEW d, Down(d), NEW n \in d.cursor..Len(logged)
    PROVE  /\ Down(Advance(d, n))
           /\ Advance(d, n).cursor = n
           /\ Advance(d, n).savepoint = d.savepoint
           /\ Advance(d, n).rebuilt = d.rebuilt
           /\ Advance(d, n).rows = d.rows \o SubSeq(logged, d.cursor + 1, n)
           /\ Advance(d, n).changes = d.changes \o SubSeq(logged, d.cursor + 1, n)
<1>. DEFINE es == SubSeq(logged, d.cursor + 1, n)
<1>1. d.cursor \in 0..Len(logged) /\ logged \in Seq(Entries) /\ Len(logged) \in Nat
  BY DEF Down, Conn, TypeOK
<1>2. /\ SubSeq(logged, 1, n) \in Seq(Entries)
      /\ es \in Seq(Entries)
      /\ SubSeq(logged, 1, d.cursor) \o es = SubSeq(logged, 1, n)
  BY <1>1, Beginnings
<1>. HIDE DEF es
<1>3. Advance(d, n) = [d EXCEPT !.disk = @ \o es, !.rows = @ \o es,
                                !.changes = @ \o es, !.cursor = n]
  BY DEF Advance, es
<1>4. n \in 0..Len(logged)
  BY <1>1
<1>5. /\ d.disk \o es = SubSeq(logged, 1, n) /\ d.rows \o es = SubSeq(logged, 1, n)
      /\ d.changes \o es \in Seq(Entries)
  BY <1>2 DEF Down, Conn
<1>6. Down(Advance(d, n))
  BY <1>2, <1>3, <1>4, <1>5, ZenonT(60) DEF Down, Conn
<1> QED
  BY <1>3, <1>6 DEF es, Down, Conn

LEMMA OpenShown ==
    ASSUME TypeOK, NEW d, Down(d), ~d.savepoint, NEW q \in Seq(authored)
    PROVE  /\ Kept(d.rows, q) \in Seq(authored)
           /\ Shown(OpenOptimistic(d, q), Kept(d.rows, q))
           /\ OpenOptimistic(d, q).disk = d.disk
           /\ OpenOptimistic(d, q).cursor = d.cursor
           /\ OpenOptimistic(d, q).changes = d.changes
           /\ OpenOptimistic(d, q).savepoint = (Kept(d.rows, q) # <<>>)
           /\ OpenOptimistic(d, q).rebuilt = (d.rebuilt \/ Kept(d.rows, q) # q)
<1>. DEFINE kept == Kept(d.rows, q)
<1>1. kept \in Seq(authored)
  BY KeptLeftOver, Zenon
<1>2. kept \in Seq(Entries)
  <2>1. authored \subseteq Entries
    BY DEF TypeOK, Entries
  <2>. HIDE DEF kept
  <2> QED
    BY <1>1, <2>1
<1>3. OpenOptimistic(d, q) =
         [d EXCEPT !.rows = @ \o kept, !.savepoint = kept # <<>>,
                   !.rebuilt = @ \/ kept # q]
  BY DEF OpenOptimistic
<1>. HIDE DEF kept
<1>4. d.rows \o kept \in Seq(Entries)
  BY <1>2 DEF Down, Conn
<1>5. Shown(OpenOptimistic(d, q), kept)
  BY <1>3, <1>4, ZenonT(60) DEF Shown, Down, Conn
<1>6. /\ OpenOptimistic(d, q).disk = d.disk
      /\ OpenOptimistic(d, q).cursor = d.cursor
      /\ OpenOptimistic(d, q).changes = d.changes
      /\ OpenOptimistic(d, q).savepoint = (kept # <<>>)
      /\ OpenOptimistic(d, q).rebuilt = (d.rebuilt \/ kept # q)
  BY <1>3 DEF Down, Conn
<1> QED
  BY <1>1, <1>5, <1>6 DEF kept

\* Nothing a client shows of the log and its queue is unrecorded.
LEMMA ShownWhole ==
    ASSUME ViewInv, NEW d, NEW q \in Seq(authored), Shown(d, q)
    PROVE  /\ Without(d.rows, unrecorded) = IF d.savepoint THEN d.disk \o q ELSE d.disk
           /\ ~d.savepoint => d.rows = d.disk
<1>1. /\ logged \in Seq(Entries) /\ authored \subseteq Entries
      /\ authored \cap unrecorded = {} /\ unrecorded \subseteq Mine
      /\ ToSet(logged) \subseteq Theirs \cup authored
  BY DEF ViewInv, TypeOK, Entries
<1>2. d.disk \in Seq(Entries) /\ d.cursor \in 0..Len(logged) /\ d.rows = d.disk \o q
      /\ d.disk = SubSeq(logged, 1, d.cursor)
  BY DEF Shown, Conn
<1>3. ToSet(d.disk) \subseteq ToSet(logged)
  <2>1. \A i \in DOMAIN d.disk : i \in DOMAIN logged /\ d.disk[i] = logged[i]
    BY <1>1, <1>2
  <2> QED
    BY <2>1 DEF ToSet
<1>4. q \in Seq(Entries)
  BY <1>1
<1>5. ToSet(q) \subseteq authored
  BY DEF ToSet
<1>6. ToSet(d.disk \o q) \cap unrecorded = {}
  <2>1. ToSet(d.disk \o q) = ToSet(d.disk) \cup ToSet(q)
    <3>. DEFINE t == d.disk
    <3>1. t \in Seq(Entries)
      BY <1>2
    <3>. HIDE DEF t
    <3>2. ToSet(t \o q) = ToSet(t) \cup ToSet(q)
      BY <3>1, <1>4, ConcatFacts
    <3> QED
      BY <3>2 DEF t
  <2> QED
    BY <2>1, <1>1, <1>3, <1>5, ViewAssumption
<1>7. d.rows \in Seq(Entries)
  BY DEF Shown, Conn
<1>8. Without(d.rows, unrecorded) = d.rows
  BY <1>2, <1>6, <1>7, WithoutNone
<1>9. ~d.savepoint => d.rows = d.disk
  BY <1>2 DEF Shown
<1> QED
  BY <1>2, <1>8, <1>9

LEMMA DownShown ==
    ASSUME NEW d, Down(d), ~d.savepoint
    PROVE  Shown(d, <<>>)
BY DEF Down, Shown, Conn

----------------------------------------------------------------------------
(* Where a recv can end early *)

LEMMA MessageFacts ==
    ASSUME TypeOK, NEW m \in Message
    PROVE  /\ Holding(m) \in SUBSET (DOMAIN logged)
           /\ held \subseteq Holding(m)
           /\ Queued(m) \in Seq(authored)
           /\ ToSet(Queued(m)) = ToSet(queue) \ m.drops
           /\ IsInjective(queue) => IsInjective(Queued(m))
           /\ queue = <<>> => Queued(m) = <<>>
           /\ RunEnd(Holding(m), db.cursor) \in db.cursor..Len(logged)
           /\ (db.cursor + 1)..RunEnd(Holding(m), db.cursor) \subseteq Holding(m)
<1>1. Holding(m) \in SUBSET (DOMAIN logged) /\ held \subseteq Holding(m)
  BY DEF Message, Holding, TypeOK
<1>2. logged \in Seq(Entries) /\ db.cursor \in 0..Len(logged) /\ queue \in Seq(authored)
  BY DEF TypeOK
<1>3. /\ RunEnd(Holding(m), db.cursor) \in db.cursor..Len(logged)
      /\ (db.cursor + 1)..RunEnd(Holding(m), db.cursor) \subseteq Holding(m)
  BY <1>1, <1>2, RunEndFacts
<1>4. /\ Queued(m) \in Seq(authored)
      /\ ToSet(Queued(m)) = ToSet(queue) \ m.drops
      /\ IsInjective(queue) => IsInjective(Queued(m))
      /\ queue = <<>> => Queued(m) = <<>>
  <2>1. Queued(m) = Without(queue, m.drops)
    BY DEF Queued
  <2> QED
    BY <1>2, <2>1, LeftOver, Zenon
<1> QED
  BY <1>1, <1>3, <1>4

\* A place a recv can end at: the view is down, and nothing is lost but from
\* the queue.
Ended(end) ==
    /\ Down(end.db)
    /\ ~end.db.savepoint
    /\ end.db.cursor \in db.cursor..Len(logged)
    /\ end.held \in SUBSET (DOMAIN logged)
    /\ held \subseteq end.held
    /\ (db.cursor + 1)..end.db.cursor \subseteq end.held
    /\ \E R : end.queue = Without(queue, R)

LEMMA InterruptedEnded ==
    ASSUME ViewInv, NEW m \in Message, NEW end \in Interrupted(m)
    PROVE  Ended(end)
<1>. DEFINE down == DiscardOptimistic(db)
            last == RunEnd(Holding(m), down.cursor)
            up == Advance(down, last)
<1>1. TypeOK /\ queue \in Seq(authored) /\ held \subseteq DOMAIN logged
      /\ db.cursor \in 0..Len(logged) /\ Len(logged) \in Nat
  BY DEF ViewInv, TypeOK
<1>2. Down(down) /\ ~down.savepoint /\ down.cursor = db.cursor
  BY DiscardDown
<1>3. /\ last \in db.cursor..Len(logged)
      /\ (db.cursor + 1)..last \subseteq Holding(m)
      /\ Holding(m) \in SUBSET (DOMAIN logged)
      /\ held \subseteq Holding(m)
  BY <1>1, <1>2, MessageFacts
<1>4. ASSUME NEW n \in db.cursor..Len(logged)
      PROVE  Down(Advance(down, n)) /\ ~Advance(down, n).savepoint
             /\ Advance(down, n).cursor = n
  <2>. HIDE DEF down
  <2> QED
    BY <1>1, <1>2, AdvanceDown
<1>. HIDE DEF down
<1>5. Down(up) /\ ~up.savepoint /\ up.cursor = last
  <2>. HIDE DEF last
  <2> QED
    BY <1>3, <1>4
<1>6. \A h \in SUBSET (DOMAIN logged) : \A S :
         held \subseteq h => Ended([db |-> down, held |-> h, queue |-> Without(queue, S)])
  <2>. TAKE h \in SUBSET (DOMAIN logged)
  <2>. TAKE S
  <2>. HAVE held \subseteq h
  <2>1. (db.cursor + 1)..db.cursor = {} /\ db.cursor \in db.cursor..Len(logged)
    BY <1>1
  <2>2. \E R : Without(queue, S) = Without(queue, R)
    OBVIOUS
  <2> QED
    BY <1>2, <2>1, <2>2 DEF Ended
<1>7. CASE end = [db |-> down, held |-> held, queue |-> queue]
  <2>1. queue = Without(queue, {})
    BY <1>1, WithoutNone, ToSet(queue) \cap {} = {}
  <2> QED
    BY <1>1, <1>6, <1>7, <2>1
<1>8. CASE \E s, n : end = [db |-> down, held |-> held \cup {t \in m.holds : t <= s},
                            queue |-> Without(queue, {logged[t] : t \in 1..n \cap m.holds})]
  <2>1. PICK s, n : end = [db |-> down, held |-> held \cup {t \in m.holds : t <= s},
                            queue |-> Without(queue, {logged[t] : t \in 1..n \cap m.holds})]
    BY <1>8
  <2>2. m.holds \subseteq DOMAIN logged
    BY DEF Message
  <2>3. held \cup {t \in m.holds : t <= s} \in SUBSET (DOMAIN logged)
    BY <1>1, <2>2
  <2> QED
    BY <1>6, <2>1, <2>3
<1>9. CASE \E n \in db.cursor..last :
              end = [db |-> Advance(down, n), held |-> Holding(m), queue |-> Queued(m)]
  <2>1. PICK n \in db.cursor..last :
              end = [db |-> Advance(down, n), held |-> Holding(m), queue |-> Queued(m)]
    BY <1>9
  <2>2. n \in db.cursor..Len(logged) /\ (db.cursor + 1)..n \subseteq Holding(m)
    BY <1>1, <1>3
  <2>3. \E R : Queued(m) = Without(queue, R)
    BY DEF Queued
  <2> QED
    BY <1>3, <1>4, <2>1, <2>2, <2>3 DEF Ended
<1>10. CASE \E k \in DOMAIN Queued(m) :
               end = [db |-> [up EXCEPT !.rebuilt = TRUE], held |-> Holding(m),
                      queue |-> Passes(up.rows, Queued(m))[k - 1]]
  <2>1. PICK k \in DOMAIN Queued(m) :
               end = [db |-> [up EXCEPT !.rebuilt = TRUE], held |-> Holding(m),
                      queue |-> Passes(up.rows, Queued(m))[k - 1]]
    BY <1>10
  <2>2. Queued(m) \in Seq(authored)
    BY <1>1, MessageFacts
  <2>3. k - 1 \in 0..Len(Queued(m))
    BY <2>2
  <2>4. PICK S : Passes(up.rows, Queued(m))[k - 1] = Without(Queued(m), S)
    <3>1. \A b : \A j \in 0..Len(Queued(m)) :
             \E S : Passes(b, Queued(m))[j] = Without(Queued(m), S)
      BY <2>2, PassesDrop, ZenonT(60)
    <3>. HIDE DEF up, last
    <3> QED
      BY <2>3, <3>1
  <2>5. Without(Queued(m), S) = Without(queue, m.drops \cup S)
    BY <1>1, WithoutTwice DEF Queued
  <2>6. \E R : end.queue = Without(queue, R)
    BY <2>1, <2>4, <2>5
  <2>7. Down([up EXCEPT !.rebuilt = TRUE]) /\ ~[up EXCEPT !.rebuilt = TRUE].savepoint
        /\ [up EXCEPT !.rebuilt = TRUE].cursor = last
    <3>. HIDE DEF up
    <3> QED
      BY <1>5 DEF Down, Conn
  <2>. HIDE DEF up, last
  <2> QED
    BY <1>3, <2>1, <2>6, <2>7 DEF Ended
<1>11. \A n \in Stops(Holding(m), down.cursor) : n \in db.cursor..last
  BY <1>2 DEF Stops
<1> QED
  <2>1. \/ end = [db |-> down, held |-> held, queue |-> queue]
        \/ \E s, n : end = [db |-> down, held |-> held \cup {t \in m.holds : t <= s},
                            queue |-> Without(queue, {logged[t] : t \in 1..n \cap m.holds})]
        \/ \E n \in Stops(Holding(m), down.cursor) :
              end = [db |-> Advance(down, n), held |-> Holding(m), queue |-> Queued(m)]
        \/ \E k \in DOMAIN Queued(m) :
               end = [db |-> [up EXCEPT !.rebuilt = TRUE], held |-> Holding(m),
                      queue |-> Passes(up.rows, Queued(m))[k - 1]]
    BY Zenon DEF Interrupted, down
  <2> QED
    BY <1>7, <1>8, <1>9, <1>10, <1>11, <2>1, Zenon

----------------------------------------------------------------------------
(* The view is whole, whatever fails *)

LEMMA InvFromShown ==
    ASSUME ViewInv, UNCHANGED <<logged, authored, unrecorded>>,
           TypeOK', Shown(db', queue'), run' = TRUE
    PROVE  ViewInv'
<1>1. queue' \in Seq(authored)
  BY DEF TypeOK
<1>2. /\ Without(db'.rows, unrecorded) =
            IF db'.savepoint THEN db'.disk \o queue' ELSE db'.disk
      /\ ~db'.savepoint => db'.rows = db'.disk
  BY <1>1, ShownWhole
<1>3. db'.disk = SubSeq(logged, 1, db'.cursor)
  BY DEF Shown
<1> QED
  BY <1>2, <1>3 DEF ViewInv, DiskIsConfirmed, ViewIsWhole

LEMMA InvFromDown ==
    ASSUME ViewInv, UNCHANGED <<logged, authored, unrecorded>>,
           TypeOK', Down(db'), ~db'.savepoint,
           run' \/ (~db'.rebuilt /\ db'.changes = <<>>)
    PROVE  ViewInv'
<1>1. Shown(db', <<>>) /\ <<>> \in Seq(authored)
  BY DownShown
<1>2. Without(db'.rows, unrecorded) = db'.disk /\ db'.rows = db'.disk
  BY <1>1, ShownWhole
<1>3. db'.disk = SubSeq(logged, 1, db'.cursor)
  BY DEF Down
<1> QED
  BY <1>2, <1>3 DEF ViewInv, DiskIsConfirmed, ViewIsWhole

LEMMA LeftInSeq ==
    ASSUME TypeOK, NEW R, NEW q, q = Without(queue, R)
    PROVE  q \in Seq(authored)
BY WithoutType DEF TypeOK

LEMMA InitView == Init => ViewInv
<1>. SUFFICES ASSUME Init PROVE ViewInv
  OBVIOUS
<1>1. db = [disk |-> <<>>, cursor |-> 0, rows |-> <<>>, savepoint |-> FALSE,
            changes |-> <<>>, rebuilt |-> FALSE]
  BY DEF Init, Opened
<1>2. TypeOK
  <2>1. /\ logged = <<>> /\ verdicts = {} /\ authored = {} /\ unrecorded = {}
        /\ held = {} /\ queue = <<>> /\ mirror = <<>> /\ run = TRUE /\ failures = 0
    BY DEF Init
  <2>2. <<>> \in Seq(Entries) /\ <<>> \in Seq(authored) /\ 0 \in 0..Len(logged)
    BY <2>1
  <2>3. failures \in 0..MaxFailures
    BY <2>1, ViewAssumption
  <2>4. db \in [disk : Seq(Entries), cursor : 0..Len(logged), rows : Seq(Entries),
                savepoint : BOOLEAN, changes : Seq(Entries), rebuilt : BOOLEAN]
    BY <1>1, <2>2
  <2>5. held \subseteq DOMAIN logged
    BY <2>1
  <2> QED
    BY <2>1, <2>2, <2>3, <2>4, <2>5 DEF TypeOK
<1>3. Without(db.rows, unrecorded) = <<>>
  BY <1>1, WithoutEmpty
<1>4. ToSet(logged) = {}
  BY DEF Init, ToSet
<1>5. SubSeq(logged, 1, db.cursor) = <<>>
  BY <1>1 DEF Init
<1> QED
  <2>1. DiskIsConfirmed /\ ViewIsWhole
    BY <1>1, <1>3, <1>5 DEF DiskIsConfirmed, ViewIsWhole
  <2>2. authored = {} /\ run = TRUE
    BY DEF Init
  <2> QED
    BY <1>1, <1>2, <1>4, <2>1, <2>2 DEF ViewInv

LEMMA ServerLogsView ==
    ASSUME ViewInv, NEW e, ServerLogs(e) PROVE ViewInv'
<1>1. /\ e \in Entries /\ logged' = Append(logged, e)
      /\ UNCHANGED <<verdicts, authored, unrecorded, held, queue, db, mirror, run, failures>>
  BY DEF ServerLogs, ViewInv, TypeOK, Entries
<1>2. logged \in Seq(Entries) /\ db.cursor \in 0..Len(logged)
  BY DEF ViewInv, TypeOK
<1>3. /\ logged' \in Seq(Entries) /\ Len(logged') = Len(logged) + 1
      /\ DOMAIN logged \subseteq DOMAIN logged'
      /\ SubSeq(logged', 1, db.cursor) = SubSeq(logged, 1, db.cursor)
  BY <1>1, <1>2
<1>4. 0..Len(logged) \subseteq 0..Len(logged')
  BY <1>2, <1>3
<1>5. TypeOK'
  BY <1>1, <1>3, <1>4 DEF ViewInv, TypeOK
<1>6. ToSet(logged') \subseteq Theirs \cup authored
  <2>1. ToSet(logged') = ToSet(logged) \cup {e}
    BY <1>1, <1>2, AppendFacts
  <2> QED
    BY <2>1 DEF ServerLogs, ViewInv
<1> QED
  BY <1>1, <1>3, <1>5, <1>6 DEF ViewInv, DiskIsConfirmed, ViewIsWhole

LEMMA ServerRefusesView ==
    ASSUME ViewInv, NEW e \in Mine, ServerRefuses(e) PROVE ViewInv'
BY DEF ServerRefuses, ViewInv, TypeOK, DiskIsConfirmed, ViewIsWhole

\* What mutate applies to: the view, up, and what is left of the queue.
Raised == IF db.savepoint THEN db ELSE OpenOptimistic(db, queue)
RaisedQueue == IF db.savepoint THEN queue ELSE Kept(db.rows, queue)

LEMMA RaisedFacts ==
    ASSUME ViewInv
    PROVE  /\ Raised \in Conn
           /\ Raised.disk = db.disk /\ Raised.cursor = db.cursor
           /\ RaisedQueue \in Seq(authored)
           /\ Without(Raised.rows, unrecorded) = Raised.disk \o RaisedQueue
<1>1. TypeOK /\ db \in Conn /\ queue \in Seq(authored)
  BY DEF ViewInv, TypeOK, Conn
<1>2. CASE db.savepoint
  BY <1>1, <1>2 DEF Raised, RaisedQueue, ViewInv, ViewIsWhole
<1>3. CASE ~db.savepoint
  <2>1. Down(db)
    BY <1>1, <1>3 DEF ViewInv, DiskIsConfirmed, Down
  <2>2. /\ RaisedQueue \in Seq(authored)
        /\ Shown(Raised, RaisedQueue)
        /\ Raised.disk = db.disk /\ Raised.cursor = db.cursor
    BY <1>1, <1>3, <2>1, OpenShown DEF Raised, RaisedQueue
  <2>3. Without(Raised.rows, unrecorded) =
           IF Raised.savepoint THEN Raised.disk \o RaisedQueue ELSE Raised.disk
    BY <2>2, ShownWhole
  <2>4. ~Raised.savepoint => Raised.disk = Raised.disk \o RaisedQueue
    <3>1. Raised.disk \in Seq(Entries)
      BY <2>2 DEF Shown, Conn
    <3> QED
      BY <2>2, <3>1 DEF Shown
  <2> QED
    BY <2>2, <2>3, <2>4 DEF Shown
<1> QED
  BY <1>2, <1>3

LEMMA MutateView ==
    ASSUME ViewInv, NEW e \in Mine, Mutate(e) PROVE ViewInv'
<1>. DEFINE applied == [Raised EXCEPT !.savepoint = TRUE, !.rows = Append(@, e),
                                      !.changes = Append(@, e)]
<1>1. /\ run /\ e \in Mine \ (authored \cup unrecorded)
      /\ UNCHANGED <<logged, verdicts, held, mirror, run>>
  BY DEF Mutate
<1>2. \/ /\ db' = [Raised EXCEPT !.savepoint = TRUE]
         /\ queue' = RaisedQueue
         /\ UNCHANGED <<authored, unrecorded, failures>>
      \/ /\ db' = applied
         /\ authored' = authored \cup {e}
         /\ queue' = Append(RaisedQueue, e)
         /\ UNCHANGED <<unrecorded, failures>>
      \/ /\ db' = applied
         /\ failures < MaxFailures /\ failures' = failures + 1
         /\ unrecorded' = unrecorded \cup {e}
         /\ queue' = RaisedQueue
         /\ UNCHANGED authored
  BY Zenon DEF Mutate, Raised, RaisedQueue, Fail
<1>3. /\ Raised \in Conn /\ Raised.disk = db.disk /\ Raised.cursor = db.cursor
      /\ RaisedQueue \in Seq(authored)
      /\ Without(Raised.rows, unrecorded) = Raised.disk \o RaisedQueue
  BY RaisedFacts
<1>4. /\ TypeOK /\ e \in Entries /\ authored \cap unrecorded = {}
      /\ ToSet(logged) \subseteq Theirs \cup authored /\ DiskIsConfirmed
      /\ authored \subseteq Mine /\ Mine \subseteq Entries
  BY DEF ViewInv, TypeOK, Entries
<1>5. /\ applied \in Conn /\ applied.rows = Append(Raised.rows, e) /\ applied.savepoint
      /\ applied.disk = db.disk /\ applied.cursor = db.cursor
  <2>. DEFINE nr == Append(Raised.rows, e)
              nc == Append(Raised.changes, e)
  <2>1. nr \in Seq(Entries) /\ nc \in Seq(Entries)
    BY <1>3, <1>4 DEF Conn
  <2>2. applied = [Raised EXCEPT !.savepoint = TRUE, !.rows = nr, !.changes = nc]
    BY <1>3 DEF Conn
  <2>. HIDE DEF nr, nc, applied
  <2>3. /\ applied \in Conn /\ applied.rows = nr /\ applied.savepoint
        /\ applied.disk = db.disk /\ applied.cursor = db.cursor
    BY <1>3, <2>1, <2>2 DEF Conn
  <2> QED
    BY <2>3 DEF nr
<1>6. CASE /\ db' = [Raised EXCEPT !.savepoint = TRUE]
           /\ queue' = RaisedQueue
           /\ UNCHANGED <<authored, unrecorded, failures>>
  <2>1. /\ db' \in Conn /\ db'.rows = Raised.rows /\ db'.savepoint
        /\ db'.disk = db.disk /\ db'.cursor = db.cursor
    BY <1>3, <1>6 DEF Conn
  <2>2. TypeOK'
    BY <1>1, <1>3, <1>4, <1>6, <2>1 DEF TypeOK, Conn
  <2>3. ViewIsWhole' /\ DiskIsConfirmed'
    BY <1>1, <1>3, <1>4, <1>6, <2>1 DEF ViewIsWhole, DiskIsConfirmed
  <2> QED
    BY <1>1, <1>4, <1>6, <2>1, <2>2, <2>3 DEF ViewInv
<1>7. CASE /\ db' = applied
           /\ authored' = authored \cup {e}
           /\ queue' = Append(RaisedQueue, e)
           /\ UNCHANGED <<unrecorded, failures>>
  <2>1. queue' \in Seq(authored') /\ authored' \subseteq Mine
    BY <1>3, <1>4, <1>7
  <2>2. Without(Append(Raised.rows, e), unrecorded) = Append(Without(Raised.rows, unrecorded), e)
    <3>1. Raised.rows \in Seq(Entries)
      BY <1>3 DEF Conn
    <3>2. \A r \in Seq(Entries) : \A U :
             Without(Append(r, e), U) =
                IF e \in U THEN Without(r, U) ELSE Append(Without(r, U), e)
      <4>1. e \in Entries
        BY <1>4
      <4> QED
        BY <4>1, WithoutAppend
    <3> QED
      BY <1>1, <3>1, <3>2
  <2>3. Append(Raised.disk \o RaisedQueue, e) = Raised.disk \o Append(RaisedQueue, e)
    <3>1. Raised.disk \in Seq(Entries) /\ RaisedQueue \in Seq(Entries)
      BY <1>3, <1>4 DEF Conn
    <3>2. \A s, t \in Seq(Entries) : Append(s \o t, e) = s \o Append(t, e)
      BY <1>4
    <3> QED
      BY <3>1, <3>2, Zenon
  <2>. HIDE DEF applied
  <2>4. ViewIsWhole' /\ DiskIsConfirmed'
    BY <1>1, <1>3, <1>4, <1>5, <1>7, <2>2, <2>3 DEF ViewIsWhole, DiskIsConfirmed
  <2>5. TypeOK'
    BY <1>1, <1>4, <1>5, <1>7, <2>1 DEF TypeOK, Conn
  <2> QED
    BY <1>1, <1>4, <1>5, <1>7, <2>4, <2>5 DEF ViewInv
<1>8. CASE /\ db' = applied
           /\ failures < MaxFailures /\ failures' = failures + 1
           /\ unrecorded' = unrecorded \cup {e}
           /\ queue' = RaisedQueue
           /\ UNCHANGED authored
  <2>. DEFINE rows == Raised.rows
  <2>1. rows \in Seq(Entries) /\ Raised.disk \in Seq(Entries) /\ RaisedQueue \in Seq(Entries)
    BY <1>3, <1>4 DEF Conn
  <2>2. Raised.disk \o RaisedQueue \in Seq(Entries)
        /\ ToSet(Raised.disk \o RaisedQueue) = ToSet(Raised.disk) \cup ToSet(RaisedQueue)
    BY <2>1, ConcatFacts
  <2>3. ToSet(Raised.disk) \subseteq Theirs \cup authored
    <3>1. \A i \in DOMAIN Raised.disk :
             i \in DOMAIN logged /\ Raised.disk[i] = logged[i]
      <4>1. /\ logged \in Seq(Entries) /\ db.cursor \in 0..Len(logged)
            /\ Raised.disk = SubSeq(logged, 1, db.cursor)
        BY <1>3, <1>4 DEF TypeOK, DiskIsConfirmed
      <4> QED
        BY <4>1
    <3> QED
      BY <3>1, <1>4 DEF ToSet
  <2>4. ToSet(RaisedQueue) \subseteq authored
    BY <1>3 DEF ToSet
  <2>5. e \notin ToSet(Raised.disk \o RaisedQueue)
    BY <1>1, <2>2, <2>3, <2>4, ViewAssumption
  <2>6. Without(Raised.disk \o RaisedQueue, {e}) = Raised.disk \o RaisedQueue
    BY <2>2, <2>5, WithoutNone
  <2>7. Without(rows, unrecorded \cup {e}) = Raised.disk \o RaisedQueue
    <3>1. \A r \in Seq(Entries) : \A U, R : Without(Without(r, U), R) = Without(r, U \cup R)
      BY WithoutTwice
    <3>2. rows \in Seq(Entries) /\ Without(rows, unrecorded) = Raised.disk \o RaisedQueue
      BY <1>3, <2>1
    <3>. HIDE DEF rows
    <3>3. Without(Without(rows, unrecorded), {e}) = Without(rows, unrecorded \cup {e})
      BY <3>1, <3>2, ZenonT(60)
    <3> QED
      BY <2>6, <3>2, <3>3, Zenon
  <2>8. Without(Append(rows, e), unrecorded') = Raised.disk \o RaisedQueue
    <3>1. \A r \in Seq(Entries) : \A U :
             Without(Append(r, e), U) =
                IF e \in U THEN Without(r, U) ELSE Append(Without(r, U), e)
      <4>1. e \in Entries
        BY <1>4
      <4> QED
        BY <4>1, WithoutAppend
    <3> QED
      BY <3>1, <1>8, <2>1, <2>7
  <2>. HIDE DEF applied
  <2>9. ViewIsWhole' /\ DiskIsConfirmed'
    BY <1>1, <1>3, <1>4, <1>5, <1>8, <2>8 DEF ViewIsWhole, DiskIsConfirmed
  <2>10. unrecorded' \subseteq Mine /\ failures' \in 0..MaxFailures
    BY <1>1, <1>4, <1>8, ViewAssumption DEF TypeOK
  <2>11. TypeOK'
    BY <1>1, <1>3, <1>4, <1>5, <1>8, <2>10 DEF TypeOK, Conn
  <2> QED
    BY <1>1, <1>4, <1>5, <1>8, <2>9, <2>11 DEF ViewInv
<1> QED
  BY <1>2, <1>6, <1>7, <1>8

LEMMA RecvView ==
    ASSUME ViewInv, NEW m \in Message, Recv(m) PROVE ViewInv'
<1>. DEFINE d == DiscardOptimistic(db)
            end == RunEnd(Holding(m), d.cursor)
            up == Advance(d, end)
            q == Queued(m)
<1>1. /\ run /\ held' = Holding(m)
      /\ db' = OpenOptimistic(up, q) /\ queue' = Kept(up.rows, q)
      /\ UNCHANGED <<logged, verdicts, authored, unrecorded, mirror, run, failures>>
  BY DEF Recv
<1>2. TypeOK
  BY DEF ViewInv
<1>3. Down(d) /\ ~d.savepoint /\ d.cursor = db.cursor
  BY DiscardDown
<1>4. /\ end \in d.cursor..Len(logged) /\ q \in Seq(authored)
      /\ Holding(m) \in SUBSET (DOMAIN logged)
  BY <1>2, <1>3, MessageFacts
<1>. HIDE DEF d, end, q
<1>5. Down(up) /\ ~up.savepoint
  BY <1>2, <1>3, <1>4, AdvanceDown
<1>. HIDE DEF up
<1>6. queue' \in Seq(authored) /\ Shown(db', queue')
  BY <1>1, <1>2, <1>4, <1>5, OpenShown
<1>7. TypeOK'
  BY <1>1, <1>2, <1>4, <1>6 DEF TypeOK, Shown, Conn
<1> QED
  BY <1>1, <1>6, <1>7, InvFromShown DEF ViewInv, TypeOK

LEMMA RecvFailsView ==
    ASSUME ViewInv, NEW m \in Message, RecvFails(m) PROVE ViewInv'
<1>1. PICK end \in Interrupted(m) :
             /\ \/ failures < MaxFailures /\ failures' = failures + 1
                \/ UNCHANGED failures
             /\ db' = end.db /\ held' = end.held /\ queue' = end.queue
  BY Zenon DEF RecvFails, Fail
<1>2. run /\ UNCHANGED <<logged, verdicts, authored, unrecorded, mirror, run>>
  BY DEF RecvFails
<1>3. TypeOK
  BY DEF ViewInv
<1>4. Ended(end)
  BY InterruptedEnded
<1>5. queue' \in Seq(authored)
  BY <1>1, <1>3, <1>4, LeftInSeq DEF Ended
<1>6. failures' \in 0..MaxFailures
  BY <1>1, <1>3, ViewAssumption DEF TypeOK
<1>7. Down(db') /\ ~db'.savepoint /\ held' \subseteq DOMAIN logged
  BY <1>1, <1>4 DEF Ended
<1>8. TypeOK'
  BY <1>2, <1>3, <1>5, <1>6, <1>7 DEF TypeOK, Down, Conn
<1>9. run' \/ (~db'.rebuilt /\ db'.changes = <<>>)
  BY <1>2
<1> QED
  BY <1>2, <1>7, <1>8, <1>9, InvFromDown

LEMMA MutateFailsView ==
    ASSUME ViewInv, MutateFails PROVE ViewInv'
<1>1. /\ run /\ ~db.savepoint
      /\ failures < MaxFailures /\ failures' = failures + 1
      /\ db' = [db EXCEPT !.rebuilt = TRUE]
      /\ UNCHANGED <<logged, verdicts, authored, unrecorded, held, mirror, run>>
  BY DEF MutateFails, Fail
<1>2. PICK k \in DOMAIN queue : queue' = Passes(db.rows, queue)[k - 1]
  BY DEF MutateFails
<1>3. TypeOK /\ queue \in Seq(authored)
  BY DEF ViewInv, TypeOK
<1>4. queue' \in Seq(authored)
  <2>1. k - 1 \in 0..Len(queue)
    BY <1>3
  <2>2. \A b : \A j \in 0..Len(queue) : \E R : Passes(b, queue)[j] = Without(queue, R)
    BY <1>3, PassesDrop, ZenonT(60)
  <2>3. \E R : queue' = Without(queue, R)
    BY <1>2, <2>1, <2>2
  <2> QED
    BY <1>3, <2>3, LeftInSeq
<1>5. Down(db') /\ ~db'.savepoint
  <2>1. db \in Conn /\ db' \in Conn
    BY <1>1, <1>3 DEF TypeOK, Conn
  <2>2. Down(db)
    BY <1>1, <2>1 DEF ViewInv, TypeOK, DiskIsConfirmed, Down
  <2> QED
    BY <1>1, <2>1, <2>2 DEF Down, Conn
<1>6. failures' \in 0..MaxFailures
  BY <1>1, <1>3, ViewAssumption DEF TypeOK
<1>7. TypeOK'
  <2>1. (db \in Conn)'
    BY <1>1, <1>5 DEF Down, Conn
  <2>2. (queue \in Seq(authored) /\ failures \in 0..MaxFailures)'
    BY <1>1, <1>4, <1>6
  <2>3. (/\ logged \in Seq(Entries) /\ verdicts \subseteq Mine
         /\ authored \subseteq Mine /\ unrecorded \subseteq Mine
         /\ held \subseteq DOMAIN logged /\ mirror \in Seq(Entries) /\ run \in BOOLEAN)'
    BY <1>1, <1>3 DEF TypeOK
  <2> QED
    BY <2>1, <2>2, <2>3 DEF TypeOK, Conn
<1>8. run' \/ (~db'.rebuilt /\ db'.changes = <<>>)
  BY <1>1
<1> QED
  BY <1>1, <1>5, <1>7, <1>8, InvFromDown

LEMMA SettleView ==
    ASSUME ViewInv, Settle PROVE ViewInv'
<1>1. /\ run /\ mirror' = IF db.rebuilt THEN db.rows ELSE mirror \o db.changes
      /\ db' = [db EXCEPT !.changes = <<>>, !.rebuilt = FALSE]
      /\ UNCHANGED <<logged, verdicts, authored, unrecorded, held, queue, run, failures>>
  BY DEF Settle
<1>2. TypeOK /\ db \in Conn
  BY DEF ViewInv, TypeOK, Conn
<1>3. /\ db' \in Conn /\ db'.rows = db.rows /\ db'.disk = db.disk /\ db'.cursor = db.cursor
      /\ db'.savepoint = db.savepoint
  <2>1. <<>> \in Seq(Entries)
    OBVIOUS
  <2> QED
    BY <1>1, <1>2, <2>1 DEF Conn
<1>4. mirror' \in Seq(Entries)
  BY <1>1, <1>2 DEF TypeOK
<1>5. TypeOK'
  BY <1>1, <1>2, <1>3, <1>4 DEF TypeOK, Conn
<1> QED
  BY <1>1, <1>3, <1>5 DEF ViewInv, DiskIsConfirmed, ViewIsWhole

LEMMA CrashView ==
    ASSUME ViewInv, Crash PROVE ViewInv'
<1>1. /\ failures < MaxFailures /\ failures' = failures + 1
      /\ run' = FALSE /\ mirror' = <<>>
      /\ UNCHANGED <<logged, verdicts, authored, unrecorded>>
  BY DEF Crash, Fail
<1>2. PICK m \in Message : \E end \in Interrupted(m) :
             /\ db' = Opened(end.db.disk, end.db.cursor)
             /\ held' = end.held
             /\ queue' = end.queue
  BY Zenon DEF Crash
<1>3. PICK end \in Interrupted(m) :
             /\ db' = Opened(end.db.disk, end.db.cursor)
             /\ held' = end.held
             /\ queue' = end.queue
  BY <1>2
<1>4. TypeOK
  BY DEF ViewInv
<1>5. Ended(end)
  BY InterruptedEnded
<1>6. queue' \in Seq(authored)
  BY <1>3, <1>4, <1>5, LeftInSeq DEF Ended
<1>7. failures' \in 0..MaxFailures
  BY <1>1, <1>4, ViewAssumption DEF TypeOK
<1>8. end.db.cursor \in 0..Len(logged) /\ end.db.disk = SubSeq(logged, 1, end.db.cursor)
  BY <1>5 DEF Ended, Down, Conn
<1>9. Down(db') /\ ~db'.savepoint /\ held' \subseteq DOMAIN logged
  BY <1>3, <1>4, <1>5, <1>8, OpenedDown DEF Ended
<1>10. ~db'.rebuilt /\ db'.changes = <<>>
  BY <1>3 DEF Opened
<1>11. mirror' \in Seq(Entries)
  BY <1>1
<1>12. TypeOK'
  BY <1>1, <1>4, <1>6, <1>7, <1>9, <1>11 DEF TypeOK, Down, Conn
<1> QED
  BY <1>1, <1>9, <1>10, <1>12, InvFromDown

\* What open leaves of the queue before it puts the view up.
Remembered == Without(queue, {logged[s] : s \in held})

LEMMA OpenView ==
    ASSUME ViewInv, Open PROVE ViewInv'
<1>. DEFINE up == Advance(db, RunEnd(held, db.cursor))
            o == OpenOptimistic(up, Remembered)
<1>1. /\ ~run /\ run' = TRUE /\ mirror' = db'.rows
      /\ db' = [o EXCEPT !.changes = <<>>, !.rebuilt = FALSE]
      /\ queue' = Kept(up.rows, Remembered)
      /\ UNCHANGED <<logged, verdicts, authored, unrecorded, held, failures>>
  BY DEF Open, Remembered
<1>2. TypeOK /\ logged \in Seq(Entries) /\ held \in SUBSET (DOMAIN logged)
      /\ db.cursor \in 0..Len(logged)
  BY DEF ViewInv, TypeOK
<1>3. Down(db) /\ ~db.savepoint
  BY <1>1 DEF ViewInv, TypeOK, DiskIsConfirmed, Down, Conn
<1>4. RunEnd(held, db.cursor) \in db.cursor..Len(logged)
  BY <1>2, RunEndFacts
<1>5. Down(up) /\ ~up.savepoint
  BY <1>2, <1>3, <1>4, AdvanceDown
<1>6. Remembered \in Seq(authored)
  BY <1>2, LeftInSeq DEF Remembered
<1>. HIDE DEF up
<1>7. queue' \in Seq(authored) /\ Shown(o, queue')
  BY <1>1, <1>2, <1>5, <1>6, OpenShown
<1>. HIDE DEF o
<1>8. Shown(db', queue') /\ db'.rows \in Seq(Entries)
  <2>1. <<>> \in Seq(Entries)
    OBVIOUS
  <2> QED
    BY <1>1, <1>7, <2>1 DEF Shown, Conn
<1>9. TypeOK'
  BY <1>1, <1>2, <1>7, <1>8 DEF TypeOK, Shown, Conn
<1> QED
  BY <1>1, <1>8, <1>9, InvFromShown

LEMMA ViewStep == ViewInv /\ [Next]_vars => ViewInv'
<1>. SUFFICES ASSUME ViewInv, [Next]_vars PROVE ViewInv'
  OBVIOUS
<1>1. CASE UNCHANGED vars
  BY <1>1 DEF vars, ViewInv, TypeOK, DiskIsConfirmed, ViewIsWhole
<1>2. CASE \E e \in Mine \cup Theirs : ServerLogs(e)
  BY <1>2, ServerLogsView
<1>3. CASE \E e \in Mine : ServerRefuses(e)
  BY <1>3, ServerRefusesView
<1>4. CASE \E e \in Mine : Mutate(e)
  BY <1>4, MutateView
<1>5. CASE \E m \in Message : Recv(m)
  BY <1>5, RecvView
<1>6. CASE \E m \in Message : RecvFails(m)
  BY <1>6, RecvFailsView
<1> QED
  BY <1>1, <1>2, <1>3, <1>4, <1>5, <1>6,
     MutateFailsView, SettleView, CrashView, OpenView DEF Next

\* Whatever fails and whenever the process stops: the view is what is
\* committed with the queue on top, or it is down (client.rs
\* `open_optimistic`, `discard_optimistic`, `advance`).
THEOREM ViewsHold == Spec => []ViewInv
BY InitView, ViewStep, PTL DEF Spec

\* The optimistic rows never reach the disk.
THEOREM DiskHoldsTheLog == Spec => []DiskIsConfirmed
BY ViewsHold, PTL DEF ViewInv

\* No failure leaves half of the queue in the view.
THEOREM ViewsAreWhole == Spec => []ViewIsWhole
BY ViewsHold, PTL DEF ViewInv

----------------------------------------------------------------------------
(* No entry is shown twice, where no write fails *)

\* The entries a client holds at the sequence numbers h.
Entered(h) == {logged[s] : s \in h}

LEMMA EnteredFacts ==
    ASSUME TypeOK, NEW h \in SUBSET (DOMAIN logged)
    PROVE  Entered(h) \subseteq ToSet(logged)
BY DEF Entered, ToSet

\* What a message makes the client hold it takes off the queue.
LEMMA MessageDrops ==
    ASSUME TypeOK, NEW m \in Message, Batch(m) \/ Ack(m) \/ Reject(m)
    PROVE  Entered(m.holds) \cap ToSet(queue) \subseteq m.drops
<1>1. ToSet(queue) \subseteq Mine
  BY DEF TypeOK, ToSet
<1>2. CASE Batch(m)
  <2>1. PICK a \in DOMAIN logged, b \in DOMAIN logged :
           m = [holds |-> a..b, drops |-> Mine \cap ToSet(SubSeq(logged, a, b))]
    BY <1>2 DEF Batch
  <2>2. ASSUME NEW s \in a..b PROVE logged[s] \in ToSet(SubSeq(logged, a, b))
    <3>. DEFINE t == SubSeq(logged, a, b)
    <3>1. logged \in Seq(Entries)
      BY DEF TypeOK
    <3>2. s - a + 1 \in DOMAIN t /\ t[s - a + 1] = logged[s]
      BY <3>1
    <3> QED
      BY <3>2 DEF ToSet
  <2> QED
    BY <1>1, <2>1, <2>2 DEF Entered
<1>3. CASE Ack(m)
  <2>1. PICK S \in SUBSET {s \in DOMAIN logged : logged[s] \in Mine} :
           m = [holds |-> {s \in S : logged[s] \in ToSet(queue)},
                drops |-> {logged[s] : s \in S}]
    BY <1>3 DEF Ack
  <2> QED
    BY <2>1 DEF Entered
<1>4. CASE Reject(m)
  <2>1. m.holds = {}
    BY <1>4 DEF Reject
  <2> QED
    BY <2>1 DEF Entered
<1> QED
  BY <1>2, <1>3, <1>4

\* A queue that is what is left of an injective one, apart from what is held.
Apart(q, h) == IsInjective(q) /\ ToSet(q) \cap Entered(h) = {}

LEMMA ApartLess ==
    ASSUME NEW X, NEW q \in Seq(X), NEW h, Apart(q, h), NEW b
    PROVE  Apart(Kept(b, q), h)
BY KeptLeftOver, Zenon DEF Apart

LEMMA QueuedApart ==
    ASSUME TypeOK, NEW m \in Message, Batch(m) \/ Ack(m) \/ Reject(m),
           Apart(queue, held)
    PROVE  Apart(Queued(m), Holding(m))
<1>1. ToSet(Queued(m)) = ToSet(queue) \ m.drops /\ IsInjective(Queued(m))
  BY MessageFacts DEF Apart
<1>2. Entered(Holding(m)) = Entered(held) \cup Entered(m.holds)
  BY DEF Entered, Holding
<1> QED
  BY <1>1, <1>2, MessageDrops DEF Apart

LEMMA RememberedApart ==
    ASSUME TypeOK, IsInjective(queue)
    PROVE  Apart(Remembered, held)
<1>1. Remembered = Without(queue, Entered(held)) /\ queue \in Seq(authored)
  BY DEF Remembered, Entered, TypeOK
<1> QED
  BY <1>1, LeftOver DEF Apart

\* OnceInv but for what ViewInv says.
OnceOnly ==
    /\ unrecorded = {}
    /\ IsInjective(logged)
    /\ 1..db.cursor \subseteq held
    /\ IsInjective(queue)
    /\ run => Apart(queue, held)

LEMMA OnceParts == OnceInv <=> ViewInv /\ OnceOnly
BY DEF OnceInv, OnceOnly, Apart, Entered

LEMMA InitOnce == Init => OnceOnly
BY DEF Init, Opened, OnceOnly, IsInjective, Apart, Entered, ToSet

LEMMA ServerLogsOnce ==
    ASSUME ViewInv, OnceOnly, NEW e, ServerLogs(e) PROVE OnceOnly'
<1>1. /\ e \in Entries /\ e \notin ToSet(logged) /\ logged' = Append(logged, e)
      /\ UNCHANGED <<unrecorded, held, queue, db, run>>
  BY DEF ServerLogs, ViewInv, TypeOK, Entries
<1>2. logged \in Seq(Entries) /\ held \subseteq DOMAIN logged
  BY DEF ViewInv, TypeOK
<1>3. IsInjective(logged')
  BY <1>1, <1>2, AppendFacts DEF OnceOnly
<1>4. Entered(held)' = Entered(held)
  <2>1. \A s \in held : logged'[s] = logged[s]
    BY <1>1, <1>2
  <2> QED
    BY <1>1, <2>1 DEF Entered
<1> QED
  BY <1>1, <1>3, <1>4 DEF OnceOnly, Apart

LEMMA MutateOnce ==
    ASSUME Failures \subseteq {"crash"}, ViewInv, OnceOnly, NEW e \in Mine, Mutate(e)
    PROVE  OnceOnly'
<1>1. /\ run /\ e \notin authored
      /\ UNCHANGED <<logged, held, run>>
  BY DEF Mutate
<1>2. /\ TypeOK /\ queue \in Seq(authored) /\ authored \subseteq Mine
      /\ ToSet(logged) \subseteq Theirs \cup authored /\ held \in SUBSET (DOMAIN logged)
  BY DEF ViewInv, TypeOK
<1>3. RaisedQueue \in Seq(authored) /\ Apart(RaisedQueue, held) /\ Raised.cursor = db.cursor
  <2>1. Apart(queue, held)
    BY <1>1 DEF OnceOnly
  <2>2. RaisedQueue \in Seq(authored) /\ Raised.cursor = db.cursor
    BY RaisedFacts
  <2>3. Apart(Kept(db.rows, queue), held)
    BY <1>2, <2>1, ApartLess
  <2> QED
    BY <2>1, <2>2, <2>3 DEF RaisedQueue
<1>4. "intents" \notin Failures
  OBVIOUS
<1>5. /\ unrecorded' = unrecorded /\ db'.cursor = db.cursor
      /\ queue' = RaisedQueue \/ queue' = Append(RaisedQueue, e)
  <2>1. Raised \in Conn
    BY RaisedFacts
  <2>2. \/ /\ db' = [Raised EXCEPT !.savepoint = TRUE]
           /\ queue' = RaisedQueue
           /\ UNCHANGED unrecorded
        \/ /\ db' = [Raised EXCEPT !.savepoint = TRUE, !.rows = Append(@, e),
                                   !.changes = Append(@, e)]
           /\ queue' = Append(RaisedQueue, e)
           /\ UNCHANGED unrecorded
    BY <1>4, Zenon DEF Mutate, Raised, RaisedQueue, Fail
  <2> QED
    BY <1>3, <2>1, <2>2 DEF Conn
<1>6. Apart(Append(RaisedQueue, e), held)
  <2>1. RaisedQueue \in Seq(Mine)
    BY <1>2, <1>3
  <2>2. /\ ToSet(Append(RaisedQueue, e)) = ToSet(RaisedQueue) \cup {e}
        /\ IsInjective(RaisedQueue) /\ e \notin ToSet(RaisedQueue)
           => IsInjective(Append(RaisedQueue, e))
    BY <2>1, AppendFacts
  <2>3. e \notin ToSet(RaisedQueue)
    BY <1>1, <1>3 DEF ToSet
  <2>4. e \notin Entered(held)
    BY <1>1, <1>2, EnteredFacts, ViewAssumption
  <2> QED
    BY <1>3, <2>2, <2>3, <2>4 DEF Apart
<1>7. Entered(held)' = Entered(held)
  BY <1>1 DEF Entered
<1>8. Apart(queue, held)'
  BY <1>3, <1>5, <1>6, <1>7 DEF Apart
<1> QED
  BY <1>1, <1>5, <1>8 DEF OnceOnly, Apart

LEMMA RecvOnce ==
    ASSUME ViewInv, OnceOnly, NEW m \in Message, Recv(m) PROVE OnceOnly'
<1>. DEFINE d == DiscardOptimistic(db)
            end == RunEnd(Holding(m), d.cursor)
            up == Advance(d, end)
<1>1. /\ run /\ held' = Holding(m) /\ (Batch(m) \/ Ack(m) \/ Reject(m))
      /\ db' = OpenOptimistic(up, Queued(m)) /\ queue' = Kept(up.rows, Queued(m))
      /\ UNCHANGED <<logged, unrecorded, run>>
  BY DEF Recv
<1>2. TypeOK
  BY DEF ViewInv
<1>3. Down(d) /\ ~d.savepoint /\ d.cursor = db.cursor
  BY DiscardDown
<1>4. /\ end \in db.cursor..Len(logged) /\ Queued(m) \in Seq(authored)
      /\ (db.cursor + 1)..end \subseteq Holding(m) /\ held \subseteq Holding(m)
  BY <1>2, <1>3, MessageFacts
<1>. HIDE DEF d, end
<1>5. Down(up) /\ ~up.savepoint /\ up.cursor = end
  BY <1>2, <1>3, <1>4, AdvanceDown
<1>. HIDE DEF up
<1>6. db'.cursor = end
  BY <1>1, <1>2, <1>4, <1>5, OpenShown
<1>7. 1..db'.cursor \subseteq held'
  <2>1. db.cursor \in Nat /\ 1..db.cursor \subseteq held /\ Len(logged) \in Nat
    BY <1>2 DEF OnceOnly, TypeOK
  <2> QED
    BY <1>1, <1>4, <1>6, <2>1
<1>8. Apart(queue', Holding(m))
  <2>1. Apart(Queued(m), Holding(m))
    BY <1>1, <1>2, QueuedApart DEF OnceOnly
  <2> QED
    BY <1>1, <1>4, <2>1, ApartLess
<1>9. Entered(held)' = Entered(Holding(m))
  BY <1>1 DEF Entered
<1> QED
  BY <1>1, <1>7, <1>8, <1>9 DEF OnceOnly, Apart

LEMMA RecvFailsOnce ==
    ASSUME Failures \subseteq {"crash"},
           ViewInv, OnceOnly, NEW m \in Message, RecvFails(m)
    PROVE  OnceOnly'
<1>1. PICK end \in Interrupted(m) :
             /\ Stuck(m, end)
             /\ db' = end.db /\ held' = end.held /\ queue' = end.queue
  <2>1. Failures \ {"crash"} = {}
    OBVIOUS
  <2> QED
    BY <2>1, Zenon DEF RecvFails
<1>2. /\ run /\ (Batch(m) \/ Ack(m) \/ Reject(m))
      /\ UNCHANGED <<logged, unrecorded, run>>
  BY DEF RecvFails
<1>3. Ended(end) /\ TypeOK
  BY InterruptedEnded DEF ViewInv
<1>4. held' = Holding(m) /\ queue' = Queued(m)
  <2>1. end.held = Holding(m) /\ end.queue = Queued(m)
    BY <1>1 DEF Stuck
  <2> QED
    BY <1>1, <2>1
<1>5. 1..db'.cursor \subseteq held'
  BY <1>1, <1>3 DEF Ended, OnceOnly, TypeOK
<1>6. Apart(Queued(m), Holding(m))
  BY <1>2, <1>3, QueuedApart DEF OnceOnly
<1>7. Entered(held)' = Entered(Holding(m))
  BY <1>2, <1>4 DEF Entered
<1> QED
  BY <1>2, <1>4, <1>5, <1>6, <1>7 DEF OnceOnly, Apart

LEMMA CrashOnce ==
    ASSUME ViewInv, OnceOnly, Crash PROVE OnceOnly'
<1>1. PICK m \in Message : \E end \in Interrupted(m) :
             /\ db' = Opened(end.db.disk, end.db.cursor)
             /\ held' = end.held
             /\ queue' = end.queue
  BY Zenon DEF Crash
<1>2. PICK end \in Interrupted(m) :
             /\ db' = Opened(end.db.disk, end.db.cursor)
             /\ held' = end.held
             /\ queue' = end.queue
  BY <1>1
<1>3. run' = FALSE /\ UNCHANGED <<logged, unrecorded>>
  BY DEF Crash
<1>4. Ended(end) /\ TypeOK
  BY InterruptedEnded DEF ViewInv
<1>5. 1..db'.cursor \subseteq held'
  BY <1>2, <1>4 DEF Ended, OnceOnly, TypeOK, Opened
<1>6. IsInjective(queue')
  <2>1. PICK R : queue' = Without(queue, R)
    BY <1>2, <1>4 DEF Ended
  <2> QED
    BY <1>4, <2>1, LeftOver DEF OnceOnly, TypeOK
<1> QED
  BY <1>3, <1>5, <1>6 DEF OnceOnly

LEMMA OpenOnce ==
    ASSUME ViewInv, OnceOnly, Open PROVE OnceOnly'
<1>. DEFINE end == RunEnd(held, db.cursor)
            up == Advance(db, end)
            o == OpenOptimistic(up, Remembered)
<1>1. /\ ~run /\ db' = [o EXCEPT !.changes = <<>>, !.rebuilt = FALSE]
      /\ queue' = Kept(up.rows, Remembered)
      /\ UNCHANGED <<logged, unrecorded, held>>
  BY DEF Open, Remembered
<1>2. TypeOK /\ logged \in Seq(Entries) /\ held \in SUBSET (DOMAIN logged)
      /\ db.cursor \in 0..Len(logged)
  BY DEF ViewInv, TypeOK
<1>3. Down(db) /\ ~db.savepoint
  BY <1>1 DEF ViewInv, TypeOK, DiskIsConfirmed, Down, Conn
<1>4. end \in db.cursor..Len(logged) /\ (db.cursor + 1)..end \subseteq held
  BY <1>2, RunEndFacts
<1>. HIDE DEF end
<1>5. Down(up) /\ ~up.savepoint /\ up.cursor = end
  BY <1>2, <1>3, <1>4, AdvanceDown
<1>6. Remembered \in Seq(authored)
  BY <1>2, LeftInSeq DEF Remembered
<1>. HIDE DEF up
<1>7. o.cursor = end /\ o \in Conn
  BY <1>2, <1>5, <1>6, OpenShown DEF Shown
<1>. HIDE DEF o
<1>8. 1..db'.cursor \subseteq held'
  BY <1>1, <1>2, <1>4, <1>7 DEF OnceOnly, Conn
<1>9. Apart(queue', held)
  BY <1>1, <1>2, <1>6, RememberedApart, ApartLess DEF OnceOnly
<1>10. Entered(held)' = Entered(held)
  BY <1>1 DEF Entered
<1> QED
  BY <1>1, <1>8, <1>9, <1>10 DEF OnceOnly, Apart

LEMMA OnceStep ==
    ASSUME Failures \subseteq {"crash"}
    PROVE  OnceInv /\ [Next]_vars => OnceInv'
<1>. SUFFICES ASSUME ViewInv, OnceOnly, [Next]_vars PROVE OnceOnly'
  <2>1. OnceInv' <=> ViewInv' /\ OnceOnly'
    BY DEF OnceInv, OnceOnly, Apart, Entered
  <2> QED
    BY <2>1, OnceParts, ViewStep, Zenon
<1>1. CASE UNCHANGED vars
  BY <1>1 DEF vars, OnceOnly, Apart, Entered
<1>2. CASE \E e \in Mine \cup Theirs : ServerLogs(e)
  BY <1>2, ServerLogsOnce
<1>3. CASE \E e \in Mine : ServerRefuses(e)
  BY <1>3 DEF ServerRefuses, OnceOnly, Apart, Entered
<1>4. CASE \E e \in Mine : Mutate(e)
  BY <1>4, MutateOnce
<1>5. CASE \E m \in Message : Recv(m)
  BY <1>5, RecvOnce
<1>6. CASE \E m \in Message : RecvFails(m)
  BY <1>6, RecvFailsOnce
<1>7. ~MutateFails
  BY DEF MutateFails, Fail
<1>8. CASE Settle
  <2>1. db'.cursor = db.cursor /\ UNCHANGED <<logged, unrecorded, held, queue, run>>
    BY <1>8 DEF Settle, ViewInv, TypeOK
  <2> QED
    BY <2>1 DEF OnceOnly, Apart, Entered
<1> QED
  BY <1>1, <1>2, <1>3, <1>4, <1>5, <1>6, <1>7, <1>8, CrashOnce, OpenOnce DEF Next

LEMMA OnceGivesRows == OnceInv => RowsOnce
<1>. SUFFICES ASSUME ViewInv, OnceOnly, run PROVE IsInjective(db.rows)
  BY OnceParts DEF RowsOnce
<1>. DEFINE disk == db.disk
            rows == db.rows
            n == db.cursor
<1>1. /\ logged \in Seq(Entries) /\ n \in 0..Len(logged) /\ disk = SubSeq(logged, 1, n)
      /\ disk \in Seq(Entries) /\ rows \in Seq(Entries) /\ queue \in Seq(Entries)
      /\ Without(rows, {}) = IF db.savepoint THEN disk \o queue ELSE disk
  BY SMTT(60) DEF ViewInv, TypeOK, DiskIsConfirmed, ViewIsWhole, OnceOnly, Entries
<1>2. 1..n \subseteq held /\ Apart(queue, held) /\ IsInjective(logged)
  BY DEF OnceOnly
<1>. HIDE DEF disk, rows, n
<1>3. Without(rows, {}) = rows
  BY <1>1, WithoutNone, ToSet(rows) \cap {} = {}
<1>4. \A i \in DOMAIN disk : i \in 1..n /\ i \in DOMAIN logged /\ disk[i] = logged[i]
  BY <1>1
<1>5. IsInjective(disk)
  BY <1>2, <1>4, Zenon DEF IsInjective
<1>6. ToSet(disk) \subseteq Entered(held)
  BY <1>2, <1>4 DEF ToSet, Entered
<1>7. IsInjective(disk \o queue)
  BY <1>1, <1>2, <1>5, <1>6, ConcatFacts DEF Apart
<1> QED
  BY <1>1, <1>3, <1>5, <1>7 DEF rows

\* While no write fails and whenever the process stops, no entry is shown
\* twice: what is held has left the queue (client.rs `drop_pending`,
\* `forget_confirmed_intents`).
THEOREM NothingShowsTwice ==
    ASSUME Failures \subseteq {"crash"}
    PROVE  Spec => []RowsOnce
<1>1. Init => OnceInv
  BY InitView, InitOnce, OnceParts
<1> QED
  BY <1>1, OnceStep, OnceGivesRows, PTL DEF Spec

----------------------------------------------------------------------------
(* The view is up to date, and so is a copy of it, where no call fails *)

\* CurrentInv but for what ViewInv says.
CurrentOnly ==
    /\ unrecorded = {}
    /\ run /\ ~db.savepoint => queue = <<>>
    /\ run /\ ~db.rebuilt => mirror \o db.changes = db.rows

LEMMA CurrentParts == CurrentInv <=> ViewInv /\ CurrentOnly
BY DEF CurrentInv, CurrentOnly, MirrorIsCurrent

LEMMA InitCurrent == Init => CurrentOnly
BY DEF Init, Opened, CurrentOnly

\* Nothing is put up by a mutate: what is queued is up.
LEMMA RaisedSame ==
    ASSUME ViewInv, CurrentOnly, run
    PROVE  /\ Raised \in Conn
           /\ Raised.rows = db.rows /\ Raised.changes = db.changes
           /\ Raised.rebuilt = db.rebuilt /\ RaisedQueue = queue
<1>1. TypeOK /\ db \in Conn /\ queue \in Seq(authored)
  BY DEF ViewInv, TypeOK, Conn
<1>2. CASE db.savepoint
  BY <1>1, <1>2 DEF Raised, RaisedQueue
<1>3. CASE ~db.savepoint
  <2>1. Down(db) /\ queue = <<>>
    BY <1>1, <1>3 DEF ViewInv, DiskIsConfirmed, Down, CurrentOnly
  <2>2. Kept(db.rows, queue) = <<>>
    BY <1>1, <2>1, KeptLeftOver
  <2>3. /\ Shown(Raised, Kept(db.rows, queue))
        /\ Raised.disk = db.disk /\ Raised.changes = db.changes
        /\ Raised.rebuilt = (db.rebuilt \/ Kept(db.rows, queue) # queue)
    BY <1>1, <1>3, <2>1, OpenShown DEF Raised
  <2>4. Raised.rows = db.rows
    BY <1>1, <2>1, <2>2, <2>3 DEF Shown, Conn, Down
  <2>5. db.rebuilt \in BOOLEAN
    BY <1>1 DEF Conn
  <2> QED
    BY <1>3, <2>1, <2>2, <2>3, <2>4, <2>5 DEF RaisedQueue, Shown
<1> QED
  BY <1>2, <1>3

LEMMA MutateCurrent ==
    ASSUME Failures \subseteq {"crash"}, ViewInv, CurrentOnly, NEW e \in Mine, Mutate(e)
    PROVE  CurrentOnly'
<1>. DEFINE applied == [Raised EXCEPT !.savepoint = TRUE, !.rows = Append(@, e),
                                      !.changes = Append(@, e)]
<1>1. run /\ mirror' = mirror /\ run' = run
  BY DEF Mutate
<1>2. "intents" \notin Failures
  OBVIOUS
<1>3. /\ unrecorded' = unrecorded
      /\ db' = [Raised EXCEPT !.savepoint = TRUE] \/ db' = applied
  BY <1>2, Zenon DEF Mutate, Raised, Fail
<1>4. /\ Raised \in Conn /\ Raised.rows = db.rows /\ Raised.changes = db.changes
      /\ Raised.rebuilt = db.rebuilt
  BY <1>1, RaisedSame
<1>5. /\ e \in Entries /\ mirror \in Seq(Entries) /\ db.changes \in Seq(Entries)
  BY DEF ViewInv, TypeOK, Entries
<1>6. db'.savepoint /\ db'.rebuilt = db.rebuilt
  BY <1>3, <1>4 DEF Conn
<1>7. \/ db'.rows = db.rows /\ db'.changes = db.changes
      \/ db'.rows = Append(db.rows, e) /\ db'.changes = Append(db.changes, e)
  BY <1>3, <1>4 DEF Conn
<1>8. mirror \o Append(db.changes, e) = Append(mirror \o db.changes, e)
  <2>1. \A s, t \in Seq(Entries) : s \o Append(t, e) = Append(s \o t, e)
    BY <1>5
  <2> QED
    BY <1>5, <2>1, Zenon
<1> QED
  BY <1>1, <1>3, <1>6, <1>7, <1>8 DEF CurrentOnly

LEMMA RecvCurrent ==
    ASSUME ViewInv, CurrentOnly, NEW m \in Message, Recv(m) PROVE CurrentOnly'
<1>. DEFINE d == DiscardOptimistic(db)
            end == RunEnd(Holding(m), d.cursor)
            up == Advance(d, end)
            es == SubSeq(logged, d.cursor + 1, end)
            kept == Kept(up.rows, Queued(m))
<1>1. /\ run /\ db' = OpenOptimistic(up, Queued(m)) /\ queue' = kept
      /\ UNCHANGED <<logged, unrecorded, mirror, run>>
  BY DEF Recv
<1>2. TypeOK /\ logged \in Seq(Entries) /\ mirror \in Seq(Entries)
      /\ db \in Conn
  BY DEF ViewInv, TypeOK, Conn
<1>3. /\ Down(d) /\ ~d.savepoint /\ d.cursor = db.cursor /\ d.changes = db.changes
      /\ d.disk = db.disk /\ d.rebuilt = (db.rebuilt \/ db.savepoint)
  BY DiscardDown
<1>4. /\ end \in d.cursor..Len(logged) /\ Queued(m) \in Seq(authored)
      /\ queue = <<>> => Queued(m) = <<>>
  BY <1>2, <1>3, MessageFacts
<1>5. es \in Seq(Entries)
  <2>1. d.cursor \in 0..Len(logged)
    BY <1>3 DEF Down, Conn
  <2>. HIDE DEF d, end
  <2> QED
    BY <1>2, <1>4, <2>1, Beginnings
<1>. HIDE DEF d, end
<1>6. /\ Down(up) /\ ~up.savepoint /\ up.rebuilt = d.rebuilt
      /\ up.rows = d.rows \o es /\ up.changes = d.changes \o es
  <2>1. TypeOK /\ Down(d) /\ end \in d.cursor..Len(logged)
    BY <1>2, <1>3, <1>4
  <2>2. /\ Down(up)
        /\ up.savepoint = d.savepoint
        /\ up.rebuilt = d.rebuilt
        /\ up.rows = d.rows \o es
        /\ up.changes = d.changes \o es
    BY <2>1, AdvanceDown, Zenon
  <2> QED
    BY <1>3, <2>2, Zenon
<1>. HIDE DEF up, es
<1>7. /\ kept \in Seq(authored)
      /\ Shown(db', kept) /\ db'.disk = up.disk /\ db'.changes = up.changes
      /\ db'.savepoint = (kept # <<>>)
      /\ db'.rebuilt = (up.rebuilt \/ kept # Queued(m))
  BY <1>1, <1>2, <1>4, <1>6, OpenShown
<1>8. Queued(m) = <<>> => kept = <<>>
  BY <1>4, KeptLeftOver
<1>. HIDE DEF kept
<1>9. ASSUME ~db'.rebuilt PROVE mirror \o db'.changes = db'.rows
  <2>1. ~db.rebuilt /\ ~db.savepoint
    BY <1>2, <1>3, <1>6, <1>7, <1>9 DEF Conn
  <2>2. queue = <<>> /\ mirror \o db.changes = db.rows /\ db.rows = db.disk
    BY <1>1, <2>1 DEF CurrentOnly, ViewInv
  <2>3. db'.rows = up.rows
    BY <1>4, <1>6, <1>7, <1>8, <2>2 DEF Shown, Down, Conn
  <2>4. db'.rows = db.rows \o es /\ db'.changes = db.changes \o es
    BY <1>3, <1>6, <1>7, <2>2, <2>3 DEF Down
  <2>5. db.changes \in Seq(Entries)
    BY <1>2 DEF Conn
  <2>6. \A s, t, r \in Seq(Entries) : s \o (t \o r) = (s \o t) \o r
    OBVIOUS
  <2>7. mirror \o (db.changes \o es) = (mirror \o db.changes) \o es
    BY <1>2, <1>5, <2>5, <2>6, Zenon
  <2> QED
    BY <2>2, <2>4, <2>7
<1> QED
  BY <1>1, <1>7, <1>9 DEF CurrentOnly

LEMMA OpenCurrent ==
    ASSUME ViewInv, CurrentOnly, Open PROVE CurrentOnly'
<1>. DEFINE up == Advance(db, RunEnd(held, db.cursor))
            o == OpenOptimistic(up, Remembered)
<1>1. /\ ~run /\ mirror' = db'.rows /\ unrecorded' = unrecorded
      /\ db' = [o EXCEPT !.changes = <<>>, !.rebuilt = FALSE]
      /\ queue' = Kept(up.rows, Remembered)
  BY DEF Open, Remembered
<1>2. TypeOK /\ logged \in Seq(Entries) /\ held \in SUBSET (DOMAIN logged)
      /\ db.cursor \in 0..Len(logged)
  BY DEF ViewInv, TypeOK
<1>3. Down(db) /\ ~db.savepoint
  BY <1>1 DEF ViewInv, TypeOK, DiskIsConfirmed, Down, Conn
<1>4. RunEnd(held, db.cursor) \in db.cursor..Len(logged)
  BY <1>2, RunEndFacts
<1>5. Down(up) /\ ~up.savepoint
  BY <1>2, <1>3, <1>4, AdvanceDown
<1>6. Remembered \in Seq(authored)
  BY <1>2, LeftInSeq DEF Remembered
<1>. HIDE DEF up
<1>7. Shown(o, queue') /\ o.savepoint = (queue' # <<>>)
  BY <1>1, <1>2, <1>5, <1>6, OpenShown
<1>. HIDE DEF o
<1>8. db'.savepoint = (queue' # <<>>) /\ db'.changes = <<>> /\ db'.rows \in Seq(Entries)
  BY <1>1, <1>7 DEF Shown, Conn
<1>9. mirror' \o db'.changes = db'.rows
  BY <1>1, <1>8
<1> QED
  BY <1>1, <1>8, <1>9 DEF CurrentOnly

LEMMA SettleCurrent ==
    ASSUME ViewInv, CurrentOnly, Settle PROVE CurrentOnly'
<1>1. /\ run /\ mirror' = IF db.rebuilt THEN db.rows ELSE mirror \o db.changes
      /\ db' = [db EXCEPT !.changes = <<>>, !.rebuilt = FALSE]
      /\ UNCHANGED <<unrecorded, queue, run>>
  BY DEF Settle
<1>2. db \in Conn
  BY DEF ViewInv, TypeOK, Conn
<1>3. mirror' = db.rows
  BY <1>1 DEF CurrentOnly
<1>4. db'.rows = db.rows /\ db'.changes = <<>> /\ db'.savepoint = db.savepoint
      /\ db.rows \in Seq(Entries)
  BY <1>1, <1>2 DEF Conn
<1>5. mirror' \o db'.changes = db'.rows
  BY <1>3, <1>4
<1> QED
  BY <1>1, <1>4, <1>5 DEF CurrentOnly

\* No recv stops in front of an entry the app cannot apply.
LEMMA NeverStuck ==
    ASSUME Failures \subseteq {"crash"}, Unknown = {}, NEW m
    PROVE  ~RecvFails(m)
<1>1. \A from, to : Appliable(from, to)
  BY DEF Appliable
<1>2. \A end : ~Stuck(m, end)
  BY <1>1, Zenon DEF Stuck
<1>3. Failures \ {"crash"} = {}
  OBVIOUS
<1> QED
  BY <1>2, <1>3, Zenon DEF RecvFails

LEMMA CurrentStep ==
    ASSUME Failures \subseteq {"crash"}, Unknown = {}
    PROVE  CurrentInv /\ [Next]_vars => CurrentInv'
<1>. SUFFICES ASSUME ViewInv, CurrentOnly, [Next]_vars PROVE CurrentOnly'
  <2>1. CurrentInv' <=> ViewInv' /\ CurrentOnly'
    BY DEF CurrentInv, CurrentOnly, MirrorIsCurrent
  <2> QED
    BY <2>1, CurrentParts, ViewStep, Zenon
<1>1. CASE UNCHANGED vars
  BY <1>1 DEF vars, CurrentOnly
<1>2. CASE \E e \in Mine \cup Theirs : ServerLogs(e)
  BY <1>2 DEF ServerLogs, CurrentOnly
<1>3. CASE \E e \in Mine : ServerRefuses(e)
  BY <1>3 DEF ServerRefuses, CurrentOnly
<1>4. CASE \E e \in Mine : Mutate(e)
  BY <1>4, MutateCurrent
<1>5. CASE \E m \in Message : Recv(m)
  BY <1>5, RecvCurrent
<1>6. ~(\E m \in Message : RecvFails(m)) /\ ~MutateFails
  BY NeverStuck DEF MutateFails, Fail
<1>7. CASE Crash
  BY <1>7 DEF Crash, CurrentOnly
<1> QED
  BY <1>1, <1>2, <1>3, <1>4, <1>5, <1>6, <1>7, SettleCurrent, OpenCurrent DEF Next

LEMMA CurrentHolds ==
    ASSUME Failures \subseteq {"crash"}, Unknown = {}
    PROVE  Spec => []CurrentInv
<1>1. Init => CurrentInv
  BY InitView, InitCurrent, CurrentParts
<1> QED
  BY <1>1, CurrentStep, PTL DEF Spec

LEMMA CurrentGivesReplay == CurrentInv => ViewIsReplay
<1>. SUFFICES ASSUME ViewInv, CurrentOnly, run PROVE db.rows = db.disk \o queue
  BY CurrentParts DEF ViewIsReplay
<1>. DEFINE rows == db.rows
<1>1. /\ rows \in Seq(Entries) /\ db.disk \in Seq(Entries)
      /\ Without(rows, {}) = IF db.savepoint THEN db.disk \o queue ELSE db.disk
  BY DEF ViewInv, TypeOK, ViewIsWhole, CurrentOnly
<1>. HIDE DEF rows
<1>2. Without(rows, {}) = rows
  BY <1>1, WithoutNone, ToSet(rows) \cap {} = {}
<1>3. ~db.savepoint => db.disk \o queue = db.disk
  BY <1>1 DEF CurrentOnly
<1> QED
  BY <1>1, <1>2, <1>3 DEF rows

\* While no call fails, the view is what the documentation of `Client` says:
\* replay(confirmed), then replay(pending).
THEOREM ViewsAreReplays ==
    ASSUME Failures \subseteq {"crash"}, Unknown = {}
    PROVE  Spec => []ViewIsReplay
BY CurrentHolds, CurrentGivesReplay, PTL

\* A view maintained from the changes a client reports shows its database
\* (client.rs `take_changes`).
THEOREM MirrorsAreCurrent ==
    ASSUME Failures \subseteq {"crash"}, Unknown = {}
    PROVE  Spec => []MirrorIsCurrent
<1>1. CurrentInv => MirrorIsCurrent
  BY DEF CurrentInv
<1> QED
  BY <1>1, CurrentHolds, PTL

----------------------------------------------------------------------------
(* Who is dropped, whatever a refused entry leaves behind *)

\* Only the entries of q count.
LEMMA WithoutSame ==
    ASSUME NEW X, NEW q \in Seq(X), NEW S, NEW U, ToSet(q) \cap S = ToSet(q) \cap U
    PROVE  Without(q, S) = Without(q, U)
<1>. DEFINE T == {r \in Seq(X) :
                    ToSet(r) \cap S = ToSet(r) \cap U => Without(r, S) = Without(r, U)}
<1>1. <<>> \in T
  BY WithoutEmpty
<1>2. ASSUME NEW r \in Seq(X), NEW x \in X, r \in T PROVE Append(r, x) \in T
  <2>1. \A R : Without(Append(r, x), R) =
                  IF x \in R THEN Without(r, R) ELSE Append(Without(r, R), x)
    BY WithoutAppend
  <2>2. Append(r, x) \in Seq(X) /\ ToSet(Append(r, x)) = ToSet(r) \cup {x}
    BY AppendFacts, Zenon
  <2>3. ASSUME ToSet(Append(r, x)) \cap S = ToSet(Append(r, x)) \cap U
        PROVE  Without(Append(r, x), S) = Without(Append(r, x), U)
    <3>1. ToSet(r) \cap S = ToSet(r) \cap U /\ (x \in S <=> x \in U)
      <4>1. (ToSet(r) \cup {x}) \cap S = (ToSet(r) \cup {x}) \cap U
        BY <2>2, <2>3
      <4>2. \A e \in ToSet(r) \cup {x} : e \in S <=> e \in U
        BY <4>1
      <4> QED
        BY <4>2
    <3> QED
      BY <1>2, <2>1, <3>1
  <2> QED
    BY <2>2, <2>3
<1>3. Seq(X) \subseteq T
  <2>. HIDE DEF T
  <2> QED
    BY <1>1, <1>2, SeqInd, Zenon
<1> QED
  BY <1>3

\* What the app writes of the entries of X, drafts included, are rows of Y.
Writes(X, Y) == X \subseteq Y /\ \A e \in X : Partial(e) \in Seq(Y)

\* The tables and the refused, v, after one more entry.
Judge(v, e) ==
    IF Rejects(v.rows, e)
    THEN [rows |-> v.rows \o Partial(e), out |-> v.out \cup {e}]
    ELSE [rows |-> Append(v.rows, e), out |-> v.out]

\* pass[i] is the tables and the refused after the first i.
Replaying(pass, X, Y, b, q) ==
    /\ RefusedIn(b, q) = pass[Len(q)].out
    /\ pass \in [0..Len(q) -> [rows : Seq(Y), out : SUBSET X]]
    /\ pass[0] = [rows |-> b, out |-> {}]
    /\ \A i \in 1..Len(q) : pass[i] = Judge(pass[i - 1], q[i])

LEMMA ReplayRec ==
    ASSUME NEW Y, NEW X, Writes(X, Y), NEW b \in Seq(Y), NEW q \in Seq(X)
    PROVE  \E pass : Replaying(pass, X, Y, b, q)
<1>. DEFINE V == [rows : Seq(Y), out : SUBSET X]
            first == [rows |-> b, out |-> {}]
            coded(v, i) == IF Rejects(v.rows, q[i])
                           THEN [rows |-> v.rows \o Partial(q[i]), out |-> v.out \cup {q[i]}]
                           ELSE [v EXCEPT !.rows = Append(@, q[i])]
            step == [i \in 1..Len(q) |-> [v \in V |-> Judge(v, q[i])]]
            Eq(w) == w = [i \in 0..Len(q) |-> IF i = 0 THEN first ELSE coded(w[i - 1], i)]
<1>1. Len(q) \in Nat /\ first \in V
  OBVIOUS
<1>2. ASSUME NEW v \in V, NEW i \in 1..Len(q)
      PROVE  Judge(v, q[i]) \in V /\ coded(v, i) = Judge(v, q[i])
  <2>. DEFINE vr == v.rows
              vo == v.out
  <2>1. vr \in Seq(Y) /\ vo \in SUBSET X /\ q[i] \in X
        /\ v = [rows |-> vr, out |-> vo]
    OBVIOUS
  <2>2. q[i] \in Y /\ Partial(q[i]) \in Seq(Y)
    BY <2>1 DEF Writes
  <2>3. Append(vr, q[i]) \in Seq(Y) /\ vo \cup {q[i]} \in SUBSET X
        /\ vr \o Partial(q[i]) \in Seq(Y)
    BY <2>1, <2>2
  <2>4. [v EXCEPT !.rows = Append(@, q[i])] = [rows |-> Append(vr, q[i]), out |-> vo]
    <3>1. \A r, o, t : [[rows |-> r, out |-> o] EXCEPT !.rows = t] = [rows |-> t, out |-> o]
      OBVIOUS
    <3>2. v = [rows |-> vr, out |-> vo] /\ v.rows = vr
      BY <2>1
    <3>. HIDE DEF vr, vo
    <3> QED
      BY <3>1, <3>2, Zenon
  <2>5. Judge(v, q[i]) \in V
    BY <2>1, <2>3 DEF Judge
  <2>6. coded(v, i) = Judge(v, q[i])
    BY <2>4 DEF Judge
  <2> QED
    BY <2>5, <2>6
<1>. HIDE DEF coded, first, V
<1>3. step \in [1..Len(q) -> [V -> V]]
  BY <1>2
<1>4. PICK f : Computed(f, V, Len(q), first, step)
  <2>. HIDE DEF step
  <2> QED
    BY <1>1, <1>3, Recursion, Zenon
<1>5. \A i \in 1..Len(q) : f[i] = Judge(f[i - 1], q[i]) /\ f[i - 1] \in V
  <2>. TAKE i \in 1..Len(q)
  <2>1. f[i] = step[i][f[i - 1]]
    BY <1>4 DEF Computed
  <2>2. f[i - 1] \in V
    BY <1>1, <1>4 DEF Computed
  <2> QED
    BY <2>1, <2>2
<1>. HIDE DEF step
<1>6. Eq(f)
  <2>. DEFINE g == [i \in 0..Len(q) |-> IF i = 0 THEN first ELSE coded(f[i - 1], i)]
  <2>1. \A i \in 0..Len(q) : f[i] = g[i]
    <3>. TAKE i \in 0..Len(q)
    <3>1. CASE i = 0
      BY <1>4, <3>1 DEF Computed
    <3>2. CASE i # 0
      <4>1. i \in 1..Len(q)
        BY <1>1, <3>2
      <4>2. f[i] = coded(f[i - 1], i)
        BY <1>2, <1>5, <4>1
      <4> QED
        BY <3>2, <4>2
    <3> QED
      BY <3>1, <3>2
  <2>2. f = [i \in 0..Len(q) |-> f[i]]
    BY <1>4 DEF Computed
  <2> QED
    BY <2>1, <2>2
<1>. DEFINE w == CHOOSE x : Eq(x)
<1>7. RefusedIn(b, q) = w[Len(q)].out
  BY Zenon DEF RefusedIn, first, coded
<1>8. w = [i \in 0..Len(q) |-> IF i = 0 THEN first ELSE coded(w[i - 1], i)]
  BY <1>6, Zenon
<1>. HIDE DEF w
<1>9. w[0] = first
  BY <1>8
<1>10. \A i \in 1..Len(q) : w[i] = coded(w[i - 1], i)
  <2>. TAKE i \in 1..Len(q)
  <2>1. i \in 0..Len(q) /\ i # 0
    BY <1>1
  <2> QED
    BY <1>8, <2>1, Zenon
<1>11. \A i \in 0..Len(q) : w[i] \in V
  <2>1. \A i \in 1..Len(q) : w[i - 1] \in V => w[i] \in V
    BY <1>2, <1>10, Zenon
  <2> QED
    BY <1>1, <1>9, <2>1, InSteps, Zenon
<1>12. \A i \in 1..Len(q) : w[i] = Judge(w[i - 1], q[i])
  <2>. TAKE i \in 1..Len(q)
  <2>1. i - 1 \in 0..Len(q)
    BY <1>1
  <2> QED
    BY <1>2, <1>10, <1>11, <2>1, Zenon
<1>13. w \in [0..Len(q) -> V]
  BY <1>8, <1>11
<1> QED
  BY <1>7, <1>9, <1>12, <1>13, Zenon DEF Replaying, V, first

\* The sequence q of elements of X is a, its element at i, and z.
Around(X, q, i, a, z) ==
    /\ a \in Seq(X) /\ z \in Seq(X) /\ q[i] \in X /\ Append(a, q[i]) \in Seq(X)
    /\ Len(a) = i - 1 /\ i - 1 \in Nat /\ i <= Len(q)
    /\ \A j \in 1..(i - 1) : j \in DOMAIN q /\ a[j] = q[j]
    /\ SubSeq(q, 1, i) = Append(a, q[i])
    /\ q = Append(a, q[i]) \o z

LEMMA SplitAt ==
    ASSUME NEW X, NEW q \in Seq(X), NEW i \in DOMAIN q
    PROVE  Around(X, q, i, SubSeq(q, 1, i - 1), SubSeq(q, i + 1, Len(q)))
<1>. DEFINE a == SubSeq(q, 1, i - 1)
            z == SubSeq(q, i + 1, Len(q))
            n == Len(q)
            x == q[i]
            c == Append(a, x)
            f == SubSeq(q, 1, i)
<1>1. n \in Nat /\ i \in 1..n /\ x \in X /\ DOMAIN q = 1..n
  OBVIOUS
<1>2. a \in Seq(X) /\ Len(a) = i - 1 /\ \A j \in 1..(i - 1) : a[j] = q[j]
  BY <1>1, SubSeqProperties
<1>3. z \in Seq(X) /\ Len(z) = n - i /\ \A j \in 1..(n - i) : z[j] = q[i + j]
  <2>1. z \in Seq(X) /\ Len(z) = (IF i + 1 <= n THEN n - (i + 1) + 1 ELSE 0)
        /\ \A j \in 1..(n - (i + 1) + 1) : z[j] = q[i + 1 + j - 1]
    BY <1>1, SubSeqProperties
  <2> QED
    <3>. HIDE DEF z
    <3>1. n - (i + 1) + 1 = n - i /\ \A j \in 1..(n - i) : i + 1 + j - 1 = i + j
      BY <1>1
    <3> QED
      BY <1>1, <2>1, <3>1
<1>4. f \in Seq(X) /\ Len(f) = i /\ \A j \in 1..i : f[j] = q[j]
  BY <1>1, SubSeqProperties
<1>. HIDE DEF n, x, f, a, z
<1>5. /\ c \in Seq(X) /\ Len(c) = i /\ c[i] = x /\ \A j \in 1..(i - 1) : c[j] = a[j]
  BY <1>1, <1>2
<1>. HIDE DEF c
<1>6. \A j \in 1..i : c[j] = q[j]
  <2>. TAKE j \in 1..i
  <2>1. j = i \/ j \in 1..(i - 1)
    BY <1>1
  <2> QED
    BY <1>2, <1>5, <2>1 DEF x
<1>7. f = c
  BY <1>1, <1>4, <1>5, <1>6, SeqEqual
<1>8. q = c \o z
  <2>0. /\ c \o z \in Seq(X) /\ Len(c \o z) = Len(c) + Len(z)
        /\ \A j \in 1..(Len(c) + Len(z)) :
              (c \o z)[j] = IF j <= Len(c) THEN c[j] ELSE z[j - Len(c)]
    BY <1>3, <1>5, ConcatProperties
  <2>1. c \o z \in Seq(X) /\ Len(c \o z) = n
    BY <1>1, <1>3, <1>5, <2>0
  <2>2. \A j \in 1..n : q[j] = (c \o z)[j]
    <3>. TAKE j \in 1..n
    <3>1. CASE j \in 1..i
      BY <1>1, <1>3, <1>5, <1>6, <2>0, <3>1
    <3>2. CASE j \notin 1..i
      <4>1. j - i \in 1..(n - i) /\ j > i /\ i + (j - i) = j
        BY <1>1, <3>2
      <4>2. (c \o z)[j] = z[j - i]
        <5>1. j \in 1..(Len(c) + Len(z)) /\ ~(j <= Len(c)) /\ Len(c) = i
          BY <1>1, <1>3, <1>5, <4>1
        <5> QED
          BY <2>0, <5>1
      <4> QED
        BY <1>3, <4>1, <4>2
    <3> QED
      BY <3>1, <3>2
  <2>3. Len(q) = n
    BY DEF n
  <2> QED
    BY <2>1, <2>2, <2>3, SeqEqual
<1>9. \A j \in 1..(i - 1) : j \in DOMAIN q /\ a[j] = q[j]
  BY <1>1, <1>2
<1>10. i - 1 \in Nat /\ i <= n
  BY <1>1
<1>11. Around(X, q, i, a, z)
  BY <1>1, <1>2, <1>3, <1>5, <1>7, <1>8, <1>9, <1>10, Zenon DEF Around, c, x, f, n
<1> QED
  BY <1>11 DEF a, z

\* Until the first refusal, a pass has written the entries and nothing else.
LEMMA FirstRefusal ==
    ASSUME NEW Y, NEW X, Writes(X, Y), NEW b \in Seq(Y), NEW q \in Seq(X), IsInjective(q),
           NEW i \in DOMAIN q, q[i] \in RefusedIn(b, q),
           \A j \in 1..(i - 1) : q[j] \notin RefusedIn(b, q)
    PROVE  Rejects(b \o SubSeq(q, 1, i - 1), q[i])
<1>1. PICK pass : Replaying(pass, X, Y, b, q)
  BY ReplayRec, Zenon
<1>. DEFINE n == Len(q)
            Refused(j) == Rejects(pass[j - 1].rows, q[j])
            outs(k) == {q[j] : j \in {l \in 1..k : Refused(l)}}
<1>2. /\ n \in Nat /\ DOMAIN q = 1..n /\ i \in 1..n
      /\ RefusedIn(b, q) = pass[n].out
      /\ pass[0] = [rows |-> b, out |-> {}]
      /\ \A k \in 1..n : pass[k] = Judge(pass[k - 1], q[k])
  BY <1>1 DEF Replaying
<1>3. \A k \in 1..n :
         /\ pass[k].out = IF Refused(k) THEN pass[k - 1].out \cup {q[k]} ELSE pass[k - 1].out
         /\ ~Refused(k) => pass[k].rows = Append(pass[k - 1].rows, q[k])
  <2>. TAKE k \in 1..n
  <2>1. pass[k] = Judge(pass[k - 1], q[k])
    BY <1>2
  <2>. DEFINE v == pass[k]
              u == pass[k - 1]
              e == q[k]
  <2>2. v = Judge(u, e) /\ (Refused(k) <=> Rejects(u.rows, e))
    BY <2>1
  <2>. HIDE DEF v, u, e, Refused
  <2>3. CASE Rejects(u.rows, e)
    <3>1. v = [rows |-> u.rows \o Partial(e), out |-> u.out \cup {e}]
      BY <2>2, <2>3 DEF Judge
    <3> QED
      BY <2>2, <2>3, <3>1 DEF v, u, e
  <2>4. CASE ~Rejects(u.rows, e)
    <3>1. v = [rows |-> Append(u.rows, e), out |-> u.out]
      BY <2>2, <2>4 DEF Judge
    <3> QED
      BY <2>2, <2>4, <3>1 DEF v, u, e
  <2> QED
    BY <2>3, <2>4
<1>. HIDE DEF Refused, n
<1>4. pass[n].out = outs(n)
  <2>. DEFINE L == {k \in Nat : k <= n => pass[k].out = outs(k)}
  <2>1. 0 \in L
    BY <1>2
  <2>2. ASSUME NEW k \in Nat, k \in L PROVE k + 1 \in L
    <3>. SUFFICES ASSUME k + 1 <= n PROVE pass[k + 1].out = outs(k + 1)
      OBVIOUS
    <3>1. k + 1 \in 1..n /\ (k + 1) - 1 = k /\ pass[k].out = outs(k)
      <4>1. k \in Nat /\ n \in Nat /\ k + 1 <= n
        BY <1>2, <2>2
      <4>2. k <= n => pass[k].out = outs(k)
        BY <2>2
      <4> HIDE DEF outs
      <4> QED BY <4>1, <4>2
    <3>2. outs(k + 1) = IF Refused(k + 1) THEN outs(k) \cup {q[k + 1]} ELSE outs(k)
      <4>1. 1..(k + 1) = (1..k) \cup {k + 1}
        OBVIOUS
      <4> QED
        BY <4>1
    <3>3. pass[k + 1].out = IF Refused(k + 1) THEN pass[k].out \cup {q[k + 1]} ELSE pass[k].out
      <4> DEFINE Out(j, b4) == pass[j].out = IF Refused(j) THEN pass[b4].out \cup {q[j]}
                                             ELSE pass[b4].out
      <4>1. \A j \in 1..n : Out(j, j - 1)
        BY <1>3
      <4> HIDE DEF Out
      <4>2. Out(k + 1, (k + 1) - 1)
        BY <3>1, <4>1, Zenon
      <4>3. Out(k + 1, k)
        BY <3>1, <4>2, Zenon
      <4> QED BY <4>3, Zenon DEF Out
    <3>. HIDE DEF outs
    <3> QED
      BY <3>1, <3>2, <3>3, Zenon
  <2>. HIDE DEF L
  <2>3. Nat \subseteq L
    BY <2>1, <2>2, NatInd
  <2>. HIDE DEF outs
  <2> QED
    BY <1>2, <2>3 DEF L
<1>5. Refused(i)
  <2>1. PICK j \in 1..n : Refused(j) /\ q[j] = q[i]
    BY <1>2, <1>4
  <2>2. j = i
    BY <1>2, <2>1 DEF IsInjective
  <2> QED
    BY <2>1, <2>2
<1>6. \A j \in 1..(i - 1) : ~Refused(j)
  <2>. TAKE j \in 1..(i - 1)
  <2>1. j \in 1..n
    BY <1>2
  <2> QED
    BY <1>2, <1>4, <2>1
<1>7. pass[i - 1].rows = b \o SubSeq(q, 1, i - 1)
  <2>. DEFINE L == {k \in Nat : k <= i - 1 => pass[k].rows = b \o SubSeq(q, 1, k)}
  <2>1. 0 \in L
    <3>1. SubSeq(q, 1, 0) = <<>> /\ b \o <<>> = b
      OBVIOUS
    <3> QED
      BY <1>2, <3>1
  <2>2. ASSUME NEW k \in Nat, k \in L PROVE k + 1 \in L
    <3>. SUFFICES ASSUME k + 1 <= i - 1
                  PROVE  pass[k + 1].rows = b \o SubSeq(q, 1, k + 1)
      OBVIOUS
    <3>1. k + 1 \in 1..n /\ k + 1 \in 1..(i - 1) /\ (k + 1) - 1 = k
          /\ pass[k].rows = b \o SubSeq(q, 1, k)
      BY <1>2, <2>2
    <3>2. pass[k + 1].rows = Append(pass[k].rows, q[k + 1])
      BY <1>3, <1>6, <3>1
    <3>3. k + 1 \in DOMAIN q /\ q \in Seq(Y)
      BY <1>2, <3>1 DEF Writes
    <3>. DEFINE a == SubSeq(q, 1, k)
    <3>4. /\ SubSeq(q, 1, k + 1) = Append(a, q[k + 1])
          /\ a \in Seq(Y) /\ q[k + 1] \in Y
      <4>1. Around(Y, q, k + 1, SubSeq(q, 1, (k + 1) - 1), SubSeq(q, (k + 1) + 1, Len(q)))
        BY <3>3, SplitAt
      <4> QED
        BY <3>1, <4>1 DEF Around
    <3>. HIDE DEF a
    <3>5. b \o Append(a, q[k + 1]) = Append(b \o a, q[k + 1])
      BY <3>4
    <3> QED
      BY <3>1, <3>2, <3>4, <3>5 DEF a
  <2>. HIDE DEF L
  <2>3. Nat \subseteq L
    BY <2>1, <2>2, NatInd
  <2>4. i - 1 \in Nat /\ i - 1 <= i - 1
    BY <1>2
  <2> QED
    BY <2>3, <2>4 DEF L
<1> QED
  BY <1>5, <1>7 DEF Refused

\* v is q without some of it, the first of which is refused behind what is
\* before it in q.
FirstGone(b, q, v) ==
    \A i \in DOMAIN q :
       /\ q[i] \notin ToSet(v)
       /\ \A j \in 1..(i - 1) : q[j] \in ToSet(v)
       => Rejects(b \o SubSeq(q, 1, i - 1), q[i])

\* v begins as q does, up to i.
SameUpTo(v, q, i) ==
    /\ i \in DOMAIN v /\ v[i] = q[i]
    /\ SubSeq(v, 1, i - 1) = SubSeq(q, 1, i - 1)
    /\ \A j \in 1..(i - 1) : v[j] = q[j]

\* What is dropped behind position i leaves what is up to it as it is.
LEMMA WithoutBehind ==
    ASSUME NEW X, NEW q \in Seq(X), NEW R, NEW i \in DOMAIN q,
           \A j \in 1..i : q[j] \notin R
    PROVE  SameUpTo(Without(q, R), q, i)
<1>. DEFINE a == SubSeq(q, 1, i - 1)
            z == SubSeq(q, i + 1, Len(q))
            c == Append(a, q[i])
            y == Without(z, R)
            v == Without(q, R)
<1>1. /\ a \in Seq(X) /\ z \in Seq(X) /\ q[i] \in X /\ c \in Seq(X) /\ q = c \o z
      /\ Len(a) = i - 1 /\ i - 1 \in Nat /\ \A j \in 1..(i - 1) : a[j] = q[j]
  <2>1. Around(X, q, i, a, z)
    BY SplitAt
  <2>. HIDE DEF a, z
  <2> QED
    BY <2>1 DEF Around
<1>2. y \in Seq(X)
  BY <1>1, WithoutType
<1>. HIDE DEF a, z
<1>3. /\ Len(c) = i /\ c[i] = q[i] /\ i \in Nat
      /\ \A j \in 1..(i - 1) : c[j] = q[j]
  BY <1>1
<1>. HIDE DEF c
<1>4. Without(c, R) = c
  <2>1. \A j \in 1..i : c[j] \notin R
    <3>. TAKE j \in 1..i
    <3>1. j = i \/ j \in 1..(i - 1)
      BY <1>3
    <3> QED
      BY <1>3, <3>1
  <2>2. ToSet(c) \cap R = {}
    BY <1>1, <1>3, <2>1 DEF ToSet
  <2> QED
    BY <1>1, <2>2, WithoutNone
<1>5. Without(c \o z, R) = Without(c, R) \o Without(z, R)
  <2>1. c \in Seq(X) /\ z \in Seq(X)
    BY <1>1
  <2> QED
    BY ONLY <2>1, WithoutConcat
<1>6. v = c \o y
  BY <1>1, <1>4, <1>5
<1>. HIDE DEF y, v
<1>7. /\ v \in Seq(X) /\ Len(v) = i + Len(y) /\ i \in DOMAIN v
      /\ \A j \in 1..i : v[j] = c[j]
  <2>1. /\ c \o y \in Seq(X) /\ Len(c \o y) = Len(c) + Len(y)
        /\ \A j \in 1..(Len(c) + Len(y)) :
              (c \o y)[j] = IF j <= Len(c) THEN c[j] ELSE y[j - Len(c)]
    BY <1>1, <1>2, ConcatProperties
  <2>2. v \in Seq(X) /\ Len(v) = i + Len(y) /\ Len(y) \in Nat /\ i >= 1
    <3>1. v \in Seq(X) /\ Len(v) = i + Len(y)
      BY <1>3, <1>6, <2>1, Zenon
    <3>2. Len(y) \in Nat
      BY <1>2, LenProperties
    <3>3. i >= 1
      BY <1>1, <1>3
    <3> QED
      BY <3>1, <3>2, <3>3
  <2>3. \A j \in 1..i : v[j] = c[j]
    BY <1>3, <1>6, <2>1, <2>2
  <2> QED
    BY <2>2, <2>3, <1>3
<1>8. v[i] = q[i] /\ \A j \in 1..(i - 1) : v[j] = q[j]
  <2>1. i \in 1..i /\ \A j \in 1..(i - 1) : j \in 1..i
    BY <1>1, <1>3
  <2>2. v[i] = c[i] /\ \A j \in 1..(i - 1) : v[j] = c[j]
    BY <1>7, <2>1
  <2> QED
    BY <1>3, <2>2
<1>9. SubSeq(v, 1, i - 1) = a
  <2>. DEFINE s == SubSeq(v, 1, i - 1)
  <2>1. s \in Seq(X) /\ Len(s) = i - 1 /\ \A j \in 1..(i - 1) : s[j] = v[j]
    <3>1. Around(X, v, i, s, SubSeq(v, i + 1, Len(v)))
      BY <1>7, SplitAt
    <3>. HIDE DEF s
    <3> QED
      BY <3>1 DEF Around
  <2>. HIDE DEF s
  <2>2. s = a
    BY <1>1, <1>8, <2>1, SeqEqual
  <2> QED
    BY <2>2 DEF s
<1> QED
  BY <1>7, <1>8, <1>9 DEF SameUpTo, a, v

\* One more pass.
LEMMA PassFirst ==
    ASSUME NEW Y, NEW X, Writes(X, Y), NEW b \in Seq(Y), NEW q \in Seq(X), IsInjective(q),
           NEW R, NEW v, v = Without(q, R), FirstGone(b, q, v),
           NEW w, w = Without(v, RefusedIn(b, v))
    PROVE  FirstGone(b, q, w)
<1>. DEFINE out == RefusedIn(b, v)
<1>1. v \in Seq(X) /\ ToSet(v) = ToSet(q) \ R /\ IsInjective(v)
  BY LeftOver
<1>. HIDE DEF out
<1>2. ToSet(w) = ToSet(v) \ out
  BY <1>1, LeftOver DEF out
<1>3. ASSUME NEW i \in DOMAIN q, q[i] \notin ToSet(w),
             \A j \in 1..(i - 1) : q[j] \in ToSet(w)
      PROVE  Rejects(b \o SubSeq(q, 1, i - 1), q[i])
  <2>1. CASE q[i] \notin ToSet(v)
    BY <1>2, <1>3, <2>1 DEF FirstGone
  <2>2. CASE q[i] \in ToSet(v)
    <3>0. \A j \in 1..i : q[j] \notin R
      <4>. TAKE j \in 1..i
      <4>1. j = i \/ j \in 1..(i - 1)
        OBVIOUS
      <4> QED
        BY <1>1, <1>2, <1>3, <2>2, <4>1
    <3>2. /\ i \in DOMAIN v /\ v[i] = q[i]
          /\ SubSeq(v, 1, i - 1) = SubSeq(q, 1, i - 1)
          /\ \A j \in 1..(i - 1) : v[j] = q[j]
      <4>1. SameUpTo(Without(q, R), q, i)
        BY <3>0, WithoutBehind
      <4> QED
        BY <4>1 DEF SameUpTo
    <3>3. v[i] \in out /\ \A j \in 1..(i - 1) : v[j] \notin out
      BY <1>2, <1>3, <2>2, <3>2
    <3>4. Rejects(b \o SubSeq(v, 1, i - 1), v[i])
      BY <1>1, <3>2, <3>3, FirstRefusal DEF out
    <3> QED
      BY <3>2, <3>4
  <2> QED
    BY <2>1, <2>2
<1> QED
  BY <1>3 DEF FirstGone

\* However many passes.
LEMMA PassesFirst ==
    ASSUME NEW Y, NEW X, Writes(X, Y), NEW b \in Seq(Y), NEW q \in Seq(X), IsInjective(q),
           NEW k \in 0..Len(q)
    PROVE  \E R : Passes(b, q)[k] = Without(q, R) /\ FirstGone(b, q, Passes(b, q)[k])
<1>1. PICK left : Passing(left, X, b, q)
  BY PassesRec, Zenon
<1>. DEFINE Fits(v) == \E R : v = Without(q, R) /\ FirstGone(b, q, v)
            V == {v \in Seq(X) : Fits(v)}
<1>2. left[0] \in V /\ Len(q) \in Nat
  <2>1. left[0] = q /\ q = Without(q, {})
    BY <1>1, WithoutNone, ToSet(q) \cap {} = {} DEF Passing
  <2>2. FirstGone(b, q, q)
    BY DEF FirstGone, ToSet
  <2> QED
    BY <2>1, <2>2
<1>3. \A i \in 1..Len(q) : left[i - 1] \in V => left[i] \in V
  <2>. TAKE i \in 1..Len(q)
  <2>. HAVE left[i - 1] \in V
  <2>. DEFINE v == left[i - 1]
              out == RefusedIn(b, v)
              w == left[i]
  <2>1. v \in Seq(X) /\ w = Without(v, out)
    BY <1>1, Zenon DEF Passing
  <2>2. PICK R : v = Without(q, R) /\ FirstGone(b, q, v)
    OBVIOUS
  <2>. HIDE DEF v, w
  <2>3. FirstGone(b, q, w)
    BY <2>1, <2>2, PassFirst
  <2>. HIDE DEF out
  <2>4. w = Without(q, R \cup out)
    <3>1. Without(Without(q, R), out) = Without(q, R \cup out)
      BY WithoutTwice
    <3> QED
      BY <2>1, <2>2, <3>1
  <2>5. w \in Seq(X)
    BY <2>1, WithoutType
  <2> QED
    BY <2>3, <2>4, <2>5 DEF w
<1>4. left[k] \in V
  <2>. HIDE DEF V
  <2> QED
    BY <1>2, <1>3, InSteps, Zenon
<1> QED
  BY <1>1, <1>4, Zenon DEF Passing

\* q is what is left of the queue without entries the server has answered
\* for, and without those the app refused of the rest.
LeftBy(b, q) ==
    \E D, R : /\ D \cap ToSet(queue) \subseteq ToSet(logged) \cup verdicts
              /\ q = Without(Without(queue, D), R)
              /\ FirstGone(b, Without(queue, D), q)

\* D accounts for what is not in Q, the first of what it does not account for
\* aside.
Accounts(D, b, Q) ==
    \A i \in DOMAIN queue :
       /\ queue[i] \notin Q \cup D
       /\ \A j \in 1..(i - 1) : queue[j] \in Q \cup D
       => Rejects(b \o Without(SubSeq(queue, 1, i - 1), D), queue[i])

Judged(b, Q) == \E D \in SUBSET ((ToSet(logged) \cup verdicts) \ Q) : Accounts(D, b, Q)

LEMMA LeftIsJudged ==
    ASSUME TypeOK, IsInjective(queue), NEW b,
           NEW q, LeftBy(b, q), NEW Q, Q \cap ToSet(queue) = ToSet(q)
    PROVE  Judged(b, Q)
<1>1. PICK C, R : /\ C \cap ToSet(queue) \subseteq ToSet(logged) \cup verdicts
                  /\ q = Without(Without(queue, C), R)
                  /\ FirstGone(b, Without(queue, C), q)
  BY DEF LeftBy
<1>. DEFINE p == Without(queue, C)
            D == C \cap ToSet(queue)
<1>2. queue \in Seq(Mine)
  BY DEF TypeOK
<1>3. p \in Seq(Mine) /\ ToSet(p) = ToSet(queue) \ C
  BY <1>2, LeftOver
<1>4. ToSet(q) = ToSet(p) \ R
  BY <1>1, <1>3, LeftOver
<1>5. D \in SUBSET ((ToSet(logged) \cup verdicts) \ Q)
  BY <1>1, <1>3, <1>4
<1>6. ASSUME NEW i \in DOMAIN queue, queue[i] \notin Q \cup D,
             \A j \in 1..(i - 1) : queue[j] \in Q \cup D
      PROVE  Rejects(b \o Without(SubSeq(queue, 1, i - 1), D), queue[i])
  <2>. DEFINE a == SubSeq(queue, 1, i - 1)
              x == queue[i]
              z == SubSeq(queue, i + 1, Len(queue))
              l == Without(a, C)
              y == Without(z, C)
  <2>1. /\ a \in Seq(Mine) /\ z \in Seq(Mine) /\ x \in Mine /\ x \in ToSet(queue)
        /\ queue = Append(a, x) \o z /\ Append(a, x) \in Seq(Mine)
        /\ \A e \in ToSet(a) : \E j \in 1..(i - 1) : e = queue[j]
        /\ \A j \in 1..(i - 1) : queue[j] \in ToSet(queue)
    <3>1. /\ a \in Seq(Mine) /\ z \in Seq(Mine) /\ x \in Mine
          /\ queue = Append(a, x) \o z /\ Append(a, x) \in Seq(Mine)
          /\ Len(a) = i - 1 /\ \A j \in 1..(i - 1) : j \in DOMAIN queue /\ a[j] = queue[j]
      <4>1. Around(Mine, queue, i, a, z)
        BY <1>2, SplitAt
      <4>. HIDE DEF a, z
      <4> QED
        BY <4>1 DEF Around
    <3>. HIDE DEF a, z
    <3>2. /\ \A e \in ToSet(a) : \E j \in 1..(i - 1) : e = queue[j]
          /\ x \in ToSet(queue) /\ \A j \in 1..(i - 1) : queue[j] \in ToSet(queue)
      BY <1>2, <3>1 DEF ToSet
    <3> QED
      BY <3>1, <3>2
  <2>2. x \notin C /\ x \notin Q
    BY <1>6, <2>1
  <2>3. \A e \in ToSet(a) : e \in Q \cup D /\ e \in ToSet(queue)
    BY <1>6, <2>1
  <2>. HIDE DEF a, x, z
  <2>4. l \in Seq(Mine) /\ y \in Seq(Mine) /\ ToSet(l) = ToSet(a) \ C
    BY <2>1, WithoutType, WithoutSet
  <2>5. p = Append(l, x) \o y
    <3>1. Without(Append(a, x), C) = Append(l, x)
      BY <2>1, <2>2, WithoutAppend
    <3>. DEFINE c == Append(a, x)
    <3>2. c \in Seq(Mine) /\ z \in Seq(Mine) /\ queue = c \o z /\ Without(c, C) = Append(l, x)
      BY <2>1, <3>1
    <3>. HIDE DEF c
    <3>3. Without(c \o z, C) = Without(c, C) \o Without(z, C)
      <4>1. c \in Seq(Mine) /\ z \in Seq(Mine)
        BY <3>2
      <4> QED
        BY ONLY <4>1, WithoutConcat
    <3> QED
      BY <3>2, <3>3
  <2>. HIDE DEF l, y, p
  <2>6. /\ Len(l) + 1 \in DOMAIN p /\ p[Len(l) + 1] = x
        /\ (Len(l) + 1) - 1 = Len(l) /\ SubSeq(p, 1, Len(l)) = l
        /\ \A j \in 1..Len(l) : p[j] \in ToSet(l)
    <3>1. /\ Len(l) + 1 \in DOMAIN p /\ p[Len(l) + 1] = x /\ (Len(l) + 1) - 1 = Len(l)
          /\ SubSeq(p, 1, Len(l)) = l /\ \A j \in 1..Len(l) : p[j] = l[j]
      BY <2>1, <2>4, <2>5
    <3>2. \A j \in 1..Len(l) : l[j] \in ToSet(l)
      BY <2>4 DEF ToSet
    <3> QED
      BY <3>1, <3>2
  <2>7. x \notin ToSet(q) /\ \A j \in 1..Len(l) : p[j] \in ToSet(q)
    BY <2>1, <2>2, <2>3, <2>4, <2>6
  <2>8. Rejects(b \o l, x)
    <3>1. FirstGone(b, p, q)
      BY <1>1 DEF p
    <3> QED
      BY <2>6, <2>7, <3>1 DEF FirstGone
  <2>9. l = Without(a, D)
    <3>1. ToSet(a) \cap C = ToSet(a) \cap D
      BY <2>3
    <3> QED
      BY <2>1, <3>1, WithoutSame DEF l
  <2> QED
    BY <2>8, <2>9 DEF a, x
<1>7. Accounts(D, b, Q)
  BY <1>6 DEF Accounts
<1> QED
  BY <1>5, <1>7 DEF Judged

\* The queue after a step, up to what a mutate adds to it.
LEMMA StepIsJudged ==
    ASSUME TypeOK, IsInjective(queue), TypeOK',
           NEW q, LeftBy(db'.disk, q),
           queue' = q \/ \E e \in Mine \ authored : queue' = Append(q, e)
    PROVE  IsInjective(queue') /\ Judged(db'.disk, ToSet(queue'))
<1>1. PICK R : q = Without(queue, R)
  <2>1. PICK D, S : q = Without(Without(queue, D), S)
    BY DEF LeftBy
  <2>2. queue \in Seq(Mine)
    BY DEF TypeOK
  <2>3. Without(Without(queue, D), S) = Without(queue, D \cup S)
    BY <2>2, WithoutTwice
  <2> QED
    BY <2>1, <2>3
<1>2. queue \in Seq(authored) /\ queue \in Seq(Mine) /\ authored \subseteq Mine
  BY SMTT(60) DEF TypeOK
<1>3. q \in Seq(authored) /\ ToSet(q) = ToSet(queue) \ R /\ IsInjective(q)
  BY <1>1, <1>2, LeftOver
<1>4. ToSet(queue) \subseteq authored /\ ToSet(q) \subseteq authored
  BY <1>2, <1>3 DEF ToSet
<1>5. db'.disk \in Seq(Entries)
  BY DEF TypeOK
<1>6. CASE queue' = q
  <2>1. ToSet(queue') \cap ToSet(queue) = ToSet(q)
    BY <1>3, <1>6
  <2> QED
    BY <1>3, <1>5, <1>6, <2>1, LeftIsJudged
<1>7. CASE \E e \in Mine \ authored : queue' = Append(q, e)
  <2>1. PICK e \in Mine \ authored : queue' = Append(q, e)
    BY <1>7
  <2>2. q \in Seq(Mine)
    BY <1>2, <1>3
  <2>3. /\ ToSet(Append(q, e)) = ToSet(q) \cup {e}
        /\ IsInjective(Append(q, e)) <=> IsInjective(q) /\ e \notin ToSet(q)
    BY <2>2, AppendFacts
  <2>4. ToSet(queue') \cap ToSet(queue) = ToSet(q) /\ IsInjective(queue')
    BY <1>3, <1>4, <2>1, <2>3
  <2> QED
    BY <1>5, <2>4, LeftIsJudged
<1> QED
  BY <1>6, <1>7

\* The entries of this client, and what it writes of them.
Rows == Entries \cup UNION {ToSet(Partial(e)) : e \in Mine}

LEMMA OwnWrites == Writes(Mine, Rows)
<1>1. \A e \in Mine : Partial(e) \in Seq(Rows)
  <2>. TAKE e \in Mine
  <2>1. Partial(e) \in Seq(ToSet(Partial(e)))
    BY ViewAssumption
  <2>2. ToSet(Partial(e)) \subseteq Rows
    BY DEF Rows
  <2>. DEFINE s == Partial(e)
              S == ToSet(Partial(e))
  <2>. HIDE DEF s, S
  <2>3. s \in Seq(S) /\ S \subseteq Rows
    BY <2>1, <2>2 DEF s, S
  <2>4. s \in Seq(Rows)
    BY <2>3
  <2> QED
    BY <2>4 DEF s
<1> QED
  BY <1>1 DEF Writes, Rows, Entries

LEMMA LeftReplayed ==
    ASSUME TypeOK, IsInjective(queue), NEW b \in Seq(Entries),
           NEW D, D \cap ToSet(queue) \subseteq ToSet(logged) \cup verdicts,
           NEW q, q = Without(queue, D)
    PROVE  /\ LeftBy(b, q)
           /\ LeftBy(b, Kept(b, q))
           /\ \A k \in 0..Len(q) : LeftBy(b, Passes(b, q)[k])
<1>1. queue \in Seq(Mine) /\ b \in Seq(Rows)
  <2>1. Entries \subseteq Rows
    BY DEF Rows
  <2> QED
    BY <2>1 DEF TypeOK
<1>2. q \in Seq(Mine) /\ IsInjective(q) /\ Len(q) \in 0..Len(q)
  <2>1. q \in Seq(Mine) /\ IsInjective(q)
    BY <1>1, LeftOver
  <2> QED
    BY <2>1
<1>3. \A k \in 0..Len(q) : LeftBy(b, Passes(b, q)[k])
  <2>. TAKE k \in 0..Len(q)
  <2>. DEFINE v == Passes(b, q)[k]
  <2>1. PICK R : v = Without(q, R) /\ FirstGone(b, q, v)
    BY <1>1, <1>2, OwnWrites, PassesFirst
  <2>. HIDE DEF v
  <2>2. LeftBy(b, v)
    BY <2>1, Zenon DEF LeftBy
  <2> QED
    BY <2>2 DEF v
<1>4. LeftBy(b, q)
  <2>1. q = Without(q, {})
    BY <1>2, WithoutNone, ToSet(q) \cap {} = {}
  <2>2. FirstGone(b, q, q)
    BY DEF FirstGone, ToSet
  <2> QED
    BY <2>1, <2>2, Zenon DEF LeftBy
<1> QED
  BY <1>2, <1>3, <1>4 DEF Kept

LEMMA LeftSelf ==
    ASSUME TypeOK, IsInjective(queue), NEW b \in Seq(Entries) PROVE LeftBy(b, queue)
<1>1. queue = Without(queue, {}) /\ {} \cap ToSet(queue) = {}
  BY WithoutNone, ToSet(queue) \cap {} = {} DEF TypeOK
<1> QED
  BY <1>1, LeftReplayed

\* What a message takes off the queue the server has answered for.
LEMMA MessageAnswers ==
    ASSUME NEW m \in Message, Batch(m) \/ Ack(m) \/ Reject(m), TypeOK
    PROVE  m.drops \subseteq ToSet(logged) \cup verdicts
<1>1. CASE Batch(m)
  <2>1. PICK a \in DOMAIN logged, b \in DOMAIN logged :
           m = [holds |-> a..b, drops |-> Mine \cap ToSet(SubSeq(logged, a, b))]
    BY <1>1 DEF Batch
  <2>2. ToSet(SubSeq(logged, a, b)) \subseteq ToSet(logged)
    <3>. DEFINE t == SubSeq(logged, a, b)
    <3>1. logged \in Seq(Entries)
      BY DEF TypeOK
    <3>2. \A j \in DOMAIN t : a + j - 1 \in DOMAIN logged /\ t[j] = logged[a + j - 1]
      BY <3>1
    <3> QED
      BY <3>2 DEF ToSet
  <2> QED
    BY <2>1, <2>2
<1>2. CASE Ack(m)
  BY <1>2 DEF Ack, ToSet
<1>3. CASE Reject(m)
  BY <1>3 DEF Reject
<1> QED
  BY <1>1, <1>2, <1>3

LEMMA InterruptedLeft ==
    ASSUME ViewInv, IsInjective(queue),
           NEW m \in Message, Batch(m) \/ Ack(m) \/ Reject(m), NEW end \in Interrupted(m)
    PROVE  LeftBy(end.db.disk, end.queue)
<1>. DEFINE down == DiscardOptimistic(db)
            up == Advance(down, RunEnd(Holding(m), down.cursor))
<1>1. TypeOK
  BY DEF ViewInv
<1>2. m.drops \cap ToSet(queue) \subseteq ToSet(logged) \cup verdicts
  BY <1>1, MessageAnswers
<1>3. end.db.disk \in Seq(Entries)
  BY InterruptedEnded DEF Ended, Down, Conn
<1>4. CASE end.queue = queue
  BY <1>1, <1>3, <1>4, LeftSelf
<1>5. CASE \E n : end.queue = Without(queue, {logged[t] : t \in 1..n \cap m.holds})
  <2>1. PICK n : end.queue = Without(queue, {logged[t] : t \in 1..n \cap m.holds})
    BY <1>5
  <2>2. {logged[t] : t \in 1..n \cap m.holds} \subseteq ToSet(logged)
    BY DEF Message, ToSet
  <2> QED
    BY <1>1, <1>3, <2>1, <2>2, LeftReplayed
<1>6. CASE end.queue = Queued(m)
  BY <1>1, <1>2, <1>3, <1>6, LeftReplayed DEF Queued
<1>7. CASE \E k \in DOMAIN Queued(m) :
              /\ end.db = [up EXCEPT !.rebuilt = TRUE]
              /\ end.queue = Passes(up.rows, Queued(m))[k - 1]
  <2>1. PICK k \in DOMAIN Queued(m) :
              /\ end.db = [up EXCEPT !.rebuilt = TRUE]
              /\ end.queue = Passes(up.rows, Queued(m))[k - 1]
    BY <1>7
  <2>2. Down(down) /\ down.cursor = db.cursor
    BY DiscardDown
  <2>3. RunEnd(Holding(m), down.cursor) \in down.cursor..Len(logged)
    BY <1>1, <2>2, MessageFacts
  <2>4. Down(up)
    <3>. HIDE DEF down
    <3> QED
      BY <1>1, <2>2, <2>3, AdvanceDown
  <2>. HIDE DEF up
  <2>5. end.db.disk = up.rows
    BY <2>1, <2>4 DEF Down, Conn
  <2>6. k - 1 \in 0..Len(Queued(m))
    <3>1. Queued(m) \in Seq(authored)
      BY <1>1, MessageFacts
    <3> QED
      BY <3>1
  <2>7. \A j \in 0..Len(Queued(m)) : LeftBy(up.rows, Passes(up.rows, Queued(m))[j])
    <3>. DEFINE b == up.rows
    <3>1. b \in Seq(Entries)
      BY <1>3, <2>5
    <3>. HIDE DEF b
    <3>2. \A j \in 0..Len(Queued(m)) : LeftBy(b, Passes(b, Queued(m))[j])
      BY <1>1, <1>2, <3>1, LeftReplayed DEF Queued
    <3> QED
      BY <3>2 DEF b
  <2> QED
    BY <2>1, <2>5, <2>6, <2>7
<1> QED
  <2>1. \/ end.queue = queue
        \/ \E n : end.queue = Without(queue, {logged[t] : t \in 1..n \cap m.holds})
        \/ end.queue = Queued(m)
        \/ \E k \in DOMAIN Queued(m) :
              /\ end.db = [up EXCEPT !.rebuilt = TRUE]
              /\ end.queue = Passes(up.rows, Queued(m))[k - 1]
    <3>1. \/ end = [db |-> down, held |-> held, queue |-> queue]
          \/ \E s, n : end = [db |-> down, held |-> held \cup {t \in m.holds : t <= s},
                              queue |-> Without(queue, {logged[t] : t \in 1..n \cap m.holds})]
          \/ \E n \in Stops(Holding(m), down.cursor) :
                end = [db |-> Advance(down, n), held |-> Holding(m), queue |-> Queued(m)]
          \/ \E k \in DOMAIN Queued(m) :
                 end = [db |-> [up EXCEPT !.rebuilt = TRUE], held |-> Holding(m),
                        queue |-> Passes(up.rows, Queued(m))[k - 1]]
      BY Zenon DEF Interrupted, down
    <3>. HIDE DEF up, down
    <3>2. ASSUME NEW k \in DOMAIN Queued(m),
                 end = [db |-> [up EXCEPT !.rebuilt = TRUE], held |-> Holding(m),
                        queue |-> Passes(up.rows, Queued(m))[k - 1]]
          PROVE  /\ end.db = [up EXCEPT !.rebuilt = TRUE]
                 /\ end.queue = Passes(up.rows, Queued(m))[k - 1]
      <4>. DEFINE d == [up EXCEPT !.rebuilt = TRUE]
                  p == Passes(up.rows, Queued(m))[k - 1]
      <4>1. end = [db |-> d, held |-> Holding(m), queue |-> p]
        BY <3>2
      <4>. HIDE DEF d, p
      <4>2. end.db = d /\ end.queue = p
        BY <4>1
      <4> QED
        BY <4>2 DEF d, p
    <3>3. ASSUME NEW s, NEW n,
                 end = [db |-> down, held |-> held \cup {t \in m.holds : t <= s},
                        queue |-> Without(queue, {logged[t] : t \in 1..n \cap m.holds})]
          PROVE  end.queue = Without(queue, {logged[t] : t \in 1..n \cap m.holds})
      BY <3>3
    <3>4. ASSUME NEW n,
                 end = [db |-> Advance(down, n), held |-> Holding(m), queue |-> Queued(m)]
          PROVE  end.queue = Queued(m)
      BY <3>4
    <3>5. end = [db |-> down, held |-> held, queue |-> queue] => end.queue = queue
      OBVIOUS
    <3> QED
      BY <3>1, <3>2, <3>3, <3>4, <3>5, Zenon
  <2> QED
    BY <1>4, <1>5, <1>6, <1>7, <2>1

\* The next state, as FirstDropIsVerdict sees it.
Judgement == IsInjective(queue') /\ Judged(db'.disk, ToSet(queue'))

LEMMA SameQueueJudged ==
    ASSUME ViewInv, IsInjective(queue), queue' = queue
    PROVE  Judgement
<1>1. \A i \in DOMAIN queue : queue[i] \in ToSet(queue')
  BY DEF ToSet
<1>2. Accounts({}, db'.disk, ToSet(queue'))
  BY <1>1 DEF Accounts
<1> QED
  BY <1>2 DEF Judgement, Judged

LEMMA MutateJudged ==
    ASSUME ViewInv, ViewInv', IsInjective(queue), NEW e \in Mine, Mutate(e)
    PROVE  Judgement
<1>1. TypeOK /\ TypeOK' /\ e \notin authored
  BY DEF ViewInv, Mutate
<1>2. queue' = RaisedQueue \/ queue' = Append(RaisedQueue, e)
  BY Zenon DEF Mutate, RaisedQueue
<1>3. db'.disk = db.disk
  <2>1. Raised \in Conn /\ Raised.disk = db.disk
    BY RaisedFacts
  <2>2. \/ db' = [Raised EXCEPT !.savepoint = TRUE]
        \/ db' = [Raised EXCEPT !.savepoint = TRUE, !.rows = Append(@, e),
                                !.changes = Append(@, e)]
    BY Zenon DEF Mutate, Raised
  <2> QED
    BY <2>1, <2>2 DEF Conn
<1>4. LeftBy(db.disk, RaisedQueue)
  <2>1. CASE db.savepoint
    <3>1. RaisedQueue = queue /\ db.disk \in Seq(Entries)
      BY <1>1, <2>1 DEF RaisedQueue, TypeOK
    <3> QED
      BY <1>1, <3>1, LeftSelf
  <2>2. CASE ~db.savepoint
    <3>. DEFINE b == db.rows
    <3>1. b = db.disk /\ b \in Seq(Entries) /\ queue \in Seq(authored)
      BY <2>2 DEF ViewInv, TypeOK
    <3>. HIDE DEF b
    <3>2. queue = Without(queue, {})
      BY <3>1, WithoutNone, ToSet(queue) \cap {} = {}
    <3>3. LeftBy(b, Kept(b, queue))
      BY <1>1, <3>1, <3>2, LeftReplayed
    <3>4. RaisedQueue = Kept(b, queue)
      BY <2>2 DEF RaisedQueue, b
    <3> QED
      BY <3>1, <3>3, <3>4
  <2> QED
    BY <2>1, <2>2
<1> QED
  BY <1>1, <1>2, <1>3, <1>4, StepIsJudged DEF Judgement

LEMMA RecvJudged ==
    ASSUME ViewInv, ViewInv', IsInjective(queue),
           NEW m \in Message, Recv(m)
    PROVE  Judgement
<1>. DEFINE d == DiscardOptimistic(db)
            end == RunEnd(Holding(m), d.cursor)
            up == Advance(d, end)
            b == up.rows
<1>1. /\ db' = OpenOptimistic(up, Queued(m)) /\ queue' = Kept(b, Queued(m))
      /\ Batch(m) \/ Ack(m) \/ Reject(m)
  BY DEF Recv
<1>2. TypeOK /\ TypeOK'
  BY DEF ViewInv
<1>3. Down(d) /\ ~d.savepoint /\ d.cursor = db.cursor
  BY DiscardDown
<1>4. end \in d.cursor..Len(logged) /\ Queued(m) \in Seq(authored)
  BY <1>2, <1>3, MessageFacts
<1>. HIDE DEF d, end
<1>5. Down(up) /\ ~up.savepoint
  BY <1>2, <1>3, <1>4, AdvanceDown
<1>. HIDE DEF up
<1>6. db'.disk = b /\ b \in Seq(Entries)
  BY <1>1, <1>2, <1>4, <1>5, OpenShown DEF Down, Conn
<1>. HIDE DEF b
<1>7. m.drops \cap ToSet(queue) \subseteq ToSet(logged) \cup verdicts
  BY <1>1, <1>2, MessageAnswers
<1>8. LeftBy(b, queue')
  BY <1>1, <1>2, <1>6, <1>7, LeftReplayed DEF Queued
<1> QED
  BY <1>2, <1>6, <1>8, StepIsJudged DEF Judgement

LEMMA RecvFailsJudged ==
    ASSUME ViewInv, ViewInv', IsInjective(queue),
           NEW m \in Message, RecvFails(m)
    PROVE  Judgement
<1>1. PICK end \in Interrupted(m) : db' = end.db /\ queue' = end.queue
  BY Zenon DEF RecvFails
<1>2. (Batch(m) \/ Ack(m) \/ Reject(m)) /\ TypeOK /\ TypeOK'
  BY DEF RecvFails, ViewInv
<1>3. LeftBy(end.db.disk, end.queue)
  BY <1>2, InterruptedLeft
<1> QED
  BY <1>1, <1>2, <1>3, StepIsJudged DEF Judgement

LEMMA CrashJudged ==
    ASSUME ViewInv, ViewInv', IsInjective(queue), Crash
    PROVE  Judgement
<1>1. PICK m \in Message :
         /\ Batch(m) \/ Ack(m) \/ Reject(m)
         /\ \E end \in Interrupted(m) :
               db' = Opened(end.db.disk, end.db.cursor) /\ queue' = end.queue
  BY Zenon DEF Crash
<1>2. PICK end \in Interrupted(m) :
         db' = Opened(end.db.disk, end.db.cursor) /\ queue' = end.queue
  BY <1>1
<1>3. LeftBy(end.db.disk, end.queue) /\ TypeOK /\ TypeOK'
  BY <1>1, InterruptedLeft DEF ViewInv
<1>4. db'.disk = end.db.disk
  BY <1>2 DEF Opened
<1> QED
  BY <1>2, <1>3, <1>4, StepIsJudged DEF Judgement

LEMMA MutateFailsJudged ==
    ASSUME ViewInv, ViewInv', IsInjective(queue), MutateFails
    PROVE  Judgement
<1>. DEFINE b == db.rows
<1>1. PICK k \in DOMAIN queue : queue' = Passes(b, queue)[k - 1]
  BY DEF MutateFails
<1>2. ~db.savepoint /\ db' = [db EXCEPT !.rebuilt = TRUE] /\ TypeOK /\ TypeOK'
  BY DEF MutateFails, ViewInv
<1>3. b = db.disk /\ b \in Seq(Entries) /\ queue \in Seq(authored) /\ db'.disk = b
  BY <1>2 DEF ViewInv, TypeOK
<1>. HIDE DEF b
<1>4. queue = Without(queue, {})
  BY <1>3, WithoutNone, ToSet(queue) \cap {} = {}
<1>5. k - 1 \in 0..Len(queue)
  BY <1>3
<1>6. \A j \in 0..Len(queue) : LeftBy(b, Passes(b, queue)[j])
  BY <1>2, <1>3, <1>4, LeftReplayed
<1> QED
  BY <1>1, <1>2, <1>3, <1>5, <1>6, StepIsJudged DEF Judgement

LEMMA OpenJudged ==
    ASSUME ViewInv, ViewInv', IsInjective(queue), Open
    PROVE  Judgement
<1>. DEFINE up == Advance(db, RunEnd(held, db.cursor))
            o == OpenOptimistic(up, Remembered)
            b == up.rows
<1>1. /\ ~run /\ db' = [o EXCEPT !.changes = <<>>, !.rebuilt = FALSE]
      /\ queue' = Kept(b, Remembered)
  BY DEF Open, Remembered
<1>2. TypeOK /\ TypeOK' /\ logged \in Seq(Entries) /\ held \in SUBSET (DOMAIN logged)
      /\ db.cursor \in 0..Len(logged)
  BY DEF ViewInv, TypeOK
<1>3. Down(db) /\ ~db.savepoint
  BY <1>1 DEF ViewInv, TypeOK, DiskIsConfirmed, Down, Conn
<1>4. RunEnd(held, db.cursor) \in db.cursor..Len(logged)
  BY <1>2, RunEndFacts
<1>5. Down(up) /\ ~up.savepoint
  BY <1>2, <1>3, <1>4, AdvanceDown
<1>6. Remembered \in Seq(authored)
  BY <1>2, LeftInSeq DEF Remembered
<1>. HIDE DEF up
<1>7. o.disk = b /\ b \in Seq(Entries) /\ o \in Conn
  BY <1>2, <1>5, <1>6, OpenShown DEF Down, Shown, Conn
<1>. HIDE DEF o, b
<1>8. db'.disk = b
  BY <1>1, <1>7 DEF Conn
<1>9. Entered(held) \cap ToSet(queue) \subseteq ToSet(logged) \cup verdicts
  BY <1>2, EnteredFacts
<1>10. LeftBy(b, queue')
  BY <1>1, <1>2, <1>7, <1>9, LeftReplayed DEF Remembered, Entered
<1> QED
  BY <1>2, <1>8, <1>10, StepIsJudged DEF Judgement

LEMMA StepJudged ==
    ASSUME ViewInv, IsInjective(queue), [Next]_vars
    PROVE  Judgement
<1>1. ViewInv'
  BY ViewStep
<1>2. CASE UNCHANGED vars
  BY <1>2, SameQueueJudged DEF vars
<1>3. CASE \E e \in Mine \cup Theirs : ServerLogs(e)
  BY <1>3, SameQueueJudged DEF ServerLogs
<1>4. CASE \E e \in Mine : ServerRefuses(e)
  BY <1>4, SameQueueJudged DEF ServerRefuses
<1>5. CASE \E e \in Mine : Mutate(e)
  BY <1>1, <1>5, MutateJudged
<1>6. CASE \E m \in Message : Recv(m)
  BY <1>1, <1>6, RecvJudged
<1>7. CASE \E m \in Message : RecvFails(m)
  BY <1>1, <1>7, RecvFailsJudged
<1>8. CASE Settle
  BY <1>8, SameQueueJudged DEF Settle
<1> QED
  BY <1>1, <1>2, <1>3, <1>4, <1>5, <1>6, <1>7, <1>8,
     MutateFailsJudged, CrashJudged, OpenJudged DEF Next

\* Whatever fails and whatever a refused entry leaves behind: the first entry
\* to leave the queue without an answer of the server is refused on the
\* confirmed state and what stays before it (client.rs `open_optimistic`,
\* `replay`).
THEOREM FirstDropsAreJudged == Spec => FirstDropIsVerdict
<1>1. Init => IsInjective(queue)
  BY DEF Init, IsInjective
<1>2. ViewInv /\ IsInjective(queue) /\ [Next]_vars => IsInjective(queue)'
  BY StepJudged DEF Judgement
<1>3. ViewInv /\ IsInjective(queue) /\ [Next]_vars =>
         [\E D \in SUBSET ((ToSet(logged) \cup verdicts) \ ToSet(queue')) :
             \A i \in DOMAIN queue :
                /\ queue[i] \notin ToSet(queue') \cup D
                /\ \A j \in 1..(i - 1) : queue[j] \in ToSet(queue') \cup D
                => Rejects(db'.disk \o Without(SubSeq(queue, 1, i - 1), D), queue[i])]_vars
  BY StepJudged, Zenon DEF Judgement, Judged, Accounts
<1> QED
  BY <1>1, <1>2, <1>3, ViewsHold, PTL DEF Spec, FirstDropIsVerdict
=============================================================================
