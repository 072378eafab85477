------------------------- MODULE Incremental_proofs -------------------------
(***************************************************************************)
(* What holds of Incremental for every value of its constants.             *)
(***************************************************************************)
EXTENDS Incremental, FiniteSetTheorems, WellFoundedInduction, TLAPS

----------------------------------------------------------------------------
(* Induction over the numbers, as in ClientView_proofs *)

\* A set of numbers that is not empty has a smallest one.
LEMMA SmallestOf ==
    ASSUME NEW S, S \subseteq Nat, S # {}
    PROVE  \E x \in S : \A y \in S : x <= y
<1>1. PICK x \in S : \A y \in S : <<y, x>> \notin OpToRel(<, Nat)
  BY NatLessThanWellFounded, WFMin, Zenon
<1>2. \A y \in S : ~(y < x)
  BY <1>1, Zenon DEF OpToRel
<1> QED
  BY <1>2

\* What holds of 0 and passes from each number to the next holds of all.
LEMMA NatInd ==
    ASSUME NEW S, 0 \in S, \A n \in Nat : n \in S => n + 1 \in S
    PROVE  Nat \subseteq S
<1>. DEFINE D == Nat \ S
<1>. SUFFICES ASSUME D # {} PROVE FALSE
  OBVIOUS
<1>1. PICK x \in D : \A y \in D : x <= y
  <2>. HIDE DEF D
  <2>1. D \subseteq Nat
    BY DEF D
  <2> QED
    BY <2>1, SmallestOf
<1>2. x - 1 \in Nat /\ x = (x - 1) + 1
  OBVIOUS
<1>3. x - 1 \in S
  BY <1>1, <1>2
<1> QED
  BY <1>2, <1>3

\* What is so before the first of n steps and stays so is so after the last.
LEMMA Along ==
    ASSUME NEW n \in Nat, NEW S, 0 \in S, \A i \in 1..n : i - 1 \in S => i \in S
    PROVE  n \in S
<1>. DEFINE L == {k \in Nat : k <= n => k \in S}
<1>1. 0 \in L
  OBVIOUS
<1>2. ASSUME NEW k \in Nat, k \in L PROVE k + 1 \in L
  <2>1. (k + 1) - 1 = k
    OBVIOUS
  <2> QED
    BY <1>2, <2>1
<1>3. Nat \subseteq L
  <2>. HIDE DEF L
  <2> QED
    BY <1>1, <1>2, NatInd
<1> QED
  BY <1>3

----------------------------------------------------------------------------
(* Sequences of anything *)

IsSeq(s) == \E P : s \in Seq(P)

LEMMA EmptyIsSeq == IsSeq(<<>>)
BY <<>> \in Seq({}) DEF IsSeq

LEMMA FcnIsSeq ==
    ASSUME NEW n \in Nat, NEW f, f = [i \in 1..n |-> f[i]]
    PROVE  IsSeq(f)
<1>. DEFINE P == {f[i] : i \in 1..n}
<1>1. f \in [1..n -> P]
  OBVIOUS
<1>. HIDE DEF P
<1>2. f \in Seq(P)
  BY <1>1
<1> QED
  BY <1>2 DEF IsSeq

LEMMA SeqParts ==
    ASSUME NEW s, IsSeq(s)
    PROVE  /\ Len(s) \in Nat /\ DOMAIN s = 1..Len(s)
           /\ s = [i \in 1..Len(s) |-> s[i]]
BY DEF IsSeq

LEMMA ConcatIsSeq ==
    ASSUME NEW s, NEW t, IsSeq(s), IsSeq(t) PROVE IsSeq(s \o t)
<1>1. PICK P : s \in Seq(P)
  BY DEF IsSeq
<1>2. PICK Q : t \in Seq(Q)
  BY DEF IsSeq
<1>3. s \in Seq(P \cup Q) /\ t \in Seq(P \cup Q)
  BY <1>1, <1>2
<1>4. s \o t \in Seq(P \cup Q)
  BY <1>3
<1> QED
  BY <1>4 DEF IsSeq

LEMMA ConcatAssoc ==
    ASSUME NEW s, NEW t, NEW u, IsSeq(s), IsSeq(t), IsSeq(u)
    PROVE  (s \o t) \o u = s \o (t \o u)
<1>1. PICK P : s \in Seq(P)
  BY DEF IsSeq
<1>2. PICK Q : t \in Seq(Q)
  BY DEF IsSeq
<1>3. PICK R : u \in Seq(R)
  BY DEF IsSeq
<1>4. /\ s \in Seq(P \cup Q \cup R) /\ t \in Seq(P \cup Q \cup R)
      /\ u \in Seq(P \cup Q \cup R)
  BY <1>1, <1>2, <1>3
<1> QED
  BY <1>4

LEMMA AppendIsSeq ==
    ASSUME NEW s, NEW x, IsSeq(s)
    PROVE  /\ IsSeq(Append(s, x)) /\ Append(s, x) = s \o <<x>>
           /\ Len(Append(s, x)) = Len(s) + 1 /\ Append(s, x)[Len(s) + 1] = x
           /\ \A i \in 1..Len(s) : Append(s, x)[i] = s[i]
<1>1. PICK P : s \in Seq(P)
  BY DEF IsSeq
<1>2. s \in Seq(P \cup {x}) /\ x \in P \cup {x}
  BY <1>1
<1>3. /\ Append(s, x) \in Seq(P \cup {x}) /\ Append(s, x) = s \o <<x>>
      /\ Len(Append(s, x)) = Len(s) + 1 /\ Append(s, x)[Len(s) + 1] = x
      /\ \A i \in 1..Len(s) : Append(s, x)[i] = s[i]
  BY <1>2
<1> QED
  BY <1>3, Zenon DEF IsSeq

LEMMA OneIsSeq ==
    ASSUME NEW x PROVE IsSeq(<<x>>) /\ Len(<<x>>) = 1 /\ <<x>>[1] = x
<1>1. <<x>> \in Seq({x})
  OBVIOUS
<1> QED
  BY <1>1 DEF IsSeq

LEMMA TwoIsSeq ==
    ASSUME NEW x, NEW y
    PROVE  IsSeq(<<x, y>>) /\ \A s : IsSeq(s) => s \o <<x, y>> = Append(Append(s, x), y)
<1>1. <<x, y>> \in Seq({x, y})
  OBVIOUS
<1>2. ASSUME NEW s, IsSeq(s) PROVE s \o <<x, y>> = Append(Append(s, x), y)
  <2>1. PICK P : s \in Seq(P)
    BY <1>2 DEF IsSeq
  <2>2. s \in Seq(P \cup {x, y}) /\ x \in P \cup {x, y} /\ y \in P \cup {x, y}
    BY <2>1
  <2> QED
    BY <2>2
<1> QED
  BY <1>1, <1>2 DEF IsSeq

----------------------------------------------------------------------------
(* Everything that Incremental does one after the other, by name, so that  *)
(* one induction serves all of it                                          *)

Op(k, a, x) ==
    CASE k[1] = "patched" -> Patched(a, x)
      [] k[1] = "shown" -> ViewStep(a, x)
      [] k[1] = "pushed" -> Pushed(a, x)
      [] k[1] = "filled" -> FillIn(a, x)
      [] k[1] = "gathered" -> Gather(a, x)
      [] k[1] = "stepped" -> CountStep(a, x)
      [] k[1] = "counted" -> Counted(a, x)
      [] k[1] = "taken" -> TakeStep(a, k[2], x)
      [] k[1] = "own" -> Own(a, x, k[2])

\* f[i] is what the first i of s make of b.
Run(f, k, b, s) ==
    /\ f[0] = b
    /\ \A i \in 1..Len(s) : f[i] = Op(k, f[i - 1], s[i])

Unrolled(f, k, b, s) ==
    f = [i \in 0..Len(s) |-> IF i = 0 THEN b ELSE Op(k, f[i - 1], s[i])]

\* The n-th step of anything done one after the other exists.
LEMMA Steps ==
    ASSUME NEW k, NEW b, NEW s, Len(s) \in Nat
    PROVE  \E f : Unrolled(f, k, b, s)
<1>. DEFINE Eq(f, n) == f = [i \in 0..n |-> IF i = 0 THEN b ELSE Op(k, f[i - 1], s[i])]
            L == {n \in Nat : \E f : Eq(f, n)}
<1>1. 0 \in L
  <2>. DEFINE f == [i \in 0..0 |-> b]
  <2>1. Eq(f, 0)
    OBVIOUS
  <2>. HIDE DEF f, Eq
  <2> QED
    BY <2>1
<1>2. ASSUME NEW n \in Nat, n \in L PROVE n + 1 \in L
  <2>1. PICK f : Eq(f, n)
    BY <1>2
  <2>. DEFINE g == [i \in 0..(n + 1) |-> IF i <= n THEN f[i] ELSE Op(k, f[n], s[n + 1])]
  <2>2. \A i \in 0..(n + 1) : g[i] = IF i = 0 THEN b ELSE Op(k, g[i - 1], s[i])
    <3>. TAKE i \in 0..(n + 1)
    <3>1. CASE i = 0
      BY <2>1, <3>1
    <3>2. CASE i \in 1..n
      <4>1. i - 1 \in 0..n /\ i \in 0..n /\ i # 0
        BY <3>2
      <4>2. g[i] = f[i] /\ g[i - 1] = f[i - 1]
        BY <4>1
      <4>3. f[i] = Op(k, f[i - 1], s[i])
        BY <2>1, <4>1
      <4> QED
        BY <4>1, <4>2, <4>3
    <3>3. CASE i = n + 1
      <4>1. i - 1 = n /\ ~(i <= n) /\ i # 0
        BY <3>3
      <4>2. g[i] = Op(k, f[n], s[n + 1]) /\ g[n] = f[n]
        BY <3>3
      <4> QED
        BY <3>3, <4>1, <4>2
    <3> QED
      BY <3>1, <3>2, <3>3
  <2>3. Eq(g, n + 1)
    <3>1. g = [i \in 0..(n + 1) |-> g[i]]
      OBVIOUS
    <3>. HIDE DEF g
    <3> QED
      BY <2>2, <3>1
  <2>. HIDE DEF g, Eq
  <2> QED
    BY <2>3
<1>3. Nat \subseteq L
  <2>. HIDE DEF L
  <2> QED
    BY <1>1, <1>2, NatInd
<1> QED
  BY <1>3 DEF Unrolled

LEMMA Ran ==
    ASSUME NEW k, NEW b, NEW s, Len(s) \in Nat,
           NEW f, Unrolled(f, k, b, s)
    PROVE  Run(f, k, b, s)
<1>. USE DEF Unrolled
<1>1. f[0] = b
  OBVIOUS
<1>2. \A i \in 1..Len(s) : f[i] = Op(k, f[i - 1], s[i])
  <2>. TAKE i \in 1..Len(s)
  <2>1. i \in 0..Len(s) /\ i # 0
    OBVIOUS
  <2> QED
    BY <2>1, Zenon
<1> QED
  BY <1>1, <1>2 DEF Run

\* One more at the end is one more step.
LEMMA RunAppend ==
    ASSUME NEW k, NEW b, NEW s, NEW x, IsSeq(s),
           NEW f, Run(f, k, b, s), NEW g, Run(g, k, b, Append(s, x))
    PROVE  g[Len(Append(s, x))] = Op(k, f[Len(s)], x)
<1>. DEFINE n == Len(s)
            r == Append(s, x)
<1>1. n \in Nat /\ Len(r) = n + 1 /\ r[n + 1] = x /\ \A i \in 1..n : r[i] = s[i]
  BY SeqParts, AppendIsSeq
<1>. HIDE DEF r
<1>2. g[0] = b /\ \A i \in 1..(n + 1) : g[i] = Op(k, g[i - 1], r[i])
  BY <1>1, Zenon DEF Run, r
<1>3. f[0] = b /\ \A i \in 1..n : f[i] = Op(k, f[i - 1], s[i])
  BY Zenon DEF Run
<1>. HIDE DEF n
<1>. DEFINE S == {i \in 0..n : g[i] = f[i]}
<1>4. 0 \in S
  BY <1>1, <1>2, <1>3
<1>5. \A i \in 1..n : i - 1 \in S => i \in S
  <2>. TAKE i \in 1..n
  <2>. HAVE i - 1 \in S
  <2>1. g[i - 1] = f[i - 1] /\ r[i] = s[i] /\ i \in 1..(n + 1) /\ i \in 0..n
    BY <1>1
  <2>2. g[i] = f[i]
    BY <1>2, <1>3, <2>1
  <2> QED
    BY <2>1, <2>2
<1>6. n \in S
  <2>. HIDE DEF S
  <2> QED
    BY <1>1, <1>4, <1>5, Along
<1>7. g[n + 1] = Op(k, g[n], x)
  <2>1. n + 1 \in 1..(n + 1) /\ (n + 1) - 1 = n
    BY <1>1
  <2> QED
    BY <1>1, <1>2, <2>1
<1> QED
  BY <1>1, <1>6, <1>7 DEF n, r

\* Each of the folds of Incremental is such a run.
LEMMA PatchedRun ==
    ASSUME NEW b, NEW s, Len(s) \in Nat
    PROVE  \E f : Run(f, <<"patched">>, b, s) /\ After(Patched, b, s) = f[Len(s)]
<1>1. \A a, x : Op(<<"patched">>, a, x) = Patched(a, x)
  BY DEF Op
<1>. DEFINE Eq(f) == f = [i \in 0..Len(s) |-> IF i = 0 THEN b ELSE Patched(f[i - 1], s[i])]
            w == CHOOSE f : Eq(f)
<1>2. \E f : Eq(f)
  <2>1. PICK f : Unrolled(f, <<"patched">>, b, s)
    BY Steps, Zenon
  <2>2. [i \in 0..Len(s) |-> IF i = 0 THEN b ELSE Op(<<"patched">>, f[i - 1], s[i])]
        = [i \in 0..Len(s) |-> IF i = 0 THEN b ELSE Patched(f[i - 1], s[i])]
    BY <1>1
  <2> QED
    BY <2>1, <2>2 DEF Unrolled
<1>3. Eq(w) /\ After(Patched, b, s) = w[Len(s)]
  BY <1>2, Zenon DEF After
<1>4. Run(w, <<"patched">>, b, s)
  <2>1. [i \in 0..Len(s) |-> IF i = 0 THEN b ELSE Op(<<"patched">>, w[i - 1], s[i])]
        = [i \in 0..Len(s) |-> IF i = 0 THEN b ELSE Patched(w[i - 1], s[i])]
    BY <1>1
  <2>. HIDE DEF w
  <2> QED
    BY <1>3, <2>1, Ran DEF Unrolled
<1>. HIDE DEF w
<1> QED
  BY <1>3, <1>4

LEMMA ShownRun ==
    ASSUME NEW b, NEW s, Len(s) \in Nat
    PROVE  \E f : Run(f, <<"shown">>, b, s) /\ After(ViewStep, b, s) = f[Len(s)]
<1>1. \A a, x : Op(<<"shown">>, a, x) = ViewStep(a, x)
  BY DEF Op
<1>. DEFINE Eq(f) == f = [i \in 0..Len(s) |-> IF i = 0 THEN b ELSE ViewStep(f[i - 1], s[i])]
            w == CHOOSE f : Eq(f)
<1>2. \E f : Eq(f)
  <2>1. PICK f : Unrolled(f, <<"shown">>, b, s)
    BY Steps, Zenon
  <2>2. [i \in 0..Len(s) |-> IF i = 0 THEN b ELSE Op(<<"shown">>, f[i - 1], s[i])]
        = [i \in 0..Len(s) |-> IF i = 0 THEN b ELSE ViewStep(f[i - 1], s[i])]
    BY <1>1
  <2> QED
    BY <2>1, <2>2 DEF Unrolled
<1>3. Eq(w) /\ After(ViewStep, b, s) = w[Len(s)]
  BY <1>2, Zenon DEF After
<1>4. Run(w, <<"shown">>, b, s)
  <2>1. [i \in 0..Len(s) |-> IF i = 0 THEN b ELSE Op(<<"shown">>, w[i - 1], s[i])]
        = [i \in 0..Len(s) |-> IF i = 0 THEN b ELSE ViewStep(w[i - 1], s[i])]
    BY <1>1
  <2>. HIDE DEF w
  <2> QED
    BY <1>3, <2>1, Ran DEF Unrolled
<1>. HIDE DEF w
<1> QED
  BY <1>3, <1>4

LEMMA PushingRun ==
    ASSUME NEW b, NEW s, Len(s) \in Nat
    PROVE  \E f : Run(f, <<"pushed">>, b, s) /\ After(Pushed, b, s) = f[Len(s)]
<1>1. \A a, x : Op(<<"pushed">>, a, x) = Pushed(a, x)
  BY DEF Op
<1>. DEFINE Eq(f) == f = [i \in 0..Len(s) |-> IF i = 0 THEN b ELSE Pushed(f[i - 1], s[i])]
            w == CHOOSE f : Eq(f)
<1>2. \E f : Eq(f)
  <2>1. PICK f : Unrolled(f, <<"pushed">>, b, s)
    BY Steps, Zenon
  <2>2. [i \in 0..Len(s) |-> IF i = 0 THEN b ELSE Op(<<"pushed">>, f[i - 1], s[i])]
        = [i \in 0..Len(s) |-> IF i = 0 THEN b ELSE Pushed(f[i - 1], s[i])]
    BY <1>1
  <2> QED
    BY <2>1, <2>2 DEF Unrolled
<1>3. Eq(w) /\ After(Pushed, b, s) = w[Len(s)]
  BY <1>2, Zenon DEF After
<1>4. Run(w, <<"pushed">>, b, s)
  <2>1. [i \in 0..Len(s) |-> IF i = 0 THEN b ELSE Op(<<"pushed">>, w[i - 1], s[i])]
        = [i \in 0..Len(s) |-> IF i = 0 THEN b ELSE Pushed(w[i - 1], s[i])]
    BY <1>1
  <2>. HIDE DEF w
  <2> QED
    BY <1>3, <2>1, Ran DEF Unrolled
<1>. HIDE DEF w
<1> QED
  BY <1>3, <1>4

LEMMA FillingRun ==
    ASSUME NEW b, NEW s, Len(s) \in Nat
    PROVE  \E f : Run(f, <<"filled">>, b, s) /\ After(FillIn, b, s) = f[Len(s)]
<1>1. \A a, x : Op(<<"filled">>, a, x) = FillIn(a, x)
  BY DEF Op
<1>. DEFINE Eq(f) == f = [i \in 0..Len(s) |-> IF i = 0 THEN b ELSE FillIn(f[i - 1], s[i])]
            w == CHOOSE f : Eq(f)
<1>2. \E f : Eq(f)
  <2>1. PICK f : Unrolled(f, <<"filled">>, b, s)
    BY Steps, Zenon
  <2>2. [i \in 0..Len(s) |-> IF i = 0 THEN b ELSE Op(<<"filled">>, f[i - 1], s[i])]
        = [i \in 0..Len(s) |-> IF i = 0 THEN b ELSE FillIn(f[i - 1], s[i])]
    BY <1>1
  <2> QED
    BY <2>1, <2>2 DEF Unrolled
<1>3. Eq(w) /\ After(FillIn, b, s) = w[Len(s)]
  BY <1>2, Zenon DEF After
<1>4. Run(w, <<"filled">>, b, s)
  <2>1. [i \in 0..Len(s) |-> IF i = 0 THEN b ELSE Op(<<"filled">>, w[i - 1], s[i])]
        = [i \in 0..Len(s) |-> IF i = 0 THEN b ELSE FillIn(w[i - 1], s[i])]
    BY <1>1
  <2>. HIDE DEF w
  <2> QED
    BY <1>3, <2>1, Ran DEF Unrolled
<1>. HIDE DEF w
<1> QED
  BY <1>3, <1>4

LEMMA GatheringRun ==
    ASSUME NEW b, NEW s, Len(s) \in Nat
    PROVE  \E f : Run(f, <<"gathered">>, b, s) /\ After(Gather, b, s) = f[Len(s)]
<1>1. \A a, x : Op(<<"gathered">>, a, x) = Gather(a, x)
  BY DEF Op
<1>. DEFINE Eq(f) == f = [i \in 0..Len(s) |-> IF i = 0 THEN b ELSE Gather(f[i - 1], s[i])]
            w == CHOOSE f : Eq(f)
<1>2. \E f : Eq(f)
  <2>1. PICK f : Unrolled(f, <<"gathered">>, b, s)
    BY Steps, Zenon
  <2>2. [i \in 0..Len(s) |-> IF i = 0 THEN b ELSE Op(<<"gathered">>, f[i - 1], s[i])]
        = [i \in 0..Len(s) |-> IF i = 0 THEN b ELSE Gather(f[i - 1], s[i])]
    BY <1>1
  <2> QED
    BY <2>1, <2>2 DEF Unrolled
<1>3. Eq(w) /\ After(Gather, b, s) = w[Len(s)]
  BY <1>2, Zenon DEF After
<1>4. Run(w, <<"gathered">>, b, s)
  <2>1. [i \in 0..Len(s) |-> IF i = 0 THEN b ELSE Op(<<"gathered">>, w[i - 1], s[i])]
        = [i \in 0..Len(s) |-> IF i = 0 THEN b ELSE Gather(w[i - 1], s[i])]
    BY <1>1
  <2>. HIDE DEF w
  <2> QED
    BY <1>3, <2>1, Ran DEF Unrolled
<1>. HIDE DEF w
<1> QED
  BY <1>3, <1>4

LEMMA SteppingRun ==
    ASSUME NEW b, NEW s, Len(s) \in Nat
    PROVE  \E f : Run(f, <<"stepped">>, b, s) /\ After(CountStep, b, s) = f[Len(s)]
<1>1. \A a, x : Op(<<"stepped">>, a, x) = CountStep(a, x)
  BY DEF Op
<1>. DEFINE Eq(f) == f = [i \in 0..Len(s) |-> IF i = 0 THEN b ELSE CountStep(f[i - 1], s[i])]
            w == CHOOSE f : Eq(f)
<1>2. \E f : Eq(f)
  <2>1. PICK f : Unrolled(f, <<"stepped">>, b, s)
    BY Steps, Zenon
  <2>2. [i \in 0..Len(s) |-> IF i = 0 THEN b ELSE Op(<<"stepped">>, f[i - 1], s[i])]
        = [i \in 0..Len(s) |-> IF i = 0 THEN b ELSE CountStep(f[i - 1], s[i])]
    BY <1>1
  <2> QED
    BY <2>1, <2>2 DEF Unrolled
<1>3. Eq(w) /\ After(CountStep, b, s) = w[Len(s)]
  BY <1>2, Zenon DEF After
<1>4. Run(w, <<"stepped">>, b, s)
  <2>1. [i \in 0..Len(s) |-> IF i = 0 THEN b ELSE Op(<<"stepped">>, w[i - 1], s[i])]
        = [i \in 0..Len(s) |-> IF i = 0 THEN b ELSE CountStep(w[i - 1], s[i])]
    BY <1>1
  <2>. HIDE DEF w
  <2> QED
    BY <1>3, <2>1, Ran DEF Unrolled
<1>. HIDE DEF w
<1> QED
  BY <1>3, <1>4

LEMMA CountingRun ==
    ASSUME NEW b, NEW s, Len(s) \in Nat
    PROVE  \E f : Run(f, <<"counted">>, b, s) /\ After(Counted, b, s) = f[Len(s)]
<1>1. \A a, x : Op(<<"counted">>, a, x) = Counted(a, x)
  BY DEF Op
<1>. DEFINE Eq(f) == f = [i \in 0..Len(s) |-> IF i = 0 THEN b ELSE Counted(f[i - 1], s[i])]
            w == CHOOSE f : Eq(f)
<1>2. \E f : Eq(f)
  <2>1. PICK f : Unrolled(f, <<"counted">>, b, s)
    BY Steps, Zenon
  <2>2. [i \in 0..Len(s) |-> IF i = 0 THEN b ELSE Op(<<"counted">>, f[i - 1], s[i])]
        = [i \in 0..Len(s) |-> IF i = 0 THEN b ELSE Counted(f[i - 1], s[i])]
    BY <1>1
  <2> QED
    BY <2>1, <2>2 DEF Unrolled
<1>3. Eq(w) /\ After(Counted, b, s) = w[Len(s)]
  BY <1>2, Zenon DEF After
<1>4. Run(w, <<"counted">>, b, s)
  <2>1. [i \in 0..Len(s) |-> IF i = 0 THEN b ELSE Op(<<"counted">>, w[i - 1], s[i])]
        = [i \in 0..Len(s) |-> IF i = 0 THEN b ELSE Counted(w[i - 1], s[i])]
    BY <1>1
  <2>. HIDE DEF w
  <2> QED
    BY <1>3, <2>1, Ran DEF Unrolled
<1>. HIDE DEF w
<1> QED
  BY <1>3, <1>4

LEMMA TakingRun ==
    ASSUME NEW level \in {"top", "kid"}, NEW b, NEW s, Len(s) \in Nat
    PROVE  \E f : /\ Run(f, <<"taken", level>>, b, s)
                  /\ After(LAMBDA a, d : TakeStep(a, level, d), b, s) = f[Len(s)]
<1>1. \A a, x : Op(<<"taken", level>>, a, x) = TakeStep(a, level, x)
  BY DEF Op
<1>. DEFINE Eq(f) == f = [i \in 0..Len(s) |-> IF i = 0 THEN b ELSE TakeStep(f[i - 1], level, s[i])]
            w == CHOOSE f : Eq(f)
<1>2. \E f : Eq(f)
  <2>1. PICK f : Unrolled(f, <<"taken", level>>, b, s)
    BY Steps, Zenon
  <2>2. [i \in 0..Len(s) |-> IF i = 0 THEN b ELSE Op(<<"taken", level>>, f[i - 1], s[i])]
        = [i \in 0..Len(s) |-> IF i = 0 THEN b ELSE TakeStep(f[i - 1], level, s[i])]
    BY <1>1
  <2> QED
    BY <2>1, <2>2 DEF Unrolled
<1>3. Eq(w) /\ After(LAMBDA a, d : TakeStep(a, level, d), b, s) = w[Len(s)]
  BY <1>2, Zenon DEF After
<1>4. Run(w, <<"taken", level>>, b, s)
  <2>1. [i \in 0..Len(s) |-> IF i = 0 THEN b ELSE Op(<<"taken", level>>, w[i - 1], s[i])]
        = [i \in 0..Len(s) |-> IF i = 0 THEN b ELSE TakeStep(w[i - 1], level, s[i])]
    BY <1>1
  <2>. HIDE DEF w
  <2> QED
    BY <1>3, <2>1, Ran DEF Unrolled
<1>. HIDE DEF w
<1> QED
  BY <1>3, <1>4

LEMMA OwnRun ==
    ASSUME NEW p, NEW s, Len(s) \in Nat
    PROVE  \E f : Run(f, <<"own", p>>, <<>>, s) /\ OfParent(s, p) = f[Len(s)]
<1>. DEFINE b == <<>>
            Eq(f) == f = [i \in 0..Len(s) |-> IF i = 0 THEN b ELSE Own(f[i - 1], s[i], p)]
            w == CHOOSE f : Eq(f)
<1>1. \A a, x : Op(<<"own", p>>, a, x) = Own(a, x, p)
  BY DEF Op
<1>2. \E f : Eq(f)
  <2>. HIDE DEF b
  <2>1. PICK f : Unrolled(f, <<"own", p>>, b, s)
    BY Steps, Zenon
  <2>2. [i \in 0..Len(s) |-> IF i = 0 THEN b ELSE Op(<<"own", p>>, f[i - 1], s[i])]
        = [i \in 0..Len(s) |-> IF i = 0 THEN b ELSE Own(f[i - 1], s[i], p)]
    BY <1>1
  <2> QED
    BY <2>1, <2>2 DEF Unrolled
<1>3. Eq(w) /\ OfParent(s, p) = w[Len(s)]
  BY <1>2, Zenon DEF After, OfParent
<1>4. Run(w, <<"own", p>>, b, s)
  <2>. HIDE DEF w, b
  <2>1. [i \in 0..Len(s) |-> IF i = 0 THEN b ELSE Op(<<"own", p>>, w[i - 1], s[i])]
        = [i \in 0..Len(s) |-> IF i = 0 THEN b ELSE Own(w[i - 1], s[i], p)]
    BY <1>1
  <2> QED
    BY <1>3, <2>1, Ran DEF Unrolled
<1>. HIDE DEF w
<1> QED
  BY <1>3, <1>4

----------------------------------------------------------------------------
(* The patches of a view and the list that follows them *)

LEMMA PatchedNone == \A b : After(Patched, b, <<>>) = b
<1>. TAKE b
<1>1. PICK f : Run(f, <<"patched">>, b, <<>>) /\ After(Patched, b, <<>>) = f[0]
  BY PatchedRun, Zenon, EmptyIsSeq, Len(<<>>) = 0, 0 \in Nat
<1> QED
  BY <1>1, Zenon DEF Run

LEMMA PatchedAppend ==
    ASSUME NEW b, NEW s, NEW p, IsSeq(s)
    PROVE  After(Patched, b, Append(s, p)) = Patched(After(Patched, b, s), p)
<1>1. Len(s) \in Nat /\ Len(Append(s, p)) \in Nat
  BY SeqParts, AppendIsSeq
<1>2. PICK f : Run(f, <<"patched">>, b, s) /\ After(Patched, b, s) = f[Len(s)]
  BY <1>1, PatchedRun, Zenon
<1>3. PICK g : /\ Run(g, <<"patched">>, b, Append(s, p))
               /\ After(Patched, b, Append(s, p)) = g[Len(Append(s, p))]
  BY <1>1, PatchedRun, Zenon
<1>4. g[Len(Append(s, p))] = Op(<<"patched">>, f[Len(s)], p)
  <2>1. Run(f, <<"patched">>, b, s) /\ Run(g, <<"patched">>, b, Append(s, p))
    BY <1>2, <1>3, Zenon
  <2>. HIDE DEF Run
  <2> QED
    BY <2>1, RunAppend
<1> QED
  BY <1>2, <1>3, <1>4 DEF Op

\* The patches of v, from b on, lead to the nodes of v.
Leads(b, v) ==
    /\ v = [held |-> v.held, nodes |-> v.nodes, patches |-> v.patches]
    /\ IsSeq(v.patches)
    /\ After(Patched, b, v.patches) = v.nodes

LEMMA OneMore ==
    ASSUME NEW b, NEW v, Leads(b, v), NEW ts, NEW p, ts = Patched(v.nodes, p)
    PROVE  Leads(b, [held |-> v.held, nodes |-> ts, patches |-> v.patches \o <<p>>])
<1>. DEFINE ps == v.patches
            n == v.nodes
            w == [held |-> v.held, nodes |-> ts, patches |-> Append(ps, p)]
<1>1. IsSeq(ps) /\ After(Patched, b, ps) = n /\ ts = Patched(n, p)
  BY DEF Leads
<1>2. ps \o <<p>> = Append(ps, p) /\ IsSeq(Append(ps, p))
  <2>. HIDE DEF ps
  <2> QED
    BY <1>1, AppendIsSeq
<1>3. After(Patched, b, Append(ps, p)) = ts
  <2>. HIDE DEF ps, n
  <2> QED
    BY <1>1, PatchedAppend
<1>4. [held |-> v.held, nodes |-> ts, patches |-> v.patches \o <<p>>] = w
  BY <1>2
<1>5. Leads(b, w)
  <2>1. w.held = v.held /\ w.nodes = ts /\ w.patches = Append(ps, p)
    OBVIOUS
  <2> QED
    BY <1>2, <1>3, <2>1 DEF Leads
<1> QED
  BY <1>4, <1>5

LEMMA NoMore ==
    ASSUME NEW b, NEW v, Leads(b, v)
    PROVE  [held |-> v.held, nodes |-> v.nodes, patches |-> v.patches \o <<>>] = v
<1>. DEFINE ps == v.patches
<1>1. ps \o <<>> = ps
  <2>1. IsSeq(ps)
    BY DEF Leads
  <2>. HIDE DEF ps
  <2> QED
    BY <2>1 DEF IsSeq
<1> QED
  BY <1>1 DEF Leads

\* One change of a view says what it did to the answer.
LEMMA ViewStepLeads ==
    ASSUME NEW b, NEW v, Leads(b, v), NEW d
    PROVE  Leads(b, ViewStep(v, d))
<1>. DEFINE old == Position(v.nodes, IF d.op = "edit" THEN d.old ELSE d.row)
            without == IF old = 0 THEN v.nodes ELSE RemoveAt(v.nodes, old)
            changed == ApplyChild(v.nodes[old], d.change)
            shown(ts, ps) == [held |-> v.held, nodes |-> ts, patches |-> v.patches \o ps]
<1>0. /\ d.op = "add" => ViewStep(v, d) =
            shown(Placed(v.nodes, d.tree), <<Insert(Place(v.nodes, d.tree.row), d.tree)>>)
      /\ d.op = "remove" => ViewStep(v, d) = shown(without, Removal(old))
      /\ d.op = "edit" => ViewStep(v, d) =
            shown(Placed(without, d.tree), Move(old, Place(without, d.tree.row), d.tree))
      /\ d.op = "child" /\ old > 0 => ViewStep(v, d) =
            shown(ReplaceAt(v.nodes, old, changed), <<Update(old, changed)>>)
      /\ d.op \notin {"add", "remove", "edit"} /\ ~(d.op = "child" /\ old > 0)
            => ViewStep(v, d) = v
  BY DEF ViewStep
<1>1. CASE d.op = "add"
  <2>. DEFINE p == Insert(Place(v.nodes, d.tree.row), d.tree)
  <2>1. Placed(v.nodes, d.tree) = Patched(v.nodes, p)
    BY DEF Placed, Patched, Insert
  <2>. HIDE DEF p
  <2>2. Leads(b, shown(Placed(v.nodes, d.tree), <<p>>))
    BY <2>1, OneMore, Zenon
  <2> QED
    BY <1>0, <1>1, <2>2 DEF p
<1>2. Leads(b, shown(without, Removal(old)))
  <2>1. CASE old = 0
    <3>1. without = v.nodes /\ Removal(old) = <<>>
      BY <2>1 DEF Removal
    <3> QED
      BY <3>1, NoMore
  <2>2. CASE old # 0
    <3>. DEFINE p == RemoveFrom(old)
    <3>1. without = Patched(v.nodes, p) /\ Removal(old) = <<p>>
      BY <2>2 DEF Removal, Patched, RemoveFrom
    <3>. HIDE DEF p, old, without
    <3>2. Leads(b, shown(without, <<p>>))
      BY <3>1, OneMore, Zenon
    <3> QED
      BY <3>1, <3>2
  <2> QED
    BY <2>1, <2>2
<1>3. CASE d.op = "remove"
  BY <1>0, <1>2, <1>3
<1>4. CASE d.op = "edit"
  <2>. DEFINE p == Insert(Place(without, d.tree.row), d.tree)
              u == shown(without, Removal(old))
              ts == Placed(without, d.tree)
  <2>1. ts = Patched(without, p)
    BY DEF Placed, Patched, Insert
  <2>2. u.nodes = without /\ u.patches = v.patches \o Removal(old)
    BY DEF Leads
  <2>3. Leads(b, [held |-> u.held, nodes |-> ts, patches |-> u.patches \o <<p>>])
    <3>. HIDE DEF u, p, ts, without
    <3> QED
      BY <1>2, <2>1, <2>2, OneMore DEF u
  <2>4. (v.patches \o Removal(old)) \o <<p>> = v.patches \o (Removal(old) \o <<p>>)
    <3>. DEFINE ps == v.patches
                qs == Removal(old)
                os == <<p>>
    <3>1. IsSeq(ps) /\ IsSeq(qs) /\ IsSeq(os)
      BY OneIsSeq, EmptyIsSeq DEF Leads, Removal
    <3>. HIDE DEF ps, qs, os
    <3>2. (ps \o qs) \o os = ps \o (qs \o os)
      BY <3>1, ConcatAssoc
    <3> QED
      BY <3>2 DEF ps, qs, os
  <2>5. [held |-> u.held, nodes |-> ts, patches |-> u.patches \o <<p>>]
        = shown(ts, Move(old, Place(without, d.tree.row), d.tree))
    <3>1. Move(old, Place(without, d.tree.row), d.tree) = Removal(old) \o <<p>>
      BY DEF Move
    <3>. HIDE DEF ts, without, p, old
    <3> QED
      BY <2>4, <3>1 DEF Leads
  <2> QED
    BY <1>0, <1>4, <2>3, <2>5
<1>5. CASE d.op = "child" /\ old > 0
  <2>. DEFINE p == Update(old, changed)
  <2>1. ReplaceAt(v.nodes, old, changed) = Patched(v.nodes, p)
    BY DEF Patched, Update
  <2>. HIDE DEF p, changed, old
  <2>2. Leads(b, shown(ReplaceAt(v.nodes, old, changed), <<p>>))
    BY <2>1, OneMore, Zenon
  <2> QED
    BY <1>0, <1>5, <2>2 DEF p
<1>6. CASE d.op \notin {"add", "remove", "edit"} /\ ~(d.op = "child" /\ old > 0)
  BY <1>0, <1>6
<1> QED
  BY <1>1, <1>3, <1>4, <1>5, <1>6

----------------------------------------------------------------------------
(* Every stage puts out a sequence of changes *)

TablesOK == /\ IsFiniteSet(Songs) /\ IsFiniteSet(Notes)
            /\ songs \subseteq Songs /\ notes \subseteq Notes

\* The rows of a table that the query selects, past a given row.
Eligible(S, past) == {r \in S : Selects(r) /\ \A p \in past : Past(p, r)}

LEMMA FetchIsSeq ==
    ASSUME NEW S, IsFiniteSet(S), NEW past
    PROVE  /\ IsSeq(Fetch(S, past))
           /\ Len(Fetch(S, past)) = Cardinality(Eligible(S, past))
<1>. DEFINE R == {r \in S : Selects(r) /\ \A p \in past : Past(p, r)}
            n == Cardinality(R)
            nth(i) == CHOOSE r \in R : Cardinality({s \in R : Before(s, r)}) = i - 1
            f == [i \in 1..n |-> nth(i)]
<1>1. IsFiniteSet(R)
  BY FS_Subset
<1>2. n \in Nat
  <2>. HIDE DEF R
  <2> QED
    BY <1>1, FS_CardinalityType
<1>3. Fetch(S, past) = f
  BY DEF Fetch, InOrder
<1>. HIDE DEF n
<1>. HIDE DEF nth
<1>4. DOMAIN f = 1..n /\ f = [i \in 1..n |-> f[i]]
  OBVIOUS
<1>. HIDE DEF f
<1>5. IsSeq(f)
  BY <1>2, <1>4, FcnIsSeq
<1>6. Len(f) = n
  BY <1>2, <1>4, <1>5, SeqParts
<1> QED
  BY <1>3, <1>5, <1>6 DEF n, Eligible

LEMMA LeavesIsSeq ==
    ASSUME NEW rs, IsSeq(rs) PROVE IsSeq(Leaves(rs))
<1>1. Len(rs) \in Nat /\ DOMAIN rs = 1..Len(rs)
  BY SeqParts
<1>. DEFINE f == [i \in 1..Len(rs) |-> Leaf(rs[i])]
<1>2. f = [i \in 1..Len(rs) |-> f[i]]
  OBVIOUS
<1>3. Leaves(rs) = f
  BY <1>1 DEF Leaves
<1>. HIDE DEF f
<1> QED
  BY <1>1, <1>2, <1>3, FcnIsSeq

LEMMA FirstOfIsSeq ==
    ASSUME NEW s, IsSeq(s), NEW n \in Nat PROVE IsSeq(FirstOf(s, n))
<1>1. PICK P : s \in Seq(P)
  BY DEF IsSeq
<1>2. FirstOf(s, n) \in Seq(P)
  BY <1>1 DEF FirstOf
<1> QED
  BY <1>2 DEF IsSeq

LEMMA HydrateIsSeq ==
    ASSUME NEW h, NEW rows, IsSeq(rows) PROVE IsSeq(Hydrate(h, rows).trees)
<1>. DEFINE kids == ChildrenOf({r.id : r \in ToSet(rows)})
            n == Len(rows)
            f == [i \in 1..n |->
                    [row |-> rows[i], kids |-> OfParent(kids, rows[i].id)]]
<1>1. n \in Nat /\ DOMAIN rows = 1..n
  BY SeqParts
<1>2. f = [i \in 1..n |-> f[i]]
  <2>. HIDE DEF n, kids
  <2> QED
    OBVIOUS
<1>3. Hydrate(h, rows).trees = f
  <2>. HIDE DEF n
  <2> QED
    BY <1>1 DEF Hydrate, Hung
<1>. HIDE DEF f, n
<1> QED
  BY <1>1, <1>2, <1>3, FcnIsSeq

LEMMA RefillIsSeq ==
    ASSUME TablesOK, NEW h, NEW level, NEW key
    PROVE  IsSeq(Refill(h, level, key).trees)
<1>. DEFINE window == Window(h, level, key)
            past == IF window = <<>> THEN {} ELSE {Last(window).row}
            top == FirstOf(Fetch(songs, past), 1)
            N == {n \in notes : n.of = key}
            kid == FirstOf(Fetch(N, past), 1)
<1>1. IsFiniteSet(songs) /\ IsFiniteSet(N)
  BY FS_Subset DEF TablesOK
<1>2. Refill(h, level, key) =
        IF level = "top" THEN Hydrate(h, top) ELSE [held |-> h, trees |-> Leaves(kid)]
  BY DEF Refill
<1>3. IsSeq(top) /\ IsSeq(kid)
  <2>. HIDE DEF past, N
  <2> QED
    BY <1>1, FetchIsSeq, FirstOfIsSeq
<1>. HIDE DEF top, kid
<1> QED
  BY <1>2, <1>3, HydrateIsSeq, LeavesIsSeq

LEMMA FilteredIsSeq == \A c : IsSeq(Filtered(c))
BY EmptyIsSeq, OneIsSeq DEF Filtered

\* What a stage has passed on so far.
Out(a) == a = [held |-> a.held, out |-> a.out] /\ IsSeq(a.out)

LEMMA Outs ==
    \A h, s : IsSeq(s) => Out([held |-> h, out |-> s])
BY DEF Out

LEMMA TakeAddOut ==
    ASSUME NEW a, Out(a), NEW level, NEW t PROVE Out(TakeAdd(a, level, t))
<1>. DEFINE key == Key(level, t.row)
            window == Window(a.held, level, key)
            grown == Placed(window, t)
            two == a.out \o <<Added(t), Removed(Last(grown).row)>>
<1>1. IsSeq(a.out) /\ IsSeq(Append(a.out, Added(t)))
  BY AppendIsSeq DEF Out
<1>2. IsSeq(two)
  <2>. DEFINE x == Added(t)
              y == Removed(Last(grown).row)
  <2>1. IsSeq(<<x, y>>)
    <3>. HIDE DEF x, y
    <3> QED
      BY TwoIsSeq
  <2>. HIDE DEF x, y
  <2>2. IsSeq(a.out \o <<x, y>>)
    BY <1>1, <2>1, ConcatIsSeq
  <2> QED
    BY <2>2 DEF x, y
<1>3. \/ TakeAdd(a, level, t) = a
      \/ TakeAdd(a, level, t) = [held |-> Windowed(a.held, level, key, grown),
                                 out |-> Append(a.out, Added(t))]
      \/ TakeAdd(a, level, t) = [held |-> Windowed(a.held, level, key, Front(grown)),
                                 out |-> two]
  BY DEF TakeAdd
<1>. HIDE DEF two
<1> QED
  BY <1>1, <1>2, <1>3, Outs

LEMMA TakeRemoveOut ==
    ASSUME TablesOK, NEW a, Out(a), NEW level, NEW r PROVE Out(TakeRemove(a, level, r))
<1>. DEFINE key == Key(level, r)
            window == Window(a.held, level, key)
            at == Position(window, r)
            b == [held |-> Windowed(a.held, level, key, RemoveAt(window, at)),
                  out |-> Append(a.out, Removed(r))]
            next == Refill(b.held, level, key)
            ts == next.trees
            more == [i \in DOMAIN ts |-> Added(ts[i])]
            last == [held |-> Windowed(next.held, level, key,
                                 Window(b.held, level, key) \o ts),
                     out |-> b.out \o more]
<1>1. TakeRemove(a, level, r) = a \/ TakeRemove(a, level, r) = last
  BY DEF TakeRemove, Refilled, Lengthened
<1>2. IsSeq(b.out)
  BY AppendIsSeq DEF Out
<1>3. IsSeq(ts)
  <2>. HIDE DEF key, b
  <2> QED
    BY RefillIsSeq
<1>4. IsSeq(more)
  <2>. HIDE DEF ts
  <2>1. Len(ts) \in Nat /\ DOMAIN ts = 1..Len(ts)
    BY <1>3, SeqParts
  <2>2. more = [i \in 1..Len(ts) |-> more[i]]
    BY <2>1
  <2>. HIDE DEF more
  <2> QED
    BY <2>1, <2>2, FcnIsSeq
<1>5. IsSeq(b.out \o more)
  <2>. DEFINE o == b.out
  <2>. HIDE DEF o, more
  <2>1. IsSeq(o \o more)
    BY <1>2, <1>4, ConcatIsSeq DEF o
  <2> QED
    BY <2>1 DEF o
<1>6. Out(last)
  <2>. HIDE DEF b, ts, next, more
  <2> QED
    BY <1>5, Outs
<1>. HIDE DEF last
<1> QED
  BY <1>1, <1>6

LEMMA TakeChildOut ==
    ASSUME NEW a, Out(a), NEW level, NEW d PROVE Out(TakeChild(a, level, d))
<1>1. IsSeq(Append(a.out, d))
  BY AppendIsSeq DEF Out
<1> QED
  BY <1>1, Outs DEF TakeChild

LEMMA TakeStepOut ==
    ASSUME TablesOK, NEW a, Out(a), NEW level, NEW d PROVE Out(TakeStep(a, level, d))
BY TakeAddOut, TakeRemoveOut, TakeChildOut DEF TakeStep

LEMMA FillInOut ==
    ASSUME NEW a, Out(a), NEW d PROVE Out(FillIn(a, d))
<1>1. \A x : IsSeq(Append(a.out, x))
  BY AppendIsSeq DEF Out
<1>2. \A o : [a EXCEPT !.out = o] = [held |-> a.held, out |-> o]
  BY DEF Out
<1>3. \/ FillIn(a, d) = [held |-> a.held, out |-> Append(a.out, d)]
      \/ \E h, x : FillIn(a, d) = [held |-> h, out |-> Append(a.out, x)]
  BY <1>2 DEF FillIn, Filled
<1> QED
  BY <1>1, <1>3, Outs

\* A run of steps that keep to it.
LEMMA RunOut ==
    ASSUME NEW k, \A a, d : Out(a) => Out(Op(k, a, d)),
           NEW b, Out(b), NEW s, Len(s) \in Nat, NEW f, Run(f, k, b, s)
    PROVE  Out(f[Len(s)])
<1>. DEFINE n == Len(s)
            S == {i \in 0..n : Out(f[i])}
<1>. HIDE DEF Out
<1>1. 0 \in S
  BY DEF Run
<1>2. \A i \in 1..n : i - 1 \in S => i \in S
  <2>. TAKE i \in 1..n
  <2>. HAVE i - 1 \in S
  <2>1. f[i] = Op(k, f[i - 1], s[i]) /\ Out(f[i - 1]) /\ i \in 0..n
    BY DEF Run
  <2> QED
    BY <2>1
<1>3. n \in S
  <2>. HIDE DEF S
  <2> QED
    BY <1>1, <1>2, Along
<1> QED
  BY <1>3

LEMMA TakenOut ==
    ASSUME TablesOK, NEW h, NEW level \in {"top", "kid"}, NEW s, IsSeq(s)
    PROVE  Out(Taken(h, level, s))
<1>. DEFINE b == [held |-> h, out |-> <<>>]
<1>1. Out(b) /\ Out([held |-> h, out |-> s]) /\ Len(s) \in Nat
  BY Outs, EmptyIsSeq, SeqParts
<1>. HIDE DEF b
<1>2. PICK f : /\ Run(f, <<"taken", level>>, b, s)
               /\ After(LAMBDA a, d : TakeStep(a, level, d), b, s) = f[Len(s)]
  BY <1>1, TakingRun, Zenon
<1>3. \A a, d : Out(a) => Out(Op(<<"taken", level>>, a, d))
  BY TakeStepOut DEF Op
<1>4. Out(f[Len(s)])
  BY <1>1, <1>2, <1>3, RunOut, Zenon
<1>5. \/ Taken(h, level, s) = [held |-> h, out |-> s]
      \/ Taken(h, level, s) = f[Len(s)]
  BY <1>2, Zenon DEF Taken, b
<1> QED
  BY <1>1, <1>4, <1>5

LEMMA AttributedIsSeq == \A d : IsSeq(Attributed(d))
<1>. TAKE d
<1>1. \A ps, x : IsSeq(Under(ps, x))
  BY EmptyIsSeq, OneIsSeq DEF Under
<1> QED
  BY <1>1, ConcatIsSeq DEF Attributed

LEMMA GatheredOut ==
    ASSUME NEW kids, Out(kids) PROVE Out(Gathered(kids))
<1>. DEFINE s == kids.out
<1>1. IsSeq(s) /\ Len(s) \in Nat
  <2>1. IsSeq(s)
    BY DEF Out
  <2>. HIDE DEF s
  <2> QED
    BY <2>1, SeqParts
<1>. HIDE DEF s
<1>2. PICK f : /\ Run(f, <<"gathered">>, <<>>, s)
               /\ After(Gather, <<>>, s) = f[Len(s)]
  BY <1>1, GatheringRun, Zenon
<1>. DEFINE S == {i \in 0..Len(s) : IsSeq(f[i])}
<1>3. 0 \in S
  BY <1>1, <1>2, EmptyIsSeq DEF Run
<1>4. \A i \in 1..Len(s) : i - 1 \in S => i \in S
  <2>. TAKE i \in 1..Len(s)
  <2>. HAVE i - 1 \in S
  <2>1. f[i] = f[i - 1] \o Attributed(s[i])
    BY <1>2 DEF Run, Op, Gather
  <2>2. IsSeq(f[i - 1]) /\ i \in 0..Len(s)
    BY <1>1
  <2> QED
    BY <2>1, <2>2, AttributedIsSeq, ConcatIsSeq
<1>5. IsSeq(f[Len(s)])
  <2>1. Len(s) \in S
    <3>. HIDE DEF S
    <3> QED
      BY <1>1, <1>3, <1>4, Along
  <2> QED
    BY <2>1
<1>6. Gathered(kids) = [held |-> kids.held, out |-> f[Len(s)]]
  <2>1. Gathered(kids) = [kids EXCEPT !.out = f[Len(s)]]
    BY <1>2, Zenon DEF Gathered, s
  <2> QED
    BY <2>1 DEF Out
<1> QED
  BY <1>5, <1>6, Outs

LEMMA JoinedOut ==
    ASSUME TablesOK, NEW h, NEW c PROVE Out(Joined(h, c))
<1>. DEFINE s == Filtered(c)
            b == [held |-> h, out |-> <<>>]
<1>1. IsSeq(s) /\ Len(s) \in Nat /\ Out(b)
  BY FilteredIsSeq, SeqParts, Outs, EmptyIsSeq
<1>. HIDE DEF s, b
<1>2. Out(After(FillIn, b, s))
  <2>1. PICK f : Run(f, <<"filled">>, b, s) /\ After(FillIn, b, s) = f[Len(s)]
    BY <1>1, FillingRun, Zenon
  <2>2. \A a, d : Out(a) => Out(Op(<<"filled">>, a, d))
    BY FillInOut DEF Op
  <2>3. Out(f[Len(s)])
    BY <1>1, <2>1, <2>2, RunOut
  <2> QED
    BY <2>1, <2>3
<1>3. Out(Gathered(Taken(h, "kid", s)))
  BY <1>1, TakenOut, GatheredOut
<1> QED
  BY <1>2, <1>3, Zenon DEF Joined, s, b

LEMMA TopOut ==
    ASSUME TablesOK, NEW h, NEW c PROVE IsSeq(TakenAtTop(Joined(h, c)).out)
<1>. DEFINE j == Joined(h, c)
<1>1. Out(j)
  BY JoinedOut
<1>2. IsSeq(j.out)
  BY <1>1 DEF Out
<1>. HIDE DEF j
<1>3. Out(Taken(j.held, "top", j.out))
  <2>. DEFINE g == j.held
              s == j.out
  <2>. HIDE DEF g, s
  <2>1. Out(Taken(g, "top", s))
    BY <1>2, TakenOut DEF s
  <2> QED
    BY <2>1 DEF g, s
<1> QED
  BY <1>3, Zenon DEF Out, TakenAtTop, j

\* One change through the whole pipeline, and so all of them.
LEMMA PushedLeads ==
    ASSUME TablesOK, NEW b, NEW v, Leads(b, v), NEW c
    PROVE  Leads(b, Pushed(v, c))
<1>. DEFINE top == TakenAtTop(Joined(v.held, c))
            s == top.out
            u == [v EXCEPT !.held = top.held]
<1>1. IsSeq(s) /\ Len(s) \in Nat
  <2>1. IsSeq(s)
    BY TopOut
  <2>. HIDE DEF s
  <2> QED
    BY <2>1, SeqParts
<1>2. Leads(b, u)
  <2>. HIDE DEF top
  <2>1. u = [held |-> top.held, nodes |-> v.nodes, patches |-> v.patches]
    BY DEF Leads
  <2> QED
    BY <2>1 DEF Leads
<1>3. Pushed(v, c) = After(ViewStep, u, s)
  BY DEF Pushed, Seen
<1>. HIDE DEF s, u
<1>4. PICK f : Run(f, <<"shown">>, u, s) /\ After(ViewStep, u, s) = f[Len(s)]
  BY <1>1, ShownRun, Zenon
<1>. DEFINE S == {i \in 0..Len(s) : Leads(b, f[i])}
<1>5. 0 \in S
  BY <1>1, <1>2, <1>4 DEF Run
<1>6. \A i \in 1..Len(s) : i - 1 \in S => i \in S
  <2>. TAKE i \in 1..Len(s)
  <2>. HAVE i - 1 \in S
  <2>1. f[i] = ViewStep(f[i - 1], s[i])
    BY <1>4 DEF Run, Op
  <2>2. Leads(b, f[i - 1]) /\ i \in 0..Len(s)
    BY <1>1
  <2> QED
    BY <2>1, <2>2, ViewStepLeads
<1>7. Len(s) \in S
  <2>. HIDE DEF S
  <2> QED
    BY <1>1, <1>5, <1>6, Along
<1> QED
  BY <1>3, <1>4, <1>7

LEMMA AllPushedLeads ==
    ASSUME TablesOK, NEW b, NEW v, Leads(b, v), NEW cs, IsSeq(cs)
    PROVE  Leads(b, After(Pushed, v, cs))
<1>1. Len(cs) \in Nat
  BY SeqParts
<1>2. PICK f : Run(f, <<"pushed">>, v, cs) /\ After(Pushed, v, cs) = f[Len(cs)]
  BY <1>1, PushingRun, Zenon
<1>. DEFINE S == {i \in 0..Len(cs) : Leads(b, f[i])}
<1>3. 0 \in S
  BY <1>1, <1>2 DEF Run
<1>4. \A i \in 1..Len(cs) : i - 1 \in S => i \in S
  <2>. TAKE i \in 1..Len(cs)
  <2>. HAVE i - 1 \in S
  <2>1. f[i] = Pushed(f[i - 1], cs[i])
    BY <1>2 DEF Run, Op
  <2>2. Leads(b, f[i - 1]) /\ i \in 0..Len(cs)
    BY <1>1
  <2> QED
    BY <2>1, <2>2, PushedLeads
<1>5. Len(cs) \in S
  <2>. HIDE DEF S
  <2> QED
    BY <1>1, <1>3, <1>4, Along
<1> QED
  BY <1>2, <1>5

----------------------------------------------------------------------------
(* A screen that follows the patches shows the answer of the view, whatever *)
(* was written and however the client rebased                               *)

ScreenInv ==
    /\ songs \subseteq Songs /\ notes \subseteq Notes
    /\ IsSeq(changes)
    /\ ScreenFollows

\* The changes remain a sequence.
LEMMA ReportedSeq ==
    ASSUME IsSeq(changes), NEW c, Reported(c) PROVE IsSeq(changes')
BY AppendIsSeq, EmptyIsSeq DEF Reported

\* Init and each action keep the tables in bounds and the screen abreast.
LEMMA ScreenInvInductive ==
    ASSUME IsFiniteSet(Songs), IsFiniteSet(Notes)
    PROVE  (Init => ScreenInv) /\ (ScreenInv /\ [Next]_vars => ScreenInv')
<1>1. Init => ScreenInv
  BY EmptyIsSeq DEF Init, ScreenInv, ScreenFollows
<1>2. ASSUME ScreenInv, [Next]_vars PROVE ScreenInv'
  <2>1. songs \subseteq Songs /\ notes \subseteq Notes /\ IsSeq(changes) /\ screen = nodes
    BY <1>2 DEF ScreenInv, ScreenFollows
  <2>2. CASE Settle
    <3>1. songs' = songs /\ notes' = notes /\ changes' = <<>>
      BY <2>2 DEF Settle
    <3>2. screen' = nodes'
      <4>1. CASE rebuilt /\ StartOver(Hydrated(held))
        BY <4>1 DEF StartOver
      <4>2. CASE ~rebuilt /\ Follow(After(Pushed, [held |-> held, nodes |-> nodes,
                                                   patches |-> <<>>], changes))
        <5>. DEFINE v == [held |-> held, nodes |-> nodes, patches |-> <<>>]
                    w == After(Pushed, v, changes)
        <5>1. Leads(screen, v)
          BY <2>1, EmptyIsSeq, PatchedNone DEF Leads
        <5>2. TablesOK
          BY <2>1 DEF TablesOK
        <5>3. Leads(screen, w)
          <6>. HIDE DEF v
          <6> QED
            BY <2>1, <5>1, <5>2, AllPushedLeads
        <5>. HIDE DEF w
        <5>4. nodes' = w.nodes /\ screen' = After(Patched, screen, w.patches)
          BY <4>2 DEF Follow, w
        <5> QED
          BY <5>3, <5>4 DEF Leads
      <4> QED
        BY <2>2, <4>1, <4>2 DEF Settle
    <3> QED
      BY <2>1, <3>1, <3>2, EmptyIsSeq DEF ScreenInv, ScreenFollows
  <2>3. ASSUME NEW r \in Songs, PutSong(r) PROVE ScreenInv'
    <3>1. songs' = (songs \ WithKey(songs, r)) \cup {r} /\ UNCHANGED <<notes, nodes, screen>>
      BY <2>3 DEF PutSong
    <3>2. IsSeq(changes')
      BY <2>1, <2>3, ReportedSeq DEF PutSong
    <3> QED
      BY <2>1, <2>3, <3>1, <3>2 DEF ScreenInv, ScreenFollows
  <2>4. ASSUME NEW r \in Songs, DeleteSong(r) PROVE ScreenInv'
    <3>1. songs' = songs \ {r} /\ UNCHANGED <<notes, nodes, screen>>
      BY <2>4 DEF DeleteSong
    <3>2. IsSeq(changes')
      BY <2>1, <2>4, ReportedSeq DEF DeleteSong
    <3> QED
      BY <2>1, <3>1, <3>2 DEF ScreenInv, ScreenFollows
  <2>5. ASSUME NEW r \in Notes, PutNote(r) PROVE ScreenInv'
    <3>1. notes' = (notes \ WithKey(notes, r)) \cup {r} /\ UNCHANGED <<songs, nodes, screen>>
      BY <2>5 DEF PutNote
    <3>2. IsSeq(changes')
      BY <2>1, <2>5, ReportedSeq DEF PutNote
    <3> QED
      BY <2>1, <2>5, <3>1, <3>2 DEF ScreenInv, ScreenFollows
  <2>6. ASSUME NEW r \in Notes, DeleteNote(r) PROVE ScreenInv'
    <3>1. notes' = notes \ {r} /\ UNCHANGED <<songs, nodes, screen>>
      BY <2>6 DEF DeleteNote
    <3>2. IsSeq(changes')
      BY <2>1, <2>6, ReportedSeq DEF DeleteNote
    <3> QED
      BY <2>1, <3>1, <3>2 DEF ScreenInv, ScreenFollows
  <2>7. CASE UNCHANGED vars
    BY <2>1, <2>7 DEF ScreenInv, ScreenFollows, vars
  <2> QED
    BY <1>2, <2>2, <2>3, <2>4, <2>5, <2>6, <2>7 DEF Next
<1> QED
  BY <1>1, <1>2

\* ScreenFollows for every pair of finite tables and every list of shapes: the
\* patches that `View::apply` returns, one by one from where the screen was,
\* give the view's own answer, also where that answer is not the query's.
THEOREM ScreensFollow ==
    ASSUME IsFiniteSet(Songs), IsFiniteSet(Notes)
    PROVE  Spec => []ScreenFollows
<1>1. ScreenInv => ScreenFollows
  BY DEF ScreenInv
<1> QED
  BY <1>1, ScreenInvInductive, PTL DEF Spec

----------------------------------------------------------------------------
(* The tally *)

LEMMA StepNone == \A n : After(CountStep, n, <<>>) = n
<1>. TAKE n
<1>1. PICK f : Run(f, <<"stepped">>, n, <<>>) /\ After(CountStep, n, <<>>) = f[0]
  BY SteppingRun, Zenon, EmptyIsSeq, Len(<<>>) = 0, 0 \in Nat
<1> QED
  BY <1>1, Zenon DEF Run

LEMMA StepOne == \A n, d : After(CountStep, n, <<d>>) = CountStep(n, d)
<1>. TAKE n, d
<1>. DEFINE s == <<d>>
<1>1. Len(s) = 1 /\ s[1] = d /\ 1 \in Nat
  BY OneIsSeq
<1>. HIDE DEF s
<1>2. PICK f : Run(f, <<"stepped">>, n, s) /\ After(CountStep, n, s) = f[Len(s)]
  BY <1>1, SteppingRun, Zenon
<1>3. f[0] = n /\ f[1] = Op(<<"stepped">>, f[0], d)
  <2>1. 1 \in 1..Len(s) /\ 1 - 1 = 0
    BY <1>1
  <2> QED
    BY <1>1, <1>2, <2>1 DEF Run
<1>4. After(CountStep, n, s) = CountStep(n, d)
  BY <1>1, <1>2, <1>3 DEF Op
<1> QED
  BY <1>4 DEF s

LEMMA CountedNone == \A n : After(Counted, n, <<>>) = n
<1>. TAKE n
<1>1. PICK f : Run(f, <<"counted">>, n, <<>>) /\ After(Counted, n, <<>>) = f[0]
  BY CountingRun, Zenon, EmptyIsSeq, Len(<<>>) = 0, 0 \in Nat
<1> QED
  BY <1>1, Zenon DEF Run

LEMMA CountedAppend ==
    ASSUME NEW b, NEW s, NEW c, IsSeq(s)
    PROVE  After(Counted, b, Append(s, c)) = Counted(After(Counted, b, s), c)
<1>1. Len(s) \in Nat /\ Len(Append(s, c)) \in Nat
  BY SeqParts, AppendIsSeq
<1>2. PICK f : Run(f, <<"counted">>, b, s) /\ After(Counted, b, s) = f[Len(s)]
  BY <1>1, CountingRun, Zenon
<1>3. PICK g : /\ Run(g, <<"counted">>, b, Append(s, c))
               /\ After(Counted, b, Append(s, c)) = g[Len(Append(s, c))]
  BY <1>1, CountingRun, Zenon
<1>4. g[Len(Append(s, c))] = Op(<<"counted">>, f[Len(s)], c)
  <2>1. Run(f, <<"counted">>, b, s) /\ Run(g, <<"counted">>, b, Append(s, c))
    BY <1>2, <1>3, Zenon
  <2>. HIDE DEF Run
  <2> QED
    BY <2>1, RunAppend
<1> QED
  BY <1>2, <1>3, <1>4 DEF Op

Matching(S) == {r \in S : Selects(r)}

\* A write moves the count the way it moves the rows that match: S is what the
\* table was, W the row that was replaced or deleted, I the row that is there now.
LEMMA OneWrite ==
    ASSUME NEW S, IsFiniteSet(S), NEW W \in SUBSET S, NEW I,
           \A r, s \in W : r = s,
           I = {} \/ \E r : I = {r},
           I \cap S \subseteq W,
           \A r \in S \cup I : r.tag # Null
    PROVE  Counted(Cardinality(Matching(S)), Change("songs", W, I))
            = Cardinality(Matching((S \ W) \cup I))
<1>. DEFINE M == Matching(S)
            N == Matching((S \ W) \cup I)
            n == Cardinality(M)
            c == Change("songs", W, I)
            A == {r \in W : Admits(r)}
            B == {r \in I : Admits(r)}
<1>. SUFFICES Counted(n, c) = Cardinality(N)
  OBVIOUS
<1>1. \A r \in S \cup I : Selects(r) <=> Admits(r)
  BY DEF Selects, Admits
<1>2. A \subseteq M /\ N = (M \ A) \cup B /\ B \cap M \subseteq A
  BY <1>1 DEF Matching
<1>3. IsFiniteSet(M) /\ n \in Nat
  <2>1. IsFiniteSet(M)
    BY FS_Subset DEF Matching
  <2>. HIDE DEF M
  <2> QED
    BY <2>1, FS_CardinalityType
<1>4. A = {} \/ \E q : A = {q}
  OBVIOUS
<1>5. B = {} \/ \E q : B = {q}
  OBVIOUS
<1>6. Filtered(c) = CASE A = {} /\ B = {} -> <<>>
                      [] A = {} /\ B # {} -> <<Added(Leaf(Only(B)))>>
                      [] A # {} /\ B = {} -> <<Removed(Only(A))>>
                      [] OTHER -> <<Edited(Only(A), Leaf(Only(B)))>>
  BY DEF Filtered, Change
<1>7. Counted(n, c) = After(CountStep, n, Filtered(c))
  <2>1. c.table = "songs"
    BY DEF Change
  <2>. HIDE DEF n, c
  <2> QED
    BY <2>1 DEF Counted
<1>. HIDE DEF M, N, A, B, c
<1>8. \A q \in M : Cardinality(M \ {q}) = n - 1 /\ n > 0 /\ IsFiniteSet(M \ {q})
  <2>. TAKE q \in M
  <2>1. Cardinality(M \ {q}) = n - 1 /\ IsFiniteSet(M \ {q})
    BY <1>3, FS_RemoveElement
  <2>2. Cardinality(M \ {q}) \in Nat
    BY <2>1, FS_CardinalityType
  <2> QED
    BY <1>3, <2>1, <2>2
<1>9. CASE A = {} /\ B = {}
  <2>1. N = M
    BY <1>2, <1>9
  <2> QED
    BY <1>6, <1>7, <1>9, <2>1, StepNone
<1>10. CASE A = {} /\ B # {}
  <2>1. PICK r : B = {r}
    BY <1>5, <1>10
  <2>2. N = M \cup {r} /\ r \notin M
    BY <1>2, <1>10, <2>1
  <2>3. Cardinality(N) = n + 1
    BY <1>3, <2>2, FS_AddElement
  <2>. DEFINE d == Added(Leaf(Only(B)))
  <2>4. CountStep(n, d) = n + 1
    BY DEF CountStep, Added
  <2>5. Filtered(c) = <<d>>
    BY <1>6, <1>10
  <2>. HIDE DEF d
  <2> QED
    BY <1>7, <2>3, <2>4, <2>5, StepOne
<1>11. CASE A # {} /\ B = {}
  <2>1. PICK q : A = {q}
    BY <1>4, <1>11
  <2>2. N = M \ {q} /\ q \in M
    BY <1>2, <1>11, <2>1
  <2>3. Cardinality(N) = n - 1 /\ n > 0
    BY <1>8, <2>2
  <2>. DEFINE d == Removed(Only(A))
  <2>4. CountStep(n, d) = n - 1
    BY <2>3 DEF CountStep, Removed
  <2>5. Filtered(c) = <<d>>
    BY <1>6, <1>11
  <2>. HIDE DEF d
  <2> QED
    BY <1>7, <2>3, <2>4, <2>5, StepOne
<1>12. CASE A # {} /\ B # {}
  <2>1. PICK q : A = {q}
    BY <1>4, <1>12
  <2>2. PICK r : B = {r}
    BY <1>5, <1>12
  <2>3. N = (M \ {q}) \cup {r} /\ q \in M /\ r \notin M \ {q}
    BY <1>2, <2>1, <2>2
  <2>4. Cardinality(N) = n
    <3>1. Cardinality(M \ {q}) = n - 1 /\ IsFiniteSet(M \ {q})
      BY <1>8, <2>3
    <3>2. Cardinality((M \ {q}) \cup {r}) = Cardinality(M \ {q}) + 1
      BY <2>3, <3>1, FS_AddElement
    <3> QED
      BY <1>3, <2>3, <3>1, <3>2
  <2>. DEFINE d == Edited(Only(A), Leaf(Only(B)))
  <2>5. CountStep(n, d) = n
    BY DEF CountStep, Edited
  <2>6. Filtered(c) = <<d>>
    BY <1>6, <1>12
  <2>. HIDE DEF d
  <2> QED
    BY <1>7, <2>4, <2>5, <2>6, StepOne
<1> QED
  BY <1>9, <1>10, <1>11, <1>12

\* What the tally will be once it has taken account of the changes.
TallyInv ==
    /\ songs \subseteq Songs /\ Keyed(songs)
    /\ IsSeq(changes)
    /\ ~rebuilt => After(Counted, tally, changes) = Cardinality(Matching(songs))

\* A write of a song, reported or rolled back.
LEMMA SongWritten ==
    ASSUME IsFiniteSet(Songs), \A r \in Songs : r.tag # Null, TallyInv,
           NEW W \in SUBSET songs, NEW I \in SUBSET Songs,
           \A r, s \in W : r = s, I = {} \/ \E r : I = {r}, I \cap songs \subseteq W,
           songs' = (songs \ W) \cup I, Keyed(songs'), tally' = tally,
           Reported(Change("songs", W, I))
    PROVE  TallyInv'
<1>1. /\ songs \subseteq Songs /\ IsSeq(changes)
      /\ ~rebuilt => After(Counted, tally, changes) = Cardinality(Matching(songs))
  BY DEF TallyInv
<1>2. IsFiniteSet(songs)
  BY <1>1, FS_Subset
<1>3. Counted(Cardinality(Matching(songs)), Change("songs", W, I))
        = Cardinality(Matching(songs'))
  <2>1. \A r \in songs \cup I : r.tag # Null
    BY <1>1
  <2>2. Counted(Cardinality(Matching(songs)), Change("songs", W, I))
          = Cardinality(Matching((songs \ W) \cup I))
    BY <1>2, <2>1, OneWrite
  <2> QED
    BY <2>2
<1>4. ~rebuilt' => After(Counted, tally', changes') = Cardinality(Matching(songs'))
  <2>. HAVE ~rebuilt'
  <2>1. ~rebuilt /\ changes' = Append(changes, Change("songs", W, I))
    BY DEF Reported
  <2>2. After(Counted, tally, Append(changes, Change("songs", W, I)))
          = Counted(After(Counted, tally, changes), Change("songs", W, I))
    BY <1>1, CountedAppend
  <2> QED
    BY <1>1, <1>3, <2>1, <2>2
<1>5. IsSeq(changes')
  BY <1>1, ReportedSeq
<1>6. Matching(songs)' = Matching(songs')
  BY DEF Matching, Selects
<1>7. After(Counted, tally, changes)' = After(Counted, tally', changes')
  BY DEF After, Counted, CountStep, Filtered, Admits, Selects
<1> QED
  BY <1>1, <1>4, <1>5, <1>6, <1>7 DEF TallyInv

\* Init and each action keep the count abreast of the songs.
LEMMA TallyInvInductive ==
    ASSUME IsFiniteSet(Songs), \A r \in Songs : r.tag # Null
    PROVE  (Init => TallyInv) /\ (TallyInv /\ [Next]_vars => TallyInv')
<1>1. Init => TallyInv
  BY EmptyIsSeq DEF Init, TallyInv
<1>2. ASSUME TallyInv, [Next]_vars PROVE TallyInv'
  <2>1. /\ songs \subseteq Songs /\ IsSeq(changes)
        /\ \A r, s \in songs : r.id = s.id => r = s
        /\ ~rebuilt => After(Counted, tally, changes) = Cardinality(Matching(songs))
    BY <1>2 DEF TallyInv, Keyed
  <2>2. CASE Settle
    <3>1. songs' = songs /\ changes' = <<>>
      BY <2>2 DEF Settle
    <3>2. tally' = Cardinality(Matching(songs))
      <4>1. CASE rebuilt /\ StartOver(Hydrated(held))
        <5>1. tally' = Len(Fetch(songs, {}))
          BY <4>1 DEF StartOver
        <5>2. Len(Fetch(songs, {})) = Cardinality(Matching(songs))
          <6>1. IsFiniteSet(songs)
            BY <2>1, FS_Subset
          <6>2. Eligible(songs, {}) = Matching(songs)
            BY DEF Eligible, Matching
          <6> QED
            BY <6>1, <6>2, FetchIsSeq
        <5> QED
          BY <5>1, <5>2
      <4>2. CASE ~rebuilt /\ Follow(After(Pushed, [held |-> held, nodes |-> nodes,
                                                   patches |-> <<>>], changes))
        <5>1. tally' = After(Counted, tally, changes)
          BY <4>2 DEF Follow
        <5> QED
          BY <2>1, <4>2, <5>1
      <4> QED
        BY <2>2, <4>1, <4>2 DEF Settle
    <3>3. After(Counted, tally', changes') = tally'
      BY <3>1, CountedNone
    <3>4. After(Counted, tally, changes)' = After(Counted, tally', changes')
      BY DEF After, Counted, CountStep, Filtered, Admits, Selects
    <3> QED
      BY <2>1, <3>1, <3>2, <3>3, <3>4, EmptyIsSeq DEF TallyInv, Keyed, Matching, Selects
  <2>3. ASSUME NEW r \in Songs, PutSong(r) PROVE TallyInv'
    <3>. DEFINE W == WithKey(songs, r)
    <3>1. songs' = (songs \ W) \cup {r} /\ tally' = tally /\ Reported(Change("songs", W, {r}))
      BY <2>3 DEF PutSong
    <3>2. W \in SUBSET songs /\ {r} \in SUBSET Songs /\ (\A q, s \in W : q = s)
          /\ {r} \cap songs \subseteq W
      BY <2>1, <2>3 DEF WithKey
    <3>3. Keyed(songs')
      BY <2>1, <3>1 DEF Keyed, WithKey
    <3>. HIDE DEF W
    <3> QED
      BY <1>2, <3>1, <3>2, <3>3, SongWritten
  <2>4. ASSUME NEW r \in Songs, DeleteSong(r) PROVE TallyInv'
    <3>1. songs' = (songs \ {r}) \cup {} /\ tally' = tally /\ r \in songs
          /\ Reported(Change("songs", {r}, {}))
      BY <2>4 DEF DeleteSong
    <3>2. Keyed(songs')
      BY <2>1, <3>1 DEF Keyed
    <3> QED
      BY <1>2, <3>1, <3>2, SongWritten
  <2>5. ASSUME NEW r, NEW W, NEW I, Reported(Change("notes", W, I)),
               songs' = songs, tally' = tally
        PROVE  TallyInv'
    <3>1. ~rebuilt' => After(Counted, tally', changes') = Cardinality(Matching(songs'))
      <4>. HAVE ~rebuilt'
      <4>. DEFINE c == Change("notes", W, I)
      <4>1. ~rebuilt /\ changes' = Append(changes, c)
        BY <2>5 DEF Reported
      <4>2. After(Counted, tally, Append(changes, c)) = Counted(After(Counted, tally, changes), c)
        <5>. HIDE DEF c
        <5>1. IsSeq(changes)
          BY <2>1
        <5> QED
          BY <5>1, CountedAppend, Zenon
      <4>3. \A n : Counted(n, c) = n
        <5>1. c.table # "songs"
          BY DEF Change
        <5>. HIDE DEF c
        <5> QED
          BY <5>1, StepNone DEF Counted
      <4> QED
        BY <2>1, <2>5, <4>1, <4>2, <4>3
    <3>2. IsSeq(changes')
      BY <2>1, <2>5, ReportedSeq
    <3>3. Matching(songs)' = Matching(songs')
      BY DEF Matching, Selects
    <3>4. After(Counted, tally, changes)' = After(Counted, tally', changes')
      BY DEF After, Counted, CountStep, Filtered, Admits, Selects
    <3> QED
      BY <2>1, <2>5, <3>1, <3>2, <3>3, <3>4 DEF TallyInv, Keyed
  <2>6. ASSUME NEW r \in Notes, PutNote(r) \/ DeleteNote(r) PROVE TallyInv'
    <3>1. songs' = songs /\ tally' = tally
      BY <2>6 DEF PutNote, DeleteNote
    <3>2. Reported(Change("notes", WithKey(notes, r), {r})) \/ Reported(Change("notes", {r}, {}))
      BY <2>6 DEF PutNote, DeleteNote
    <3> QED
      BY <2>5, <3>1, <3>2
  <2>7. CASE UNCHANGED vars
    <3>1. songs' = songs /\ tally' = tally /\ changes' = changes /\ rebuilt' = rebuilt
      BY <2>7 DEF vars
    <3>2. Matching(songs)' = Matching(songs')
      BY DEF Matching, Selects
    <3>3. After(Counted, tally, changes)' = After(Counted, tally', changes')
      BY DEF After, Counted, CountStep, Filtered, Admits, Selects
    <3> QED
      BY <2>1, <3>1, <3>2, <3>3 DEF TallyInv, Keyed
  <2> QED
    BY <1>2, <2>2, <2>3, <2>4, <2>6, <2>7 DEF Next
<1> QED
  BY <1>1, <1>2

\* TallyCounts where no song has a NULL in the column the filter reads: there
\* the `!=` of SQL and the one of `matches` agree, and the count `Tally` keeps
\* from the changes is the count of the rows, replaced rows and rebases included.
THEOREM TalliesCount ==
    ASSUME IsFiniteSet(Songs), \A r \in Songs : r.tag # Null
    PROVE  Spec => []TallyCounts
<1>1. TallyInv => TallyCounts
  <2>. HAVE TallyInv
  <2>. SUFFICES ASSUME Settled PROVE tally = Len(Fetch(songs, {}))
    BY DEF TallyCounts
  <2>1. tally = Cardinality(Matching(songs))
    BY CountedNone DEF TallyInv, Settled
  <2>2. IsFiniteSet(songs)
    BY FS_Subset DEF TallyInv
  <2>3. Eligible(songs, {}) = Matching(songs)
    BY DEF Eligible, Matching
  <2> QED
    BY <2>1, <2>2, <2>3, FetchIsSeq
<1> QED
  BY <1>1, TallyInvInductive, PTL DEF Spec

\* Two sequences that agree everywhere are one.
LEMMA SameSeq ==
    ASSUME NEW s, NEW t, IsSeq(s), IsSeq(t), Len(s) = Len(t),
           \A i \in 1..Len(s) : s[i] = t[i]
    PROVE  s = t
<1>1. Len(s) \in Nat /\ s = [i \in 1..Len(s) |-> s[i]] /\ t = [i \in 1..Len(s) |-> t[i]]
  BY SeqParts
<1>2. [i \in 1..Len(s) |-> s[i]] = [i \in 1..Len(s) |-> t[i]]
  OBVIOUS
<1> QED
  BY <1>1, <1>2, Zenon

\* InsertAt, RemoveAt, ReplaceAt and Front of SequencesExt, element by element.
LEMMA InsertParts ==
    ASSUME NEW s, IsSeq(s), NEW p \in 1..(Len(s) + 1), NEW e
    PROVE  /\ IsSeq(InsertAt(s, p, e)) /\ Len(InsertAt(s, p, e)) = Len(s) + 1
           /\ InsertAt(s, p, e)[p] = e
           /\ \A i \in 1..(p - 1) : InsertAt(s, p, e)[i] = s[i]
           /\ \A i \in (p + 1)..(Len(s) + 1) : InsertAt(s, p, e)[i] = s[i - 1]
<1>1. PICK P : s \in Seq(P)
  BY DEF IsSeq
<1>. DEFINE Q == P \cup {e}
            a == SubSeq(s, 1, p - 1)
            b == SubSeq(s, p, Len(s))
<1>2. s \in Seq(Q) /\ e \in Q /\ Len(s) \in Nat
  BY <1>1
<1>. HIDE DEF Q
<1>3. /\ a \in Seq(Q) /\ Len(a) = p - 1 /\ \A i \in 1..(p - 1) : a[i] = s[i]
  BY <1>2
<1>4. /\ b \in Seq(Q) /\ Len(b) = Len(s) - p + 1
      /\ \A i \in 1..(Len(s) - p + 1) : b[i] = s[p + i - 1]
  BY <1>2
<1>. HIDE DEF a, b
<1>5. <<e>> \in Seq(Q) /\ Len(<<e>>) = 1 /\ <<e>>[1] = e
  BY <1>2
<1>. DEFINE c == a \o <<e>>
<1>6. /\ c \in Seq(Q) /\ Len(c) = p /\ c[p] = e /\ \A i \in 1..(p - 1) : c[i] = s[i]
  BY <1>2, <1>3, <1>5
<1>. HIDE DEF c
<1>7. /\ c \o b \in Seq(Q) /\ Len(c \o b) = Len(s) + 1
      /\ \A i \in 1..p : (c \o b)[i] = c[i]
      /\ \A i \in (p + 1)..(Len(s) + 1) : (c \o b)[i] = b[i - p]
  BY <1>2, <1>4, <1>6
<1>8. InsertAt(s, p, e) = c \o b
  BY DEF InsertAt, a, b, c
<1>9. \A i \in (p + 1)..(Len(s) + 1) : i - p \in 1..(Len(s) - p + 1) /\ p + (i - p) - 1 = i - 1
  BY <1>2
<1>10. IsSeq(c \o b)
  BY <1>7 DEF IsSeq
<1> QED
  BY <1>2, <1>4, <1>6, <1>7, <1>8, <1>9, <1>10

LEMMA RemoveParts ==
    ASSUME NEW s, IsSeq(s), NEW p \in 1..Len(s)
    PROVE  /\ IsSeq(RemoveAt(s, p)) /\ Len(RemoveAt(s, p)) = Len(s) - 1
           /\ \A i \in 1..(p - 1) : RemoveAt(s, p)[i] = s[i]
           /\ \A i \in p..(Len(s) - 1) : RemoveAt(s, p)[i] = s[i + 1]
<1>1. PICK P : s \in Seq(P)
  BY DEF IsSeq
<1>. DEFINE a == SubSeq(s, 1, p - 1)
            b == SubSeq(s, p + 1, Len(s))
<1>2. Len(s) \in Nat
  BY <1>1
<1>3. /\ a \in Seq(P) /\ Len(a) = p - 1 /\ \A i \in 1..(p - 1) : a[i] = s[i]
  BY <1>1
<1>4. /\ b \in Seq(P) /\ Len(b) = Len(s) - p
      /\ \A i \in 1..(Len(s) - p) : b[i] = s[p + i]
  BY <1>1
<1>. HIDE DEF a, b
<1>5. /\ a \o b \in Seq(P) /\ Len(a \o b) = Len(s) - 1
      /\ \A i \in 1..(p - 1) : (a \o b)[i] = a[i]
      /\ \A i \in p..(Len(s) - 1) : (a \o b)[i] = b[i - (p - 1)]
  <2>a. a \in Seq(P)
    BY <1>3
  <2>b. b \in Seq(P)
    BY <1>4
  <2>1. a \o b \in Seq(P) /\ Len(a \o b) = Len(a) + Len(b)
    BY <2>a, <2>b
  <2>2. \A i \in 1..(Len(a) + Len(b)) :
          (a \o b)[i] = IF i <= Len(a) THEN a[i] ELSE b[i - Len(a)]
    BY <2>a, <2>b
  <2>3. Len(a) = p - 1 /\ Len(a) + Len(b) = Len(s) - 1 /\ p - 1 \in Nat
    BY <1>2, <1>3, <1>4
  <2> QED
    BY <1>2, <2>1, <2>2, <2>3
<1>6. RemoveAt(s, p) = a \o b
  BY DEF RemoveAt, a, b
<1>7. \A i \in p..(Len(s) - 1) : i - (p - 1) \in 1..(Len(s) - p) /\ p + (i - (p - 1)) = i + 1
  BY <1>2
<1>8. IsSeq(a \o b)
  BY <1>5 DEF IsSeq
<1> QED
  BY <1>2, <1>3, <1>4, <1>5, <1>6, <1>7, <1>8, ZenonT(60)

LEMMA ReplaceParts ==
    ASSUME NEW s, IsSeq(s), NEW p \in 1..Len(s), NEW e
    PROVE  /\ IsSeq(ReplaceAt(s, p, e)) /\ Len(ReplaceAt(s, p, e)) = Len(s)
           /\ ReplaceAt(s, p, e)[p] = e
           /\ \A i \in 1..Len(s) : i # p => ReplaceAt(s, p, e)[i] = s[i]
<1>1. PICK P : s \in Seq(P)
  BY DEF IsSeq
<1>2. ReplaceAt(s, p, e) \in Seq(P \cup {e})
  BY <1>1 DEF ReplaceAt
<1>3. IsSeq(ReplaceAt(s, p, e))
  BY <1>2 DEF IsSeq
<1> QED
  BY <1>1, <1>3 DEF ReplaceAt

LEMMA FrontParts ==
    ASSUME NEW s, IsSeq(s), Len(s) > 0
    PROVE  /\ IsSeq(Front(s)) /\ Len(Front(s)) = Len(s) - 1
           /\ \A i \in 1..(Len(s) - 1) : Front(s)[i] = s[i]
<1>1. PICK P : s \in Seq(P)
  BY DEF IsSeq
<1>2. /\ SubSeq(s, 1, Len(s) - 1) \in Seq(P) /\ Len(SubSeq(s, 1, Len(s) - 1)) = Len(s) - 1
      /\ \A i \in 1..(Len(s) - 1) : SubSeq(s, 1, Len(s) - 1)[i] = s[i]
  <2>. DEFINE n == Len(s) - 1
  <2>1. n \in Nat /\ n <= Len(s)
    BY <1>1
  <2>. HIDE DEF n
  <2>2. SubSeq(s, 1, n) \in Seq(P) /\ Len(SubSeq(s, 1, n)) = n
    BY <1>1, <2>1
  <2>3. \A i \in 1..n : SubSeq(s, 1, n)[i] = s[i]
    BY <1>1, <2>1
  <2> QED
    BY <2>2, <2>3 DEF n
<1>3. IsSeq(SubSeq(s, 1, Len(s) - 1))
  BY <1>2 DEF IsSeq
<1> QED
  BY <1>2, <1>3, Zenon DEF Front

\* Position finds the first one with that row.
LEMMA PositionParts ==
    ASSUME NEW ts, IsSeq(ts), NEW r
    PROVE  \/ Position(ts, r) = 0 /\ \A i \in 1..Len(ts) : ts[i].row # r
           \/ /\ Position(ts, r) \in 1..Len(ts)
              /\ ts[Position(ts, r)].row = r
              /\ \A i \in 1..(Position(ts, r) - 1) : ts[i].row # r
<1>. DEFINE I == {i \in 1..Len(ts) : ts[i].row = r}
<1>1. Position(ts, r) = IF I # {} THEN CHOOSE x \in I : \A y \in I : x <= y ELSE 0
  BY DEF Position, SelectInSeq, Min
<1>2. Len(ts) \in Nat
  BY SeqParts
<1>3. CASE I = {}
  BY <1>1, <1>3
<1>4. CASE I # {}
  <2>1. \E x \in I : \A y \in I : x <= y
    <3>1. I \subseteq Nat
      OBVIOUS
    <3>. HIDE DEF I
    <3> QED
      BY <1>4, <3>1, SmallestOf
  <2>2. Position(ts, r) \in I /\ \A y \in I : Position(ts, r) <= y
    <3>. HIDE DEF I
    <3> QED
      BY <1>1, <1>4, <2>1
  <2>3. \A i \in 1..(Position(ts, r) - 1) : i \in 1..Len(ts) /\ ~(Position(ts, r) <= i)
    BY <1>2, <2>2
  <2> QED
    BY <2>2, <2>3
<1> QED
  BY <1>3, <1>4

----------------------------------------------------------------------------
(* The order of the rows of a table                                        *)

Numbered(r) == r.by \in Nat /\ r.id \in Nat
Table(R) == IsFiniteSet(R) /\ Keyed(R) /\ \A r \in R : Numbered(r)

\* Before is a strict order, total on rows with different keys.
LEMMA Ordered ==
    ASSUME NEW r, NEW s, NEW q, Numbered(r), Numbered(s), Numbered(q)
    PROVE  /\ ~Before(r, r)
           /\ Before(r, s) => ~Before(s, r)
           /\ r.id # s.id => Before(r, s) \/ Before(s, r)
           /\ Before(r, s) /\ Before(s, q) => Before(r, q)
           /\ ~Before(s, r) /\ Before(s, q) => Before(r, q)
           /\ Before(r, s) /\ ~Before(q, s) => Before(r, q)
BY DEF Before, Numbered

\* Part of a table is a table.
LEMMA SubTable ==
    ASSUME NEW R, Table(R), NEW Q \in SUBSET R PROVE Table(Q)
BY FS_Subset DEF Table, Keyed

\* The rows that come before one, and how many they are.
LEMMA Ranks ==
    ASSUME NEW R, Table(R),
           NEW rank, rank = [r \in R |-> Cardinality({s \in R : Before(s, r)})]
    PROVE  /\ Cardinality(R) \in Nat
           /\ \A r, s \in R : Before(r, s) => rank[r] < rank[s]
           /\ \A r, s \in R : rank[r] = rank[s] => r = s
           /\ \A k \in 0..(Cardinality(R) - 1) : \E r \in R : rank[r] = k
<1>. DEFINE n == Cardinality(R)
            Pred(r) == {s \in R : Before(s, r)}
<1>1. n \in Nat /\ IsFiniteSet(R) /\ \A r \in R : Numbered(r)
  BY FS_CardinalityType DEF Table
<1>2. \A r \in R : IsFiniteSet(Pred(r)) /\ rank[r] = Cardinality(Pred(r)) /\ rank[r] \in Nat
  <2>. TAKE r \in R
  <2>1. IsFiniteSet(Pred(r))
    BY <1>1, FS_Subset
  <2>2. rank[r] = Cardinality(Pred(r))
    OBVIOUS
  <2>. HIDE DEF Pred
  <2> QED
    BY <2>1, <2>2, FS_CardinalityType
<1>3. ASSUME NEW Q \in SUBSET R, NEW r \in Q
      PROVE  Pred(r) \subseteq Q => rank[r] < Cardinality(Q) /\ Cardinality(Q) \in Nat
  <2>. HAVE Pred(r) \subseteq Q
  <2>1. r \notin Pred(r)
    BY <1>1, Ordered
  <2>2. IsFiniteSet(Q)
    BY <1>1, FS_Subset
  <2>3. Cardinality(Pred(r) \cup {r}) = rank[r] + 1
    <3>. DEFINE S == Pred(r)
    <3>1. IsFiniteSet(S) /\ rank[r] = Cardinality(S) /\ r \notin S
      BY <1>2, <2>1
    <3>. HIDE DEF S
    <3>2. Cardinality(S \cup {r}) = Cardinality(S) + 1
      BY <3>1, FS_AddElement
    <3> QED
      BY <3>1, <3>2 DEF S
  <2>4. Pred(r) \cup {r} \subseteq Q
    OBVIOUS
  <2>. HIDE DEF Pred
  <2>5. Cardinality(Pred(r) \cup {r}) <= Cardinality(Q) /\ Cardinality(Q) \in Nat
    BY <2>2, <2>4, FS_Subset, FS_CardinalityType
  <2>6. rank[r] \in Nat
    BY <1>2
  <2> QED
    BY <2>3, <2>5, <2>6
<1>4. \A r, s \in R : Before(r, s) => rank[r] < rank[s]
  <2>. TAKE r \in R, s \in R
  <2>. HAVE Before(r, s)
  <2>. DEFINE Q == Pred(s)
  <2>1. Q \in SUBSET R /\ r \in Q /\ Pred(r) \subseteq Q
    BY <1>1, Ordered
  <2>2. rank[s] = Cardinality(Q)
    BY <1>2
  <2>. HIDE DEF Q, Pred
  <2> QED
    BY <1>3, <2>1, <2>2
<1>5. \A r, s \in R : rank[r] = rank[s] => r = s
  <2>. TAKE r \in R, s \in R
  <2>. SUFFICES ASSUME r # s PROVE rank[r] # rank[s]
    OBVIOUS
  <2>1. Before(r, s) \/ Before(s, r)
    BY <1>1, Ordered DEF Table, Keyed
  <2>2. rank[r] \in Nat /\ rank[s] \in Nat
    BY <1>2
  <2> QED
    BY <1>4, <2>1, <2>2
<1>6. \A r \in R : rank[r] \in 0..(n - 1)
  <2>. TAKE r \in R
  <2>1. Pred(r) \subseteq R /\ R \in SUBSET R
    OBVIOUS
  <2>2. rank[r] < n
    <3>. HIDE DEF Pred
    <3> QED
      BY <1>3, <2>1
  <2>3. rank[r] \in Nat
    BY <1>2
  <2> QED
    BY <1>1, <2>2, <2>3
<1>7. \A k \in 0..(n - 1) : \E r \in R : rank[r] = k
  <2>. DEFINE I == {rank[r] : r \in R}
              J == 0..(n - 1)
  <2>1. rank \in [R -> I]
    OBVIOUS
  <2>2. IsFiniteSet(J) /\ Cardinality(J) = n
    <3>. DEFINE a == 0
                b == n - 1
    <3>1. a \in Int /\ b \in Int
      BY <1>1
    <3>2. (IF a > b THEN 0 ELSE b - a + 1) = n
      BY <1>1
    <3>. HIDE DEF a, b
    <3>3. IsFiniteSet(a..b) /\ Cardinality(a..b) = IF a > b THEN 0 ELSE b - a + 1
      BY <3>1, FS_Interval, Zenon
    <3> QED
      BY <3>2, <3>3 DEF a, b
  <2>3. I \subseteq J
    BY <1>6
  <2>4. rank \in Bijection(R, I)
    BY <1>5, <2>1 DEF Bijection, Injection, Surjection, IsInjective
  <2>5. IsFiniteSet(I) /\ Cardinality(I) = n
    <3>. HIDE DEF I, J
    <3>1. ExistsBijection(R, I)
      BY <2>4 DEF ExistsBijection
    <3> QED
      BY <1>1, <3>1, FS_Bijection
  <2>6. I = J
    <3>. HIDE DEF I, J
    <3> QED
      BY <2>2, <2>3, <2>5, FS_Subset
  <2> QED
    BY <2>6
<1> QED
  BY <1>1, <1>4, <1>5, <1>7

Sorted(ts) == \A i, j \in 1..Len(ts) : i < j => Before(ts[i].row, ts[j].row)
Holds(ts, r) == \E i \in 1..Len(ts) : ts[i].row = r
Among(us, ts) == \A i \in 1..Len(us) : \E j \in 1..Len(ts) : us[i] = ts[j]

\* ts holds rows of R, in order and from the first on, and no other.
Begins(ts, R) ==
    /\ IsSeq(ts) /\ Sorted(ts)
    /\ \A i \in 1..Len(ts) : ts[i].row \in R
    /\ \A r \in R : ~Holds(ts, r) => \A i \in 1..Len(ts) : Before(ts[i].row, r)

\* All of them, or as many as the limit lets through.
Fills(ts, R, limit) ==
    /\ Begins(ts, R)
    /\ limit > 0 => Len(ts) <= limit
    /\ limit = 0 \/ Len(ts) < limit => \A r \in R : Holds(ts, r)

\* InOrder is the rows of a table, sorted.
LEMMA InOrderIs ==
    ASSUME NEW R, Table(R)
    PROVE  /\ IsSeq(InOrder(R)) /\ Len(InOrder(R)) = Cardinality(R)
           /\ \A i \in 1..Len(InOrder(R)) : InOrder(R)[i] \in R
           /\ \A i, j \in 1..Len(InOrder(R)) :
                    i < j => Before(InOrder(R)[i], InOrder(R)[j])
           /\ \A r \in R : \E i \in 1..Len(InOrder(R)) : InOrder(R)[i] = r
<1>. DEFINE n == Cardinality(R)
            rank == [r \in R |-> Cardinality({s \in R : Before(s, r)})]
            nth(i) == CHOOSE r \in R : Cardinality({s \in R : Before(s, r)}) = i - 1
            f == [i \in 1..n |-> nth(i)]
<1>1. f = InOrder(R)
  BY DEF InOrder
<1>2. \A r \in R : rank[r] = Cardinality({s \in R : Before(s, r)})
  OBVIOUS
<1>3. \A i \in 1..n : nth(i) = CHOOSE r \in R : rank[r] = i - 1
  OBVIOUS
<1>4. /\ n \in Nat
      /\ \A r, s \in R : Before(r, s) => rank[r] < rank[s]
      /\ \A r, s \in R : rank[r] = rank[s] => r = s
      /\ \A k \in 0..(n - 1) : \E r \in R : rank[r] = k
  <2>. DEFINE g == rank
  <2>1. g = [r \in R |-> Cardinality({s \in R : Before(s, r)})]
    OBVIOUS
  <2>. HIDE DEF g
  <2>2. /\ n \in Nat
        /\ \A r, s \in R : Before(r, s) => g[r] < g[s]
        /\ \A r, s \in R : g[r] = g[s] => r = s
        /\ \A k \in 0..(n - 1) : \E r \in R : g[r] = k
    BY <2>1, Ranks
  <2> QED
    BY <2>2 DEF g
<1>5. \A r \in R : rank[r] \in 0..(n - 1)
  <2>. TAKE r \in R
  <2>. DEFINE S == {s \in R : Before(s, r)}
  <2>1. IsFiniteSet(R) /\ r \notin S /\ S \in SUBSET R
    BY Ordered DEF Table
  <2>2. rank[r] = Cardinality(S)
    OBVIOUS
  <2>. HIDE DEF S
  <2>3. IsFiniteSet(S) /\ Cardinality(S) <= n /\ Cardinality(S) \in Nat
    BY <2>1, FS_Subset, FS_CardinalityType
  <2>4. Cardinality(S) # n
    BY <2>1, FS_Subset
  <2> QED
    BY <1>4, <2>2, <2>3, <2>4
<1>. HIDE DEF rank, nth
<1>6. \A i \in 1..n : f[i] \in R /\ rank[f[i]] = i - 1
  <2>. TAKE i \in 1..n
  <2>1. i - 1 \in 0..(n - 1)
    BY <1>4
  <2>2. PICK r \in R : rank[r] = i - 1
    BY <1>4, <2>1
  <2>3. nth(i) \in R /\ rank[nth(i)] = i - 1
    BY <1>3, <2>2
  <2> QED
    BY <2>3
<1>7. f = [i \in 1..n |-> f[i]]
  OBVIOUS
<1>8. DOMAIN f = 1..n
  OBVIOUS
<1>. HIDE DEF f
<1>9. IsSeq(f) /\ Len(f) = n
  BY <1>4, <1>7, <1>8, FcnIsSeq, SeqParts
<1>10. \A i, j \in 1..n : i < j => Before(f[i], f[j])
  <2>. TAKE i \in 1..n, j \in 1..n
  <2>. HAVE i < j
  <2>1. f[i] \in R /\ f[j] \in R /\ rank[f[i]] = i - 1 /\ rank[f[j]] = j - 1
    BY <1>6
  <2>2. f[i] # f[j] /\ ~(rank[f[j]] < rank[f[i]])
    BY <1>4, <2>1
  <2>3. f[i].id # f[j].id /\ Numbered(f[i]) /\ Numbered(f[j])
    BY <2>1, <2>2 DEF Table, Keyed
  <2> QED
    BY <1>4, <2>1, <2>2, <2>3, Ordered
<1>11. \A r \in R : \E i \in 1..n : f[i] = r
  <2>. TAKE r \in R
  <2>1. rank[r] + 1 \in 1..n /\ (rank[r] + 1) - 1 = rank[r]
    BY <1>4, <1>5
  <2>2. f[rank[r] + 1] \in R /\ rank[f[rank[r] + 1]] = rank[r]
    BY <1>6, <2>1
  <2> QED
    BY <1>4, <2>1, <2>2
<1>12. /\ IsSeq(f) /\ Len(f) = n
       /\ \A i \in 1..Len(f) : f[i] \in R
       /\ \A i, j \in 1..Len(f) : i < j => Before(f[i], f[j])
       /\ \A r \in R : \E i \in 1..Len(f) : f[i] = r
  BY <1>6, <1>9, <1>10, <1>11
<1> QED
  BY <1>1, <1>12

\* There is one way to begin a table, and one to fill a limit from it.
LEMMA BeginsSame ==
    ASSUME NEW R, Table(R), NEW a, Begins(a, R), NEW b, Begins(b, R)
    PROVE  \A i \in 1..Len(a) : i \in 1..Len(b) => a[i].row = b[i].row
<1>1. /\ Len(a) \in Nat /\ Len(b) \in Nat
      /\ \A r \in R : Numbered(r)
      /\ \A r, s \in R : r # s => r.id # s.id
  BY SeqParts DEF Begins, Table, Keyed
<1>. DEFINE D == {i \in 1..Len(a) : i \in 1..Len(b) /\ a[i].row # b[i].row}
<1>. SUFFICES ASSUME D # {} PROVE FALSE
  OBVIOUS
<1>2. PICK i \in D : \A j \in D : i <= j
  <2>1. D \subseteq Nat
    OBVIOUS
  <2>. HIDE DEF D
  <2> QED
    BY <2>1, SmallestOf
<1>3. \A j \in 1..(i - 1) : j \in 1..Len(a) /\ j \in 1..Len(b) /\ a[j].row = b[j].row
  BY <1>1, <1>2
<1>4. a[i].row \in R /\ b[i].row \in R /\ a[i].row # b[i].row
  BY <1>2 DEF Begins
<1>5. Before(a[i].row, b[i].row) \/ Before(b[i].row, a[i].row)
  BY <1>1, <1>4, Ordered
<1>6. ASSUME NEW u, NEW v, Begins(u, R), Begins(v, R),
             i \in 1..Len(u), i \in 1..Len(v), Before(u[i].row, v[i].row),
             \A j \in 1..(i - 1) : /\ j \in 1..Len(u) /\ j \in 1..Len(v)
                                   /\ u[j].row = v[j].row
      PROVE  FALSE
  <2>1. u[i].row \in R /\ v[i].row \in R /\ Numbered(u[i].row) /\ Numbered(v[i].row)
    BY <1>1, <1>6 DEF Begins
  <2>2. ~Before(v[i].row, u[i].row)
    BY <1>6, <2>1, Ordered
  <2>3. Holds(v, u[i].row)
    BY <1>6, <2>1, <2>2 DEF Begins
  <2>4. PICK j \in 1..Len(v) : v[j].row = u[i].row
    BY <2>3 DEF Holds
  <2>5. j < i
    <3>1. ~(i < j) /\ i # j
      BY <1>6, <2>1, <2>2, <2>4, Ordered DEF Begins, Sorted
    <3> QED
      BY <3>1, <1>2
  <2>6. u[j].row = u[i].row /\ j \in 1..Len(u)
    BY <1>6, <2>4, <2>5
  <2> QED
    BY <1>6, <2>1, <2>5, <2>6, Ordered DEF Begins, Sorted
<1>7. i \in 1..Len(a) /\ i \in 1..Len(b)
  BY <1>2
<1> QED
  BY <1>3, <1>5, <1>6, <1>7

\* Two lists that fill the same limit from one table hold the same rows.
LEMMA FillsSame ==
    ASSUME NEW R, Table(R), NEW limit \in Nat,
           NEW a, Fills(a, R, limit), NEW b, Fills(b, R, limit)
    PROVE  Len(a) = Len(b) /\ \A i \in 1..Len(a) : a[i].row = b[i].row
<1>1. Len(a) \in Nat /\ Len(b) \in Nat
  BY SeqParts DEF Fills, Begins
<1>2. ASSUME NEW u, NEW v, Fills(u, R, limit), Fills(v, R, limit),
             Len(u) \in Nat, Len(v) \in Nat, Len(u) < Len(v)
      PROVE  FALSE
  <2>1. limit = 0 \/ Len(u) < limit
    BY <1>2 DEF Fills
  <2>. DEFINE k == Len(u) + 1
  <2>2. k \in 1..Len(v) /\ v[k].row \in R /\ Numbered(v[k].row)
    BY <1>2 DEF Fills, Begins, Table
  <2>3. Holds(u, v[k].row)
    BY <1>2, <2>1, <2>2 DEF Fills
  <2>4. PICK j \in 1..Len(u) : u[j].row = v[k].row
    BY <2>3 DEF Holds
  <2>5. j \in 1..Len(v) /\ j < k
    BY <1>2
  <2>6. u[j].row = v[j].row
    BY <1>2, <2>5, BeginsSame DEF Fills
  <2>7. Before(v[j].row, v[k].row)
    BY <1>2, <2>2, <2>5 DEF Fills, Begins, Sorted
  <2> QED
    BY <2>2, <2>4, <2>6, <2>7, Ordered
<1>3. Len(a) = Len(b)
  BY <1>1, <1>2
<1> QED
  BY <1>3, BeginsSame DEF Fills

\* The first n of a sequence, or all of it where n is 0.
LEMMA FirstParts ==
    ASSUME NEW s, IsSeq(s), NEW n \in Nat
    PROVE  /\ IsSeq(FirstOf(s, n))
           /\ Len(FirstOf(s, n)) = IF n = 0 \/ Len(s) <= n THEN Len(s) ELSE n
           /\ \A i \in 1..Len(FirstOf(s, n)) : i \in 1..Len(s) /\ FirstOf(s, n)[i] = s[i]
<1>1. PICK P : s \in Seq(P)
  BY DEF IsSeq
<1>2. CASE n = 0 \/ Len(s) <= n
  <2>1. FirstOf(s, n) = s
    BY <1>2 DEF FirstOf
  <2> QED
    BY <1>2, <2>1
<1>3. CASE ~(n = 0 \/ Len(s) <= n)
  <2>1. FirstOf(s, n) = SubSeq(s, 1, n)
    BY <1>3 DEF FirstOf
  <2>2. n <= Len(s) /\ n \in 1..Len(s)
    BY <1>1, <1>3
  <2>3. SubSeq(s, 1, n) \in Seq(P) /\ Len(SubSeq(s, 1, n)) = n
    BY <1>1, <2>2
  <2>4. \A i \in 1..n : SubSeq(s, 1, n)[i] = s[i] /\ i \in 1..Len(s)
    BY <1>1, <2>2
  <2>5. IsSeq(SubSeq(s, 1, n))
    BY <2>3 DEF IsSeq
  <2> QED
    BY <1>3, <2>1, <2>3, <2>4, <2>5
<1> QED
  BY <1>2, <1>3

\* The first rows of a table, whatever tree each has become, fill the limit.
LEMMA RowsFill ==
    ASSUME NEW R, Table(R), NEW limit \in Nat, NEW ts, IsSeq(ts),
           Len(ts) = Len(FirstOf(InOrder(R), limit)),
           \A i \in 1..Len(ts) : ts[i].row = FirstOf(InOrder(R), limit)[i]
    PROVE  Fills(ts, R, limit)
<1>. DEFINE s == InOrder(R)
            m == Len(ts)
<1>1. /\ IsSeq(s) /\ Len(s) \in Nat
      /\ \A i \in 1..Len(s) : s[i] \in R
      /\ \A i, j \in 1..Len(s) : i < j => Before(s[i], s[j])
      /\ \A r \in R : \E i \in 1..Len(s) : s[i] = r
  BY InOrderIs, SeqParts
<1>. HIDE DEF s
<1>2. /\ m = IF limit = 0 \/ Len(s) <= limit THEN Len(s) ELSE limit
      /\ \A i \in 1..m : i \in 1..Len(s) /\ ts[i].row = s[i]
  <2>1. /\ Len(FirstOf(s, limit)) = IF limit = 0 \/ Len(s) <= limit THEN Len(s) ELSE limit
        /\ \A i \in 1..Len(FirstOf(s, limit)) :
              i \in 1..Len(s) /\ FirstOf(s, limit)[i] = s[i]
    BY <1>1, FirstParts
  <2>2. m = Len(FirstOf(s, limit)) /\ \A i \in 1..m : ts[i].row = FirstOf(s, limit)[i]
    BY DEF s
  <2> QED
    BY <2>1, <2>2
<1>. HIDE DEF m
<1>3. \A r \in R : \E i \in 1..Len(s) : s[i] = r /\ (i \in 1..m => Holds(ts, r))
  <2>. TAKE r \in R
  <2>1. PICK i \in 1..Len(s) : s[i] = r
    BY <1>1
  <2>2. i \in 1..m => Holds(ts, r)
    BY <1>2, <2>1 DEF Holds, m
  <2> QED
    BY <2>1, <2>2
<1>4. Sorted(ts)
  BY <1>1, <1>2 DEF Sorted, m
<1>5. \A r \in R : ~Holds(ts, r) => \A i \in 1..m : Before(ts[i].row, r)
  <2>. TAKE r \in R
  <2>. HAVE ~Holds(ts, r)
  <2>. TAKE i \in 1..m
  <2>1. PICK k \in 1..Len(s) : s[k] = r /\ k \notin 1..m
    BY <1>3
  <2>2. i < k
    BY <1>1, <1>2, <2>1
  <2> QED
    BY <1>1, <1>2, <2>1, <2>2
<1>6. Begins(ts, R)
  BY <1>1, <1>2, <1>4, <1>5 DEF Begins, m
<1>7. limit = 0 \/ m < limit => m = Len(s)
  BY <1>1, <1>2
<1>8. limit > 0 => m <= limit
  BY <1>1, <1>2
<1> QED
  BY <1>3, <1>6, <1>7, <1>8 DEF Fills, m

\* What fills the limit is what the statement of the query returns.
LEMMA FillsRows ==
    ASSUME NEW R, Table(R), NEW limit \in Nat, NEW ts, Fills(ts, R, limit)
    PROVE  /\ Len(ts) = Len(FirstOf(InOrder(R), limit))
           /\ \A i \in 1..Len(ts) : ts[i].row = FirstOf(InOrder(R), limit)[i]
<1>. DEFINE rows == FirstOf(InOrder(R), limit)
            us == Leaves(rows)
<1>1. IsSeq(rows) /\ Len(rows) \in Nat /\ DOMAIN rows = 1..Len(rows)
  BY InOrderIs, FirstParts, SeqParts
<1>2. IsSeq(us)
  <2>. HIDE DEF rows
  <2> QED
    BY <1>1, LeavesIsSeq
<1>3. Len(us) = Len(rows) /\ \A i \in 1..Len(us) : us[i].row = rows[i]
  <2>. HIDE DEF rows
  <2>1. DOMAIN us = 1..Len(rows) /\ \A i \in 1..Len(rows) : us[i].row = rows[i]
    BY <1>1 DEF Leaves, Leaf
  <2>2. DOMAIN us = 1..Len(us) /\ Len(us) \in Nat
    BY <1>2, SeqParts
  <2>3. Len(us) = Len(rows)
    BY <1>1, <2>1, <2>2
  <2> QED
    BY <2>1, <2>3
<1>4. Fills(us, R, limit)
  <2>. HIDE DEF us
  <2> QED
    BY <1>2, <1>3, RowsFill
<1>. HIDE DEF us, rows
<1> QED
  BY <1>3, <1>4, FillsSame DEF rows

----------------------------------------------------------------------------
(* Sorted sequences under the steps of the pipeline                        *)

\* Place counts the rows before this one: they are the first ones.
LEMMA PlaceParts ==
    ASSUME NEW ts, IsSeq(ts), Sorted(ts), \A i \in 1..Len(ts) : Numbered(ts[i].row),
           NEW r, Numbered(r)
    PROVE  /\ Place(ts, r) \in 1..(Len(ts) + 1)
           /\ \A i \in 1..(Place(ts, r) - 1) : Before(ts[i].row, r)
           /\ \A i \in Place(ts, r)..Len(ts) : ~Before(ts[i].row, r)
<1>. DEFINE n == Len(ts)
            P == {i \in 1..n : Before(ts[i].row, r)}
            Q == {i \in 1..n : ~Before(ts[i].row, r)}
<1>1. n \in Nat /\ DOMAIN ts = 1..n
  BY SeqParts
<1>2. Place(ts, r) = 1 + Cardinality(P)
  BY <1>1 DEF Place
<1>. HIDE DEF n
<1>3. CASE Q = {}
  <2>1. P = 1..n
    BY <1>3
  <2>2. Cardinality(1..n) = n
    BY <1>1, FS_Interval
  <2>3. Place(ts, r) = n + 1
    <3>. HIDE DEF P, Q
    <3>1. Cardinality(P) = n
      BY <2>1, <2>2
    <3> QED
      BY <1>1, <1>2, <3>1
  <2> QED
    BY <1>1, <1>3, <2>3 DEF n
<1>4. CASE Q # {}
  <2>1. PICK k \in Q : \A j \in Q : k <= j
    <3>1. Q \subseteq Nat
      OBVIOUS
    <3>. HIDE DEF Q
    <3> QED
      BY <1>4, <3>1, SmallestOf
  <2>2. \A i \in 1..(k - 1) : i \in 1..n /\ Before(ts[i].row, r)
    BY <1>1, <2>1
  <2>3. \A i \in k..n : ~Before(ts[i].row, r)
    <3>. TAKE i \in k..n
    <3>1. CASE i = k
      BY <2>1, <3>1
    <3>2. CASE k < i
      <4>1. Before(ts[k].row, ts[i].row)
        BY <1>1, <2>1, <3>2 DEF Sorted, n
      <4>2. Numbered(ts[k].row) /\ Numbered(ts[i].row) /\ ~Before(ts[k].row, r)
        BY <1>1, <2>1, <3>2 DEF n
      <4> QED
        BY <4>1, <4>2, Ordered
    <3> QED
      BY <1>1, <2>1, <3>1, <3>2
  <2>4. P = 1..(k - 1)
    BY <1>1, <2>1, <2>2, <2>3
  <2>5. Cardinality(1..(k - 1)) = k - 1
    BY <1>1, <2>1, FS_Interval
  <2>6. Place(ts, r) = k
    <3>1. k \in 1..n
      BY <2>1
    <3>. HIDE DEF P, Q
    <3>2. Cardinality(P) = k - 1
      BY <2>4, <2>5
    <3> QED
      BY <1>1, <1>2, <3>1, <3>2
  <2> QED
    BY <1>1, <2>1, <2>2, <2>3, <2>6 DEF n
<1> QED
  BY <1>3, <1>4

\* What Begins says, spelled out for a table.
LEMMA BeginsParts ==
    ASSUME NEW ts, NEW R, Begins(ts, R), Table(R)
    PROVE  /\ IsSeq(ts) /\ Sorted(ts) /\ Len(ts) \in Nat
           /\ \A i \in 1..Len(ts) : ts[i].row \in R /\ Numbered(ts[i].row)
           /\ \A i, j \in 1..Len(ts) : ts[i].row = ts[j].row => i = j
           /\ \A i, j \in 1..Len(ts) : ts[i].row.id = ts[j].row.id => i = j
           /\ \A i, j \in 1..Len(ts) : i < j => Before(ts[i].row, ts[j].row)
<1>1. IsSeq(ts) /\ Sorted(ts) /\ Len(ts) \in Nat
  BY SeqParts DEF Begins
<1>2. \A i \in 1..Len(ts) : ts[i].row \in R /\ Numbered(ts[i].row)
  BY DEF Begins, Table
<1>3. \A i, j \in 1..Len(ts) : ts[i].row = ts[j].row => i = j
  <2>. TAKE i \in 1..Len(ts), j \in 1..Len(ts)
  <2>. HAVE ts[i].row = ts[j].row
  <2>1. ~(i < j) /\ ~(j < i)
    BY <1>1, <1>2, Ordered DEF Sorted
  <2> QED
    BY <1>1, <2>1
<1> QED
  BY <1>1, <1>2, <1>3 DEF Table, Keyed, Sorted

\* A row that is new to the table goes to its place.
LEMMA PlacedParts ==
    ASSUME NEW R, Table(R), NEW ts, Begins(ts, R), NEW t, Numbered(t.row),
           \A r \in R : r.id # t.row.id
    PROVE  /\ IsSeq(Placed(ts, t)) /\ Sorted(Placed(ts, t))
           /\ Len(Placed(ts, t)) = Len(ts) + 1
           /\ \A r : Holds(Placed(ts, t), r) <=> Holds(ts, r) \/ r = t.row
           /\ \A i \in 1..Len(Placed(ts, t)) :
                Placed(ts, t)[i] = t \/ \E j \in 1..Len(ts) : Placed(ts, t)[i] = ts[j]
<1>. DEFINE p == Place(ts, t.row)
            us == InsertAt(ts, p, t)
            n == Len(ts)
<1>1. us = Placed(ts, t)
  BY DEF Placed
<1>2. /\ IsSeq(ts) /\ Sorted(ts) /\ n \in Nat
      /\ \A i \in 1..n : ts[i].row \in R /\ Numbered(ts[i].row)
      /\ \A i, j \in 1..n : i < j => Before(ts[i].row, ts[j].row)
  BY BeginsParts
<1>3. /\ p \in 1..(n + 1)
      /\ \A i \in 1..(p - 1) : Before(ts[i].row, t.row)
      /\ \A i \in p..n : ~Before(ts[i].row, t.row)
  BY <1>2, PlaceParts
<1>4. \A i \in p..n : Before(t.row, ts[i].row)
  <2>. TAKE i \in p..n
  <2>1. i \in 1..n /\ ~Before(ts[i].row, t.row)
    BY <1>2, <1>3
  <2>2. ts[i].row.id # t.row.id /\ Numbered(ts[i].row)
    BY <1>2, <2>1
  <2> QED
    BY <2>1, <2>2, Ordered
<1>. HIDE DEF p
<1>5. /\ IsSeq(us) /\ Len(us) = n + 1 /\ us[p] = t
      /\ \A i \in 1..(p - 1) : us[i] = ts[i]
      /\ \A i \in (p + 1)..(n + 1) : us[i] = ts[i - 1]
  BY <1>2, <1>3, InsertParts
<1>. HIDE DEF us, n
<1>6. \A i \in 1..(n + 1) :
        \/ i < p /\ us[i] = ts[i] /\ i \in 1..n /\ i \in 1..(p - 1)
        \/ i = p /\ us[i] = t
        \/ p < i /\ us[i] = ts[i - 1] /\ i - 1 \in 1..n /\ i - 1 \in p..n
  BY <1>2, <1>3, <1>5
<1>7. \A i, j \in 1..(n + 1) : i < j => Before(us[i].row, us[j].row)
  <2>. TAKE i \in 1..(n + 1), j \in 1..(n + 1)
  <2>. HAVE i < j
  <2>1. CASE j < p
    BY <1>2, <1>3, <1>6, <2>1
  <2>2. CASE j = p
    BY <1>2, <1>3, <1>6, <2>2
  <2>3. CASE p < j /\ i = p
    BY <1>2, <1>3, <1>4, <1>6, <2>3
  <2>4. CASE p < j /\ p < i
    <3>1. i - 1 < j - 1
      OBVIOUS
    <3>2. us[i] = ts[i - 1] /\ us[j] = ts[j - 1] /\ i - 1 \in 1..n /\ j - 1 \in 1..n
      BY <1>3, <1>6, <2>4
    <3> QED
      BY <1>2, <3>1, <3>2
  <2>5. CASE p < j /\ i < p
    <3>1. us[i] = ts[i] /\ us[j] = ts[j - 1] /\ i \in 1..n /\ j - 1 \in 1..n /\ i < j - 1
      BY <1>3, <1>6, <2>5
    <3> QED
      BY <1>2, <3>1
  <2> QED
    BY <1>3, <2>1, <2>2, <2>3, <2>4, <2>5
<1>8. \A r : Holds(us, r) <=> Holds(ts, r) \/ r = t.row
  <2>. TAKE r
  <2>1. ASSUME Holds(us, r) PROVE Holds(ts, r) \/ r = t.row
    <3>1. PICK i \in 1..(n + 1) : us[i].row = r
      BY <1>5, <2>1 DEF Holds
    <3> QED
      BY <1>6, <3>1 DEF Holds, n
  <2>2. ASSUME Holds(ts, r) PROVE Holds(us, r)
    <3>1. PICK i \in 1..n : ts[i].row = r
      BY <2>2 DEF Holds, n
    <3>2. \/ i \in 1..(p - 1)
          \/ i + 1 \in (p + 1)..(n + 1) /\ (i + 1) - 1 = i
      BY <1>2, <1>3
    <3>3. us[i].row = r \/ (us[i + 1].row = r /\ i + 1 \in 1..(n + 1))
      BY <1>2, <1>3, <1>5, <3>1, <3>2
    <3>4. i \in 1..(n + 1)
      BY <1>2
    <3> QED
      BY <1>5, <3>3, <3>4 DEF Holds
  <2>3. Holds(us, t.row)
    BY <1>3, <1>5 DEF Holds
  <2> QED
    BY <2>1, <2>2, <2>3
<1>9. \A i \in 1..Len(us) : us[i] = t \/ \E j \in 1..Len(ts) : us[i] = ts[j]
  BY <1>5, <1>6 DEF n
<1>10. Sorted(us)
  BY <1>5, <1>7 DEF Sorted
<1>11. Len(us) = Len(ts) + 1
  BY <1>5 DEF n
<1> QED
  BY <1>1, <1>5, <1>8, <1>9, <1>10, <1>11

\* A row with a new key, before all that is left out, keeps the list a beginning.
LEMMA PlacedBegins ==
    ASSUME NEW R, Table(R), NEW ts, Begins(ts, R), NEW t, Numbered(t.row),
           \A r \in R : r.id # t.row.id,
           \A r \in R : ~Holds(ts, r) => Before(t.row, r)
    PROVE  Begins(Placed(ts, t), R \cup {t.row})
<1>. DEFINE us == Placed(ts, t)
<1>1. /\ IsSeq(us) /\ Sorted(us) /\ Len(us) = Len(ts) + 1
      /\ \A r : Holds(us, r) <=> Holds(ts, r) \/ r = t.row
      /\ \A i \in 1..Len(us) : us[i] = t \/ \E j \in 1..Len(ts) : us[i] = ts[j]
  BY PlacedParts
<1>2. /\ \A i \in 1..Len(ts) : ts[i].row \in R
      /\ \A r \in R : ~Holds(ts, r) => \A i \in 1..Len(ts) : Before(ts[i].row, r)
  BY DEF Begins
<1>. HIDE DEF us
<1>3. \A i \in 1..Len(us) : us[i].row \in R \cup {t.row}
  BY <1>1, <1>2
<1>4. \A r \in R \cup {t.row} : ~Holds(us, r) => \A i \in 1..Len(us) : Before(us[i].row, r)
  <2>. TAKE r \in R \cup {t.row}
  <2>. HAVE ~Holds(us, r)
  <2>1. ~Holds(ts, r) /\ r # t.row
    BY <1>1
  <2>2. r \in R
    BY <2>1
  <2> QED
    BY <1>1, <1>2, <2>1, <2>2
<1>5. Begins(us, R \cup {t.row})
  BY <1>1, <1>3, <1>4 DEF Begins
<1> QED
  BY <1>5 DEF us

\* A list without one of its rows is a beginning of the table without it.
LEMMA RemovedParts ==
    ASSUME NEW R, Table(R), NEW ts, Begins(ts, R), NEW p \in 1..Len(ts)
    PROVE  /\ Begins(RemoveAt(ts, p), R \ {ts[p].row})
           /\ Len(RemoveAt(ts, p)) = Len(ts) - 1
           /\ \A r : Holds(RemoveAt(ts, p), r) <=> Holds(ts, r) /\ r # ts[p].row
           /\ Among(RemoveAt(ts, p), ts)
<1>. DEFINE us == RemoveAt(ts, p)
            n == Len(ts)
<1>1. /\ IsSeq(ts) /\ n \in Nat
      /\ \A i \in 1..n : ts[i].row \in R
      /\ \A i, j \in 1..n : ts[i].row = ts[j].row => i = j
      /\ \A i, j \in 1..n : i < j => Before(ts[i].row, ts[j].row)
  BY BeginsParts
<1>2. /\ IsSeq(us) /\ Len(us) = n - 1
      /\ \A i \in 1..(p - 1) : us[i] = ts[i]
      /\ \A i \in p..(n - 1) : us[i] = ts[i + 1]
  BY <1>1, RemoveParts
<1>. HIDE DEF us
<1>3. \A i \in 1..(n - 1) :
        \/ i < p /\ us[i] = ts[i] /\ i \in 1..n /\ i # p
        \/ p <= i /\ us[i] = ts[i + 1] /\ i + 1 \in 1..n /\ i + 1 # p
  BY <1>1, <1>2
<1>4. \A i, j \in 1..(n - 1) : i < j => Before(us[i].row, us[j].row)
  <2>. TAKE i \in 1..(n - 1), j \in 1..(n - 1)
  <2>. HAVE i < j
  <2>1. PICK k \in 1..n : us[i] = ts[k] /\ ((i < p /\ k = i) \/ (p <= i /\ k = i + 1))
    BY <1>3
  <2>2. PICK l \in 1..n : us[j] = ts[l] /\ ((j < p /\ l = j) \/ (p <= j /\ l = j + 1))
    BY <1>3
  <2>3. k < l
    BY <2>1, <2>2
  <2> QED
    BY <1>1, <2>1, <2>2, <2>3
<1>5. \A i \in 1..(n - 1) : \E j \in 1..n : j # p /\ us[i] = ts[j]
  BY <1>3
<1>6. \A r : Holds(us, r) <=> Holds(ts, r) /\ r # ts[p].row
  <2>. TAKE r
  <2>1. ASSUME Holds(us, r) PROVE Holds(ts, r) /\ r # ts[p].row
    <3>1. PICK i \in 1..(n - 1) : us[i].row = r
      BY <1>2, <2>1 DEF Holds
    <3>2. PICK j \in 1..n : j # p /\ us[i] = ts[j]
      BY <1>5
    <3> QED
      BY <1>1, <3>1, <3>2 DEF Holds
  <2>2. ASSUME Holds(ts, r), r # ts[p].row PROVE Holds(us, r)
    <3>1. PICK j \in 1..n : ts[j].row = r
      BY <2>2 DEF Holds
    <3>2. CASE j < p
      <4>1. j \in 1..(p - 1) /\ j \in 1..(n - 1)
        BY <1>1, <3>2
      <4> QED
        BY <1>2, <3>1, <4>1 DEF Holds
    <3>3. CASE p < j
      <4>1. j - 1 \in p..(n - 1) /\ j - 1 \in 1..(n - 1) /\ (j - 1) + 1 = j
        BY <1>1, <3>3
      <4> QED
        BY <1>2, <3>1, <4>1 DEF Holds
    <3> QED
      BY <1>1, <2>2, <3>1, <3>2, <3>3
  <2> QED
    BY <2>1, <2>2
<1>7. \A i \in 1..(n - 1) : us[i].row \in R \ {ts[p].row}
  BY <1>1, <1>5
<1>8. \A r \in R \ {ts[p].row} : ~Holds(us, r) =>
            \A i \in 1..(n - 1) : Before(us[i].row, r)
  <2>1. \A r \in R : ~Holds(ts, r) => \A i \in 1..n : Before(ts[i].row, r)
    BY DEF Begins
  <2> QED
    BY <1>5, <1>6, <2>1
<1>9. Begins(us, R \ {ts[p].row})
  BY <1>2, <1>4, <1>7, <1>8 DEF Begins, Sorted
<1> QED
  BY <1>2, <1>5, <1>6, <1>9 DEF us, Among

\* A list without its last row still begins the table.
LEMMA FrontBegins ==
    ASSUME NEW R, Table(R), NEW ts, Begins(ts, R), Len(ts) > 0
    PROVE  /\ Begins(Front(ts), R) /\ Len(Front(ts)) = Len(ts) - 1
           /\ \A i \in 1..(Len(ts) - 1) : Front(ts)[i] = ts[i] /\ i \in 1..Len(ts)
           /\ \A r : Holds(Front(ts), r) <=> Holds(ts, r) /\ r # Last(ts).row
<1>. DEFINE us == Front(ts)
            n == Len(ts)
<1>1. /\ IsSeq(ts) /\ n \in Nat
      /\ \A i \in 1..n : ts[i].row \in R /\ Numbered(ts[i].row)
      /\ \A i, j \in 1..n : ts[i].row = ts[j].row => i = j
      /\ \A i, j \in 1..n : i < j => Before(ts[i].row, ts[j].row)
  BY BeginsParts
<1>2. /\ IsSeq(us) /\ Len(us) = n - 1 /\ \A i \in 1..(n - 1) : us[i] = ts[i] /\ i \in 1..n
  BY <1>1, FrontParts
<1>3. n \in 1..n /\ Last(ts) = ts[n]
  BY <1>1 DEF Last
<1>. HIDE DEF us
<1>4. \A r : Holds(us, r) <=> Holds(ts, r) /\ r # ts[n].row
  <2>. TAKE r
  <2>1. ASSUME Holds(us, r) PROVE Holds(ts, r) /\ r # ts[n].row
    <3>1. PICK i \in 1..(n - 1) : us[i].row = r
      BY <1>2, <2>1 DEF Holds
    <3>2. ts[i].row = r /\ i \in 1..n /\ i # n
      BY <1>1, <1>2, <3>1
    <3> QED
      BY <1>1, <1>3, <3>2 DEF Holds
  <2>2. ASSUME Holds(ts, r), r # ts[n].row PROVE Holds(us, r)
    <3>1. PICK i \in 1..n : ts[i].row = r
      BY <2>2 DEF Holds
    <3>2. i \in 1..(n - 1)
      BY <1>1, <2>2, <3>1
    <3> QED
      BY <1>2, <3>1, <3>2 DEF Holds
  <2> QED
    BY <2>1, <2>2
<1>5. \A r \in R : ~Holds(us, r) => \A i \in 1..(n - 1) : Before(us[i].row, r)
  <2>. TAKE r \in R
  <2>. HAVE ~Holds(us, r)
  <2>. TAKE i \in 1..(n - 1)
  <2>1. us[i] = ts[i] /\ i \in 1..n /\ i < n
    BY <1>1, <1>2
  <2>2. CASE r = ts[n].row
    BY <1>1, <1>3, <2>1, <2>2
  <2>3. CASE r # ts[n].row
    <3>1. ~Holds(ts, r)
      BY <1>4, <2>3
    <3> QED
      BY <2>1, <3>1 DEF Begins
  <2> QED
    BY <2>2, <2>3
<1>6. Sorted(us)
  BY <1>1, <1>2 DEF Sorted
<1>7. \A i \in 1..Len(us) : us[i].row \in R
  BY <1>1, <1>2
<1>8. Begins(us, R)
  BY <1>2, <1>5, <1>6, <1>7 DEF Begins
<1> QED
  BY <1>2, <1>3, <1>4, <1>8 DEF us

\* The first row that was left out, put at the end, lengthens the beginning.
LEMMA AppendBegins ==
    ASSUME NEW R, Table(R), NEW ts, Begins(ts, R), NEW t, t.row \in R, ~Holds(ts, t.row),
           \A r \in R : ~Holds(ts, r) /\ r # t.row => Before(t.row, r)
    PROVE  /\ Begins(Append(ts, t), R)
           /\ \A r : Holds(Append(ts, t), r) <=> Holds(ts, r) \/ r = t.row
<1>. DEFINE us == Append(ts, t)
            n == Len(ts)
<1>1. /\ IsSeq(ts) /\ n \in Nat
      /\ \A i \in 1..n : ts[i].row \in R /\ Before(ts[i].row, t.row)
      /\ \A i, j \in 1..n : i < j => Before(ts[i].row, ts[j].row)
      /\ \A r \in R : ~Holds(ts, r) => \A i \in 1..n : Before(ts[i].row, r)
  BY BeginsParts DEF Begins
<1>2. /\ IsSeq(us) /\ Len(us) = n + 1 /\ us[n + 1] = t /\ \A i \in 1..n : us[i] = ts[i]
  BY <1>1, AppendIsSeq, ZenonT(60)
<1>. HIDE DEF us, n
<1>3. \A i \in 1..(n + 1) : i \in 1..n \/ i = n + 1
  BY <1>1
<1>4. n + 1 \in 1..(n + 1) /\ \A i \in 1..n : i \in 1..(n + 1)
  BY <1>1
<1>5. \A i, j \in 1..(n + 1) : i < j => Before(us[i].row, us[j].row)
  <2>. TAKE i \in 1..(n + 1), j \in 1..(n + 1)
  <2>. HAVE i < j
  <2>1. i \in 1..n
    BY <1>1
  <2> QED
    BY <1>1, <1>2, <1>3, <2>1
<1>6. \A r : Holds(us, r) <=> Holds(ts, r) \/ r = t.row
  <2>. TAKE r
  <2>1. Holds(us, r) <=> \E i \in 1..(n + 1) : us[i].row = r
    BY <1>2 DEF Holds
  <2>2. Holds(ts, r) <=> \E i \in 1..n : ts[i].row = r
    BY DEF Holds, n
  <2> QED
    BY <1>2, <1>3, <1>4, <2>1, <2>2
<1>7. \A i \in 1..(n + 1) : us[i].row \in R
  BY <1>1, <1>2, <1>3
<1>8. \A r \in R : ~Holds(us, r) => \A i \in 1..(n + 1) : Before(us[i].row, r)
  BY <1>1, <1>2, <1>3, <1>6
<1>9. Begins(us, R)
  BY <1>2, <1>5, <1>7, <1>8 DEF Begins, Sorted
<1> QED
  BY <1>6, <1>9 DEF us

\* Another tree for the same row changes nothing of what is held.
LEMMA ReplacedFills ==
    ASSUME NEW R, NEW limit, NEW ts, Fills(ts, R, limit), NEW p \in 1..Len(ts),
           NEW u, u.row = ts[p].row
    PROVE  Fills(ReplaceAt(ts, p, u), R, limit)
<1>. DEFINE us == ReplaceAt(ts, p, u)
<1>1. IsSeq(ts) /\ Len(ts) \in Nat
  BY SeqParts DEF Fills, Begins
<1>2. IsSeq(us) /\ Len(us) = Len(ts) /\ \A i \in 1..Len(ts) : us[i].row = ts[i].row
  BY <1>1, ReplaceParts
<1>. HIDE DEF us
<1>3. \A r : Holds(us, r) <=> Holds(ts, r)
  BY <1>2 DEF Holds
<1>4. Fills(us, R, limit)
  BY <1>2, <1>3 DEF Fills, Begins, Sorted
<1> QED
  BY <1>4 DEF us

\* A row that is not there can go from the table, and one that comes later than
\* everything there can come to it.
LEMMA BeginsElsewhere ==
    ASSUME NEW R, NEW ts, Begins(ts, R)
    PROVE  /\ \A r : ~Holds(ts, r) => Begins(ts, R \ {r})
           /\ \A r : (\A i \in 1..Len(ts) : Before(ts[i].row, r)) => Begins(ts, R \cup {r})
<1>1. \A r : ~Holds(ts, r) => \A i \in 1..Len(ts) : ts[i].row # r
  BY DEF Holds
<1> QED
  BY <1>1 DEF Begins

----------------------------------------------------------------------------
(* Pulling: what the statement returns, and the children under their parents *)

KidRows(p, N) == {n \in N : n.of = p /\ Selects(n)}
KidsOf(p, N) == Leaves(InOrder(KidRows(p, N)))
TreeOf(r, N) == [row |-> r, kids |-> KidsOf(r.id, N)]

\* Each row becomes a leaf.
LEMMA LeavesParts ==
    ASSUME NEW rs, IsSeq(rs)
    PROVE  /\ IsSeq(Leaves(rs)) /\ Len(Leaves(rs)) = Len(rs)
           /\ \A i \in 1..Len(rs) : Leaves(rs)[i] = Leaf(rs[i])
<1>1. IsSeq(Leaves(rs)) /\ DOMAIN rs = 1..Len(rs) /\ Len(rs) \in Nat
  BY LeavesIsSeq, SeqParts
<1>2. DOMAIN Leaves(rs) = 1..Len(rs) /\ \A i \in 1..Len(rs) : Leaves(rs)[i] = Leaf(rs[i])
  BY <1>1 DEF Leaves
<1>3. DOMAIN Leaves(rs) = 1..Len(Leaves(rs)) /\ Len(Leaves(rs)) \in Nat
  BY <1>1, SeqParts
<1>4. Len(Leaves(rs)) = Len(rs)
  BY <1>1, <1>2, <1>3
<1> QED
  BY <1>1, <1>2, <1>4

LEMMA LeafRow == \A r : Leaf(r).row = r
BY DEF Leaf

LEMMA NoLimit == \A s : FirstOf(s, 0) = s
BY DEF FirstOf

\* Leaves in order are all of them.
LEMMA LeavesFill ==
    ASSUME NEW R, Table(R) PROVE Fills(Leaves(InOrder(R)), R, 0)
<1>. DEFINE s == InOrder(R)
            ts == Leaves(s)
<1>1. IsSeq(s)
  BY InOrderIs
<1>. HIDE DEF s
<1>2. IsSeq(ts) /\ Len(ts) = Len(s) /\ \A i \in 1..Len(s) : ts[i].row = s[i]
  <2>1. IsSeq(ts) /\ Len(ts) = Len(s) /\ \A i \in 1..Len(s) : ts[i] = Leaf(s[i])
    BY <1>1, LeavesParts
  <2>. HIDE DEF ts
  <2> QED
    BY <2>1, LeafRow
<1>3. FirstOf(s, 0) = s
  BY NoLimit
<1>. HIDE DEF ts
<1>4. Fills(ts, R, 0)
  BY <1>2, <1>3, RowsFill DEF s
<1> QED
  BY <1>4 DEF ts, s

\* The leaves that fill no limit are those of the statement.
LEMMA FillsLeaves ==
    ASSUME NEW R, Table(R), NEW ts, Fills(ts, R, 0),
           \A i \in 1..Len(ts) : ts[i] = Leaf(ts[i].row)
    PROVE  ts = Leaves(InOrder(R))
<1>. DEFINE s == InOrder(R)
            us == Leaves(s)
<1>1. IsSeq(s) /\ IsSeq(ts)
  BY InOrderIs DEF Fills, Begins
<1>2. Len(ts) = Len(s) /\ \A i \in 1..Len(ts) : ts[i].row = s[i]
  BY FillsRows, NoLimit
<1>. HIDE DEF s
<1>3. IsSeq(us) /\ Len(us) = Len(s) /\ \A i \in 1..Len(s) : us[i] = Leaf(s[i])
  BY <1>1, LeavesParts
<1>. HIDE DEF us
<1>4. \A i \in 1..Len(ts) : ts[i] = us[i]
  BY <1>2, <1>3
<1>5. ts = us
  BY <1>1, <1>2, <1>3, <1>4, SameSeq
<1> QED
  BY <1>5 DEF us, s

\* a is what choosing the children of p among the first i has given.
Owned(a, ks, i, p) ==
    /\ IsSeq(a) /\ Sorted(a)
    /\ \A j \in 1..Len(a) : \E m \in 1..i : a[j] = ks[m] /\ ks[m].row.of = p
    /\ \A m \in 1..i : ks[m].row.of = p => Holds(a, ks[m].row)

\* One more child looked at, whether it is this parent's or not.
LEMMA OwnStep ==
    ASSUME NEW ks, NEW n \in Nat,
           \A j, k \in 1..n : j < k => Before(ks[j].row, ks[k].row),
           NEW p, NEW i \in 1..n, NEW a, Owned(a, ks, i - 1, p)
    PROVE  Owned(Own(a, ks[i], p), ks, i, p)
<1>1. /\ IsSeq(a) /\ Sorted(a) /\ Len(a) \in Nat
      /\ \A j \in 1..Len(a) : \E m \in 1..(i - 1) : a[j] = ks[m] /\ ks[m].row.of = p
      /\ \A m \in 1..(i - 1) : ks[m].row.of = p => Holds(a, ks[m].row)
  BY SeqParts DEF Owned
<1>2. \A m \in 1..i : m \in 1..(i - 1) \/ m = i
  OBVIOUS
<1>3. i \in 1..i /\ \A m \in 1..(i - 1) : m \in 1..i /\ m \in 1..n /\ m < i
  OBVIOUS
<1>4. CASE ks[i].row.of # p
  <2>1. Own(a, ks[i], p) = a
    BY <1>4 DEF Own
  <2>2. Owned(a, ks, i, p)
    BY <1>1, <1>2, <1>3, <1>4 DEF Owned
  <2> QED
    BY <2>1, <2>2
<1>5. CASE ks[i].row.of = p
  <2>. DEFINE x == ks[i]
              b == Append(a, x)
              l == Len(a)
  <2>1. Own(a, ks[i], p) = b
    BY <1>5 DEF Own
  <2>2. IsSeq(b) /\ Len(b) = l + 1 /\ b[l + 1] = x /\ \A j \in 1..l : b[j] = a[j]
    <3>1. IsSeq(a)
      BY <1>1
    <3>. HIDE DEF x
    <3> QED
      BY <3>1, AppendIsSeq, ZenonT(60)
  <2>. HIDE DEF b
  <2>3. \A j \in 1..(l + 1) : j \in 1..l \/ j = l + 1
    BY <1>1
  <2>4. \A j \in 1..(l + 1) : \E m \in 1..i : b[j] = ks[m] /\ ks[m].row.of = p
    BY <1>1, <1>3, <1>5, <2>2, <2>3, SMTT(60)
  <2>5. Sorted(b)
    <3>. SUFFICES ASSUME NEW j \in 1..(l + 1), NEW k \in 1..(l + 1), j < k
                  PROVE  Before(b[j].row, b[k].row)
      BY <2>2 DEF Sorted
    <3>1. j \in 1..l
      BY <1>1
    <3>2. CASE k \in 1..l
      BY <1>1, <2>2, <3>1, <3>2 DEF Sorted
    <3>3. CASE k = l + 1
      <4>1. PICK m \in 1..(i - 1) : a[j] = ks[m]
        BY <1>1, <3>1
      <4> QED
        BY <1>3, <2>2, <3>1, <3>3, <4>1
    <3> QED
      BY <2>3, <3>2, <3>3
  <2>6. \A m \in 1..i : ks[m].row.of = p => Holds(b, ks[m].row)
    <3>1. \A r : Holds(a, r) => Holds(b, r)
      <4>. TAKE r
      <4>. HAVE Holds(a, r)
      <4>1. PICK j \in 1..l : a[j].row = r
        BY DEF Holds
      <4>2. j \in 1..(l + 1) /\ b[j].row = r
        BY <1>1, <2>2, <4>1
      <4> QED
        BY <2>2, <4>2 DEF Holds
    <3>2. Holds(b, ks[i].row)
      <4>1. l + 1 \in 1..(l + 1)
        BY <1>1
      <4> QED
        BY <2>2, <4>1 DEF Holds
    <3> QED
      BY <1>1, <1>2, <3>1, <3>2
  <2>7. Owned(b, ks, i, p)
    BY <2>2, <2>4, <2>5, <2>6 DEF Owned
  <2> QED
    BY <2>1, <2>7
<1> QED
  BY <1>4, <1>5

\* Choosing the children of one parent keeps their order.
LEMMA OwnParts ==
    ASSUME NEW ks, Len(ks) \in Nat,
           \A j, k \in 1..Len(ks) : j < k => Before(ks[j].row, ks[k].row), NEW p
    PROVE  Owned(OfParent(ks, p), ks, Len(ks), p)
<1>. DEFINE n == Len(ks)
<1>1. PICK f : Run(f, <<"own", p>>, <<>>, ks) /\ OfParent(ks, p) = f[n]
  BY OwnRun
<1>2. f[0] = <<>> /\ \A i \in 1..n : f[i] = Own(f[i - 1], ks[i], p)
  BY <1>1 DEF Run, Op
<1>3. Owned(<<>>, ks, 0, p)
  BY EmptyIsSeq DEF Owned, Sorted
<1>. DEFINE S == {i \in 0..n : Owned(f[i], ks, i, p)}
<1>4. 0 \in S
  BY <1>2, <1>3
<1>5. \A i \in 1..n : i - 1 \in S => i \in S
  <2>. TAKE i \in 1..n
  <2>. HAVE i - 1 \in S
  <2>1. Owned(f[i - 1], ks, i - 1, p) /\ i \in 0..n
    OBVIOUS
  <2>2. Owned(Own(f[i - 1], ks[i], p), ks, i, p)
    BY <2>1, OwnStep
  <2> QED
    BY <1>2, <2>1, <2>2
<1>6. n \in S
  <2>. HIDE DEF S
  <2> QED
    BY <1>4, <1>5, Along
<1> QED
  BY <1>1, <1>6

\* The children of one parent, out of those of several.
LEMMA OfParentIs ==
    ASSUME NEW Q, Table(Q), NEW p
    PROVE  OfParent(Leaves(InOrder(Q)), p) = Leaves(InOrder({q \in Q : q.of = p}))
<1>. DEFINE ks == Leaves(InOrder(Q))
            P == {q \in Q : q.of = p}
            own == OfParent(ks, p)
<1>1. Fills(ks, Q, 0) /\ Begins(ks, Q)
  BY LeavesFill DEF Fills
<1>2. \A i \in 1..Len(ks) : ks[i].row \in Q /\ ks[i] = Leaf(ks[i].row)
  <2>. DEFINE s == InOrder(Q)
  <2>1. IsSeq(s)
    BY InOrderIs
  <2>. HIDE DEF s
  <2>. DEFINE ls == Leaves(s)
  <2>2. Len(ls) = Len(s) /\ \A i \in 1..Len(s) : ls[i] = Leaf(s[i])
    BY <2>1, LeavesParts
  <2>. HIDE DEF ls
  <2>3. \A i \in 1..Len(ls) : ls[i] = Leaf(ls[i].row)
    BY <2>2, LeafRow
  <2>4. \A i \in 1..Len(ks) : ks[i].row \in Q
    BY <1>1 DEF Begins
  <2> QED
    BY <2>3, <2>4 DEF ls, s
<1>3. \A r \in Q : \E i \in 1..Len(ks) : ks[i].row = r
  BY <1>1 DEF Fills, Holds
<1>. HIDE DEF ks
<1>4. /\ IsSeq(own) /\ Sorted(own)
      /\ \A j \in 1..Len(own) : \E m \in 1..Len(ks) : own[j] = ks[m] /\ ks[m].row.of = p
      /\ \A m \in 1..Len(ks) : ks[m].row.of = p => Holds(own, ks[m].row)
  <2>1. /\ Len(ks) \in Nat
        /\ \A j, k \in 1..Len(ks) : j < k => Before(ks[j].row, ks[k].row)
    BY <1>1, BeginsParts
  <2> QED
    BY <2>1, OwnParts DEF Owned
<1>. HIDE DEF own
<1>5. Fills(own, P, 0)
  <2>1. \A j \in 1..Len(own) : own[j].row \in P
    BY <1>2, <1>4
  <2>2. \A r \in P : Holds(own, r)
    BY <1>3, <1>4
  <2>. HIDE DEF P
  <2> QED
    BY <1>4, <2>1, <2>2 DEF Fills, Begins
<1>6. \A j \in 1..Len(own) : own[j] = Leaf(own[j].row)
  BY <1>2, <1>4
<1>7. Table(P)
  BY SubTable
<1>8. own = Leaves(InOrder(P))
  <2>. HIDE DEF P
  <2> QED
    BY <1>5, <1>6, <1>7, FillsLeaves
<1> QED
  BY <1>8 DEF own, ks


\* The children of each of these parents, out of one pull.
LEMMA ChildrenAre ==
    ASSUME Table(notes), shape.kidLimit = 0, NEW parents, NEW p \in parents
    PROVE  OfParent(ChildrenOf(parents), p) = KidsOf(p, notes)
<1>. DEFINE Q == {n \in {m \in notes : m.of \in parents} : Selects(n) /\ \A q \in {} : Past(q, n)}
<1>1. ChildrenOf(parents) = Leaves(InOrder(Q))
  BY DEF ChildrenOf, PerParent, Fetch
<1>2. Table(Q)
  BY SubTable
<1>3. {q \in Q : q.of = p} = KidRows(p, notes)
  BY DEF KidRows
<1>. HIDE DEF Q
<1>4. OfParent(Leaves(InOrder(Q)), p) = Leaves(InOrder({q \in Q : q.of = p}))
  BY <1>2, OfParentIs
<1> QED
  BY <1>1, <1>3, <1>4 DEF KidsOf

\* A pull hangs under each row the children it has.
LEMMA HydrateIs ==
    ASSUME Table(notes), shape.kidLimit = 0, NEW h, NEW rows, IsSeq(rows)
    PROVE  /\ Hydrate(h, rows).held = h
           /\ IsSeq(Hydrate(h, rows).trees) /\ Len(Hydrate(h, rows).trees) = Len(rows)
           /\ \A i \in 1..Len(rows) : Hydrate(h, rows).trees[i] = TreeOf(rows[i], notes)
<1>. DEFINE parents == {r.id : r \in ToSet(rows)}
            kids == ChildrenOf(parents)
            n == Len(rows)
            f == [i \in 1..n |->
                    [row |-> rows[i], kids |-> OfParent(kids, rows[i].id)]]
<1>1. n \in Nat /\ DOMAIN rows = 1..n
  BY SeqParts
<1>2. \A i \in 1..n : rows[i].id \in parents
  BY <1>1 DEF ToSet
<1>3. f = [i \in 1..n |-> f[i]] /\ DOMAIN f = 1..n
  <2>. HIDE DEF n, kids
  <2> QED
    OBVIOUS
<1>4. Hydrate(h, rows) = [held |-> h, trees |-> f]
  <2>. HIDE DEF n
  <2> QED
    BY <1>1 DEF Hydrate, Hung
<1>5. \A i \in 1..n : f[i] = TreeOf(rows[i], notes)
  <2>. TAKE i \in 1..n
  <2>1. OfParent(kids, rows[i].id) = KidsOf(rows[i].id, notes)
    <3>. HIDE DEF parents
    <3> QED
      BY <1>2, ChildrenAre
  <2>. HIDE DEF kids, n
  <2> QED
    BY <2>1 DEF TreeOf
<1>. HIDE DEF f, n
<1>6. IsSeq(f) /\ Len(f) = n
  <2>1. IsSeq(f)
    BY <1>1, <1>3, FcnIsSeq
  <2> QED
    BY <1>1, <1>3, <2>1, SeqParts
<1> QED
  BY <1>4, <1>5, <1>6 DEF n

----------------------------------------------------------------------------
(* Two ways to the same list                                               *)

Tidy(ts) == IsSeq(ts) /\ Sorted(ts) /\ \A i \in 1..Len(ts) : Numbered(ts[i].row)

\* us is ts with t before the p-th, where the order puts it.
Inserted(us, ts, p, t) ==
    /\ IsSeq(us) /\ Len(us) = Len(ts) + 1
    /\ p \in 1..(Len(ts) + 1) /\ us[p] = t
    /\ \A i \in 1..(p - 1) : us[i] = ts[i] /\ Before(ts[i].row, t.row)
    /\ \A i \in p..Len(ts) : us[i + 1] = ts[i] /\ ~Before(ts[i].row, t.row)

\* Placed puts a tree where the order wants it.
LEMMA PlacedIs ==
    ASSUME NEW ts, Tidy(ts), NEW t, Numbered(t.row)
    PROVE  Inserted(Placed(ts, t), ts, Place(ts, t.row), t)
<1>. DEFINE p == Place(ts, t.row)
            us == InsertAt(ts, p, t)
<1>1. us = Placed(ts, t)
  BY DEF Placed
<1>2. IsSeq(ts) /\ Len(ts) \in Nat
  BY SeqParts DEF Tidy
<1>3. /\ p \in 1..(Len(ts) + 1)
      /\ \A i \in 1..(p - 1) : Before(ts[i].row, t.row)
      /\ \A i \in p..Len(ts) : ~Before(ts[i].row, t.row)
  BY PlaceParts DEF Tidy
<1>. HIDE DEF p
<1>4. /\ IsSeq(us) /\ Len(us) = Len(ts) + 1 /\ us[p] = t
      /\ \A i \in 1..(p - 1) : us[i] = ts[i]
      /\ \A i \in (p + 1)..(Len(ts) + 1) : us[i] = ts[i - 1]
  BY <1>2, <1>3, InsertParts
<1>. HIDE DEF us
<1>5. \A i \in p..Len(ts) : us[i + 1] = ts[i]
  <2>. TAKE i \in p..Len(ts)
  <2>1. i + 1 \in (p + 1)..(Len(ts) + 1) /\ (i + 1) - 1 = i
    BY <1>2, <1>3
  <2> QED
    BY <1>4, <2>1
<1>6. Inserted(us, ts, p, t)
  BY <1>3, <1>4, <1>5 DEF Inserted
<1> QED
  BY <1>1, <1>6 DEF p

\* There is one place for it.
LEMMA InsertedIs ==
    ASSUME NEW ts, Tidy(ts), NEW t, Numbered(t.row), NEW us, NEW p, Inserted(us, ts, p, t)
    PROVE  us = Placed(ts, t)
<1>. DEFINE q == Place(ts, t.row)
            ws == Placed(ts, t)
            n == Len(ts)
<1>1. Inserted(ws, ts, q, t)
  BY PlacedIs
<1>. HIDE DEF q, ws
<1>2. n \in Nat
  BY SeqParts DEF Tidy
<1>3. ~(p < q)
  <2>. SUFFICES ASSUME p < q PROVE FALSE
    OBVIOUS
  <2>1. p \in 1..(q - 1) /\ p \in p..n
    BY <1>1, <1>2 DEF Inserted
  <2> QED
    BY <1>1, <2>1 DEF Inserted
<1>4. ~(q < p)
  <2>. SUFFICES ASSUME q < p PROVE FALSE
    OBVIOUS
  <2>1. q \in 1..(p - 1) /\ q \in q..n
    BY <1>1, <1>2 DEF Inserted
  <2> QED
    BY <1>1, <2>1 DEF Inserted
<1>5. p = q /\ p \in 1..(n + 1)
  BY <1>1, <1>3, <1>4 DEF Inserted
<1>6. IsSeq(us) /\ IsSeq(ws) /\ Len(us) = n + 1 /\ Len(ws) = n + 1
  BY <1>1 DEF Inserted
<1>7. \A i \in 1..(n + 1) : us[i] = ws[i]
  <2>. TAKE i \in 1..(n + 1)
  <2>1. CASE i < p
    <3>1. i \in 1..(p - 1)
      BY <1>5, <2>1
    <3> QED
      BY <1>1, <1>5, <3>1 DEF Inserted
  <2>2. CASE i = p
    BY <1>1, <1>5, <2>2 DEF Inserted
  <2>3. CASE p < i
    <3>1. i - 1 \in p..n /\ (i - 1) + 1 = i
      BY <1>2, <1>5, <2>3
    <3>2. us[(i - 1) + 1] = ts[i - 1]
      BY <3>1 DEF Inserted
    <3>3. ws[(i - 1) + 1] = ts[i - 1]
      BY <1>1, <1>5, <3>1 DEF Inserted
    <3> QED
      BY <3>1, <3>2, <3>3
  <2>4. i < p \/ i = p \/ p < i
    BY <1>2, <1>5
  <2> QED
    BY <2>1, <2>2, <2>3, <2>4, Zenon
<1>8. us = ws
  BY <1>6, <1>7, SameSeq
<1> QED
  BY <1>8 DEF ws

\* What comes after everything is appended.
LEMMA PlacedLast ==
    ASSUME NEW ts, Tidy(ts), NEW t, Numbered(t.row),
           \A i \in 1..Len(ts) : Before(ts[i].row, t.row)
    PROVE  Placed(ts, t) = Append(ts, t)
<1>. DEFINE us == Append(ts, t)
            p == Len(ts) + 1
<1>1. Len(ts) \in Nat
  BY SeqParts DEF Tidy
<1>2. /\ IsSeq(us) /\ Len(us) = Len(ts) + 1 /\ us[Len(ts) + 1] = t
      /\ \A i \in 1..Len(ts) : us[i] = ts[i]
  BY AppendIsSeq, ZenonT(60) DEF Tidy
<1>. HIDE DEF us
<1>3. p \in 1..(Len(ts) + 1) /\ p - 1 = Len(ts) /\ p..Len(ts) = {}
  BY <1>1
<1>4. us[p] = t
  BY <1>2
<1>. HIDE DEF p
<1>5. Inserted(us, ts, p, t)
  BY <1>2, <1>3, <1>4 DEF Inserted
<1>6. us = Placed(ts, t)
  BY <1>5, InsertedIs
<1> QED
  BY <1>6 DEF us

\* What does not come after the last pushes the last out, and it goes among
\* the others.
LEMMA FrontPlaced ==
    ASSUME NEW ts, Tidy(ts), Len(ts) > 0, NEW t, Numbered(t.row),
           ~Before(Last(ts).row, t.row)
    PROVE  /\ Tidy(Front(ts)) /\ Len(Front(ts)) = Len(ts) - 1
           /\ Front(Placed(ts, t)) = Placed(Front(ts), t)
           /\ Last(Placed(ts, t)) = Last(ts)
<1>. DEFINE n == Len(ts)
            p == Place(ts, t.row)
            G == Placed(ts, t)
            V == Front(ts)
<1>1. IsSeq(ts) /\ n \in Nat /\ n \in 1..n /\ Last(ts) = ts[n]
  BY SeqParts DEF Tidy, Last
<1>2. Inserted(G, ts, p, t)
  BY PlacedIs
<1>. HIDE DEF p, G
<1>3. IsSeq(V) /\ Len(V) = n - 1 /\ \A i \in 1..(n - 1) : V[i] = ts[i]
  BY <1>1, FrontParts
<1>. HIDE DEF V
<1>4. p \in 1..n
  BY <1>1, <1>2 DEF Inserted
<1>5. Tidy(V)
  <2>1. \A i \in 1..(n - 1) : i \in 1..n
    BY <1>1
  <2> QED
    BY <1>3, <2>1 DEF Tidy, Sorted, n
<1>. DEFINE F == Front(G)
<1>6. IsSeq(F) /\ Len(F) = n /\ \A i \in 1..n : F[i] = G[i]
  <2>1. IsSeq(G) /\ Len(G) = n + 1 /\ Len(G) > 0 /\ Len(G) - 1 = n
    BY <1>1, <1>2 DEF Inserted
  <2> QED
    BY <2>1, FrontParts
<1>. HIDE DEF F
<1>7. Inserted(F, V, p, t)
  <2>1. IsSeq(F) /\ Len(F) = Len(V) + 1 /\ p \in 1..(Len(V) + 1)
    BY <1>1, <1>3, <1>4, <1>6
  <2>2. F[p] = t
    BY <1>2, <1>4, <1>6 DEF Inserted
  <2>3. \A i \in 1..(p - 1) : F[i] = V[i] /\ Before(V[i].row, t.row)
    <3>. TAKE i \in 1..(p - 1)
    <3>1. i \in 1..n /\ i \in 1..(n - 1)
      BY <1>1, <1>4
    <3> QED
      BY <1>2, <1>3, <1>6, <3>1 DEF Inserted
  <2>4. \A i \in p..Len(V) : F[i + 1] = V[i] /\ ~Before(V[i].row, t.row)
    <3>. TAKE i \in p..Len(V)
    <3>1. i \in p..n /\ i \in 1..(n - 1) /\ i + 1 \in 1..n
      BY <1>1, <1>3, <1>4
    <3> QED
      BY <1>2, <1>3, <1>6, <3>1 DEF Inserted
  <2> QED
    BY <2>1, <2>2, <2>3, <2>4 DEF Inserted
<1>8. F = Placed(V, t)
  BY <1>5, <1>7, InsertedIs
<1>9. Last(G) = ts[n]
  <2>1. n \in p..n
    BY <1>1, <1>4
  <2> QED
    BY <1>1, <1>2, <2>1 DEF Inserted, Last
<1> QED
  BY <1>1, <1>3, <1>5, <1>8, <1>9 DEF F, G, V

\* Where the row is that Position looks for.
LEMMA PositionIs ==
    ASSUME NEW ts, IsSeq(ts), NEW k \in 1..Len(ts),
           \A i \in 1..(k - 1) : ts[i].row # ts[k].row
    PROVE  Position(ts, ts[k].row) = k
<1>. DEFINE r == ts[k].row
            q == Position(ts, r)
<1>1. \/ q = 0 /\ \A i \in 1..Len(ts) : ts[i].row # r
      \/ q \in 1..Len(ts) /\ ts[q].row = r /\ \A i \in 1..(q - 1) : ts[i].row # r
  BY PositionParts
<1>2. Len(ts) \in Nat
  BY SeqParts
<1>. HIDE DEF q
<1>3. q \in 1..Len(ts) /\ ts[q].row = r /\ \A i \in 1..(q - 1) : ts[i].row # r
  BY <1>1
<1>4. ~(q < k)
  <2>1. q < k => q \in 1..(k - 1)
    BY <1>2, <1>3
  <2> QED
    BY <1>3, <2>1
<1>5. ~(k < q)
  <2>1. k < q => k \in 1..(q - 1)
    BY <1>2, <1>3
  <2> QED
    BY <1>3, <2>1
<1>6. q = k
  BY <1>2, <1>3, <1>4, <1>5
<1> QED
  BY <1>6 DEF q

\* An edit, the add first or the remove first: it is the same list.  A row
\* written over by its like may stand for either.
LEMMA Swapped ==
    ASSUME NEW R, Table(R), NEW ts, Begins(ts, R), NEW t, Numbered(t.row),
           NEW q \in 1..Len(ts), ts[q].row.id = t.row.id,
           ts[q].row = t.row => ts[q] = t
    PROVE  /\ Position(Placed(ts, t), ts[q].row) \in 1..(Len(ts) + 1)
           /\ RemoveAt(Placed(ts, t), Position(Placed(ts, t), ts[q].row))
                = Placed(RemoveAt(ts, q), t)
<1>. DEFINE n == Len(ts)
            old == ts[q].row
            p == Place(ts, t.row)
            G == Placed(ts, t)
            V == RemoveAt(ts, q)
<1>1. /\ IsSeq(ts) /\ n \in Nat /\ Tidy(ts)
      /\ \A i, j \in 1..n : ts[i].row = ts[j].row => i = j
      /\ \A i \in 1..n : Numbered(ts[i].row)
  BY BeginsParts DEF Tidy
<1>2. Inserted(G, ts, p, t)
  BY <1>1, PlacedIs
<1>. HIDE DEF p, G
<1>3. Tidy(V) /\ Len(V) = n - 1
  <2>1. Begins(V, R \ {old}) /\ Len(V) = n - 1 /\ Table(R \ {old})
    BY RemovedParts, SubTable
  <2>. HIDE DEF V
  <2> QED
    BY <2>1, BeginsParts DEF Tidy
<1>4. /\ \A i \in 1..(q - 1) : V[i] = ts[i]
      /\ \A i \in q..(n - 1) : V[i] = ts[i + 1]
  BY <1>1, RemoveParts
<1>. HIDE DEF V
<1>5. /\ IsSeq(G) /\ Len(G) = n + 1 /\ p \in 1..(n + 1) /\ G[p] = t
      /\ \A i \in 1..(p - 1) : G[i] = ts[i] /\ Before(ts[i].row, t.row)
      /\ \A i \in p..n : G[i + 1] = ts[i] /\ ~Before(ts[i].row, t.row)
  BY <1>2 DEF Inserted
<1>6. \A i \in 1..n : i # q => ts[i].row # old
  BY <1>1
<1>7. q \in 1..n
  OBVIOUS
<1>. SUFFICES \E k \in 1..(n + 1) : Position(G, old) = k /\ RemoveAt(G, k) = Placed(V, t)
  BY DEF G, V
<1>. HIDE DEF n
<1>8. ASSUME NEW k \in 1..(n + 1), G[k].row = old, \A i \in 1..(k - 1) : G[i].row # old,
             NEW X, X = RemoveAt(G, k), NEW m, Inserted(X, V, m, t)
      PROVE  Position(G, old) = k /\ RemoveAt(G, k) = Placed(V, t)
  <2>1. Position(G, old) = k
    BY <1>5, <1>8, PositionIs
  <2>2. X = Placed(V, t)
    BY <1>3, <1>8, InsertedIs
  <2> QED
    BY <1>8, <2>1, <2>2
<1>9. ASSUME NEW k \in 1..(n + 1), NEW X, X = RemoveAt(G, k)
      PROVE  /\ IsSeq(X) /\ Len(X) = n
             /\ \A i \in 1..(k - 1) : X[i] = G[i]
             /\ \A i \in k..n : X[i] = G[i + 1]
  <2>1. /\ IsSeq(RemoveAt(G, k)) /\ Len(RemoveAt(G, k)) = Len(G) - 1
        /\ \A i \in 1..(k - 1) : RemoveAt(G, k)[i] = G[i]
        /\ \A i \in k..(Len(G) - 1) : RemoveAt(G, k)[i] = G[i + 1]
    BY <1>5, RemoveParts, SMTT(60)
  <2>2. Len(G) - 1 = n
    BY <1>1, <1>5
  <2> QED
    BY <1>9, <2>1, <2>2
<1>10. CASE q < p
  <2>. DEFINE X == RemoveAt(G, q)
  <2>0. q \in 1..(n + 1) /\ q \in 1..(p - 1)
    BY <1>1, <1>5, <1>7, <1>10
  <2>1. /\ IsSeq(X) /\ Len(X) = n
        /\ \A i \in 1..(q - 1) : X[i] = G[i]
        /\ \A i \in q..n : X[i] = G[i + 1]
    BY <1>9, <2>0
  <2>2. G[q].row = old /\ \A i \in 1..(q - 1) : G[i].row # old
    BY <1>1, <1>5, <1>6, <1>7, <2>0
  <2>. HIDE DEF X
  <2>3. Inserted(X, V, p - 1, t)
    <3>1. p - 1 \in 1..(Len(V) + 1) /\ Len(X) = Len(V) + 1
      BY <1>1, <1>3, <1>5, <2>0, <2>1
    <3>2. X[p - 1] = t
      <4>1. p - 1 \in q..n /\ (p - 1) + 1 = p
        BY <1>1, <1>5, <1>7, <2>0
      <4> QED
        BY <1>5, <2>1, <4>1
    <3>3. \A i \in 1..((p - 1) - 1) : X[i] = V[i] /\ Before(V[i].row, t.row)
      <4>. TAKE i \in 1..((p - 1) - 1)
      <4>1. CASE i < q
        <5>1. i \in 1..(q - 1) /\ i \in 1..(p - 1)
          BY <1>5, <1>7, <4>1
        <5> QED
          BY <1>4, <1>5, <2>1, <5>1
      <4>2. CASE q <= i
        <5>1. i \in q..n /\ i \in q..(n - 1) /\ i + 1 \in 1..(p - 1)
          BY <1>1, <1>5, <1>7, <4>2
        <5> QED
          BY <1>4, <1>5, <2>1, <5>1
      <4> QED
        BY <1>5, <1>7, <4>1, <4>2
    <3>4. \A i \in (p - 1)..Len(V) : X[i + 1] = V[i] /\ ~Before(V[i].row, t.row)
      <4>. TAKE i \in (p - 1)..Len(V)
      <4>1. i \in q..(n - 1) /\ i + 1 \in q..n /\ i + 1 \in p..n
        BY <1>1, <1>3, <1>5, <1>7, <2>0
      <4> QED
        BY <1>4, <1>5, <2>1, <4>1
    <3> QED
      BY <2>1, <3>1, <3>2, <3>3, <3>4 DEF Inserted
  <2> QED
    BY <1>8, <2>0, <2>2, <2>3 DEF X
<1>11. CASE p <= q /\ old # t.row
  <2>. DEFINE X == RemoveAt(G, q + 1)
  <2>0. q + 1 \in 1..(n + 1) /\ q \in p..n /\ (q + 1) - 1 = q
    BY <1>1, <1>5, <1>7, <1>11
  <2>1. /\ IsSeq(X) /\ Len(X) = n
        /\ \A i \in 1..q : X[i] = G[i]
        /\ \A i \in (q + 1)..n : X[i] = G[i + 1]
    BY <1>9, <2>0
  <2>2. G[q + 1].row = old
    BY <1>5, <2>0
  <2>3. \A i \in 1..q : G[i].row # old
    <3>. TAKE i \in 1..q
    <3>1. CASE i < p
      <4>1. i \in 1..(p - 1) /\ i \in 1..n /\ i # q
        BY <1>1, <1>5, <1>7, <1>11, <3>1
      <4> QED
        BY <1>5, <1>6, <4>1
    <3>2. CASE i = p
      BY <1>5, <1>11, <3>2
    <3>3. CASE p < i
      <4>1. i - 1 \in p..n /\ i - 1 \in 1..n /\ i - 1 # q /\ (i - 1) + 1 = i
        BY <1>1, <1>5, <1>7, <3>3
      <4> QED
        BY <1>5, <1>6, <4>1
    <3> QED
      BY <1>5, <1>7, <3>1, <3>2, <3>3
  <2>. HIDE DEF X
  <2>4. Inserted(X, V, p, t)
    <3>1. p \in 1..(Len(V) + 1) /\ Len(X) = Len(V) + 1
      BY <1>1, <1>3, <1>5, <1>7, <1>11, <2>1
    <3>2. X[p] = t
      <4>1. p \in 1..q
        BY <1>5, <1>7, <1>11
      <4> QED
        BY <1>5, <2>1, <4>1
    <3>3. \A i \in 1..(p - 1) : X[i] = V[i] /\ Before(V[i].row, t.row)
      <4>. TAKE i \in 1..(p - 1)
      <4>1. i \in 1..q /\ i \in 1..(q - 1)
        BY <1>5, <1>7, <1>11
      <4> QED
        BY <1>4, <1>5, <2>1, <4>1
    <3>4. \A i \in p..Len(V) : X[i + 1] = V[i] /\ ~Before(V[i].row, t.row)
      <4>. TAKE i \in p..Len(V)
      <4>1. CASE i < q
        <5>1. i \in 1..(q - 1) /\ i \in p..n /\ i + 1 \in 1..q
          BY <1>1, <1>3, <1>5, <1>7, <4>1
        <5> QED
          BY <1>4, <1>5, <2>1, <5>1
      <4>2. CASE q <= i
        <5>1. i \in q..(n - 1) /\ i + 1 \in (q + 1)..n /\ i + 1 \in p..n
          BY <1>1, <1>3, <1>5, <1>7, <4>2
        <5> QED
          BY <1>4, <1>5, <2>1, <5>1
      <4> QED
        BY <1>5, <1>7, <4>1, <4>2
    <3> QED
      BY <2>1, <3>1, <3>2, <3>3, <3>4 DEF Inserted
  <2>5. \A i \in 1..((q + 1) - 1) : G[i].row # old
    BY <2>0, <2>3
  <2> QED
    BY <1>8, <2>0, <2>2, <2>4, <2>5 DEF X
<1>12. CASE old = t.row
  <2>0. ts[q] = t /\ ~Before(ts[q].row, t.row)
    BY <1>1, <1>7, <1>12, Ordered
  <2>1. p <= q
    <3>1. q < p => q \in 1..(p - 1)
      BY <1>5, <1>7
    <3> QED
      BY <1>5, <1>7, <2>0, <3>1
  <2>2. ~(p < q)
    <3>. SUFFICES ASSUME p < q PROVE FALSE
      OBVIOUS
    <3>1. p \in p..n /\ p \in 1..n
      BY <1>1, <1>5, <1>7
    <3>2. ~Before(ts[p].row, t.row)
      BY <1>5, <3>1
    <3>3. Before(ts[p].row, ts[q].row)
      BY <1>1, <1>7, <3>1 DEF Tidy, Sorted, n
    <3> QED
      BY <1>12, <3>2, <3>3
  <2>3. p = q
    BY <1>5, <1>7, <2>1, <2>2
  <2>. DEFINE X == RemoveAt(G, p)
  <2>4. /\ IsSeq(X) /\ Len(X) = n
        /\ \A i \in 1..(p - 1) : X[i] = G[i]
        /\ \A i \in p..n : X[i] = G[i + 1]
    BY <1>9, <1>5
  <2>. HIDE DEF X
  <2>5. \A i \in 1..n : X[i] = ts[i]
    <3>. TAKE i \in 1..n
    <3>1. i \in 1..(p - 1) \/ i \in p..n
      BY <1>1, <1>5
    <3> QED
      BY <1>5, <2>4, <3>1
  <2>6. \A i \in 1..(p - 1) : G[i].row # old
    <3>. TAKE i \in 1..(p - 1)
    <3>1. i \in 1..n /\ i # q
      BY <1>1, <1>5, <2>3
    <3> QED
      BY <1>5, <1>6, <3>1
  <2>7. Inserted(X, V, p, t)
    <3>1. p \in 1..(Len(V) + 1) /\ Len(X) = Len(V) + 1
      BY <1>1, <1>3, <1>7, <2>3, <2>4
    <3>2. X[p] = t
      BY <1>7, <2>0, <2>3, <2>5
    <3>3. \A i \in 1..(p - 1) : X[i] = V[i] /\ Before(V[i].row, t.row)
      <4>. TAKE i \in 1..(p - 1)
      <4>1. i \in 1..n /\ i \in 1..(q - 1)
        BY <1>1, <1>5, <2>3
      <4> QED
        BY <1>4, <1>5, <2>5, <4>1
    <3>4. \A i \in p..Len(V) : X[i + 1] = V[i] /\ ~Before(V[i].row, t.row)
      <4>. TAKE i \in p..Len(V)
      <4>1. i \in q..(n - 1) /\ i + 1 \in 1..n /\ i + 1 \in p..n
        BY <1>1, <1>3, <1>7, <2>3
      <4> QED
        BY <1>4, <1>5, <2>5, <4>1
    <3> QED
      BY <2>4, <3>1, <3>2, <3>3, <3>4 DEF Inserted
  <2>8. G[p].row = old
    BY <1>5, <1>12
  <2> QED
    BY <1>5, <1>8, <2>6, <2>7, <2>8 DEF X
<1> QED
  BY <1>5, <1>7, <1>10, <1>11, <1>12

\* Taking the last out by its row, where a row may stand beside its like.
LEMMA RemoveLast ==
    ASSUME NEW R, Table(R), NEW ts, Begins(ts, R), Len(ts) > 0, NEW t, Numbered(t.row),
           ~Before(Last(ts).row, t.row), Last(ts).row = t.row => Last(ts) = t
    PROVE  /\ Position(Placed(ts, t), Last(ts).row) \in 1..(Len(ts) + 1)
           /\ RemoveAt(Placed(ts, t), Position(Placed(ts, t), Last(ts).row))
                = Front(Placed(ts, t))
<1>. DEFINE n == Len(ts)
            r == ts[n].row
            p == Place(ts, t.row)
            G == Placed(ts, t)
<1>1. /\ IsSeq(ts) /\ n \in Nat /\ Tidy(ts) /\ n \in 1..n /\ Last(ts) = ts[n]
      /\ \A i, j \in 1..n : ts[i].row = ts[j].row => i = j
  BY BeginsParts DEF Tidy, Last
<1>2. Inserted(G, ts, p, t)
  BY <1>1, PlacedIs
<1>. HIDE DEF p, G
<1>3. /\ IsSeq(G) /\ Len(G) = n + 1 /\ p \in 1..(n + 1) /\ G[p] = t
      /\ \A i \in 1..(p - 1) : G[i] = ts[i] /\ Before(ts[i].row, t.row)
      /\ \A i \in p..n : G[i + 1] = ts[i] /\ ~Before(ts[i].row, t.row)
  BY <1>2 DEF Inserted
<1>4. p \in 1..n /\ n \in p..n
  BY <1>1, <1>3
<1>5. \A i \in 1..n : i # n => ts[i].row # r
  BY <1>1
<1>. HIDE DEF n
<1>6. ASSUME NEW k \in {n, n + 1}, G[k].row = r, \A i \in 1..(k - 1) : G[i].row # r,
             k = n => G[n] = G[n + 1]
      PROVE  Position(G, r) \in 1..(n + 1) /\ RemoveAt(G, Position(G, r)) = Front(G)
  <2>0. k \in 1..(n + 1)
    BY <1>1
  <2>1. Position(G, r) = k
    BY <1>3, <1>6, <2>0, PositionIs
  <2>. DEFINE X == RemoveAt(G, k)
              F == Front(G)
  <2>2. /\ IsSeq(X) /\ Len(X) = n
        /\ \A i \in 1..(k - 1) : X[i] = G[i]
        /\ \A i \in k..n : X[i] = G[i + 1]
    <3>1. /\ IsSeq(X) /\ Len(X) = Len(G) - 1
          /\ \A i \in 1..(k - 1) : X[i] = G[i]
          /\ \A i \in k..(Len(G) - 1) : X[i] = G[i + 1]
      <4>1. IsSeq(G) /\ k \in 1..Len(G)
        BY <1>3, <2>0
      <4> QED
        BY <4>1, RemoveParts
    <3> QED
      BY <1>1, <1>3, <3>1
  <2>3. IsSeq(F) /\ Len(F) = n /\ \A i \in 1..n : F[i] = G[i]
    <3>1. Len(G) > 0 /\ Len(G) - 1 = n
      BY <1>1, <1>3
    <3> QED
      BY <1>3, <3>1, FrontParts
  <2>. HIDE DEF X, F
  <2>4. \A i \in 1..n : X[i] = F[i]
    <3>. TAKE i \in 1..n
    <3>1. i \in 1..(k - 1) \/ (i = n /\ k = n)
      BY <1>1
    <3>2. n \in n..n
      BY <1>1
    <3> QED
      BY <1>6, <2>2, <2>3, <3>1, <3>2
  <2>5. X = F
    BY <2>2, <2>3, <2>4, SameSeq
  <2> QED
    BY <2>0, <2>1, <2>5 DEF X, F
<1>7. CASE r # t.row
  <2>1. G[n + 1].row = r
    BY <1>3, <1>4
  <2>2. \A i \in 1..n : G[i].row # r
    <3>. TAKE i \in 1..n
    <3>1. CASE i < p
      <4>1. i \in 1..(p - 1) /\ i # n
        BY <1>4, <3>1
      <4> QED
        BY <1>3, <1>5, <4>1
    <3>2. CASE i = p
      BY <1>3, <1>7, <3>2
    <3>3. CASE p < i
      <4>1. i - 1 \in p..n /\ i - 1 \in 1..n /\ i - 1 # n /\ (i - 1) + 1 = i
        BY <1>4, <3>3
      <4> QED
        BY <1>3, <1>5, <4>1
    <3> QED
      BY <1>4, <3>1, <3>2, <3>3
  <2>3. (n + 1) - 1 = n /\ n + 1 # n
    BY <1>1
  <2> QED
    BY <1>1, <1>6, <2>1, <2>2, <2>3 DEF G, n
<1>8. CASE r = t.row
  <2>1. ~(p < n)
    <3>. SUFFICES ASSUME p < n PROVE FALSE
      OBVIOUS
    <3>1. Before(ts[p].row, ts[n].row)
      BY <1>1, <1>4 DEF Tidy, Sorted, n
    <3>2. p \in p..n
      BY <1>4
    <3> QED
      BY <1>3, <1>8, <3>1, <3>2
  <2>2. p = n
    BY <1>4, <2>1
  <2>3. G[n] = t /\ G[n + 1] = t
    BY <1>1, <1>3, <1>4, <1>8, <2>2
  <2>4. \A i \in 1..(n - 1) : G[i].row # r
    <3>. TAKE i \in 1..(n - 1)
    <3>1. i \in 1..(p - 1) /\ i \in 1..n /\ i # n
      BY <1>1, <2>2
    <3> QED
      BY <1>3, <1>5, <3>1
  <2>5. G[n].row = r
    BY <1>8, <2>3
  <2> QED
    BY <1>1, <1>6, <2>3, <2>4, <2>5 DEF G, n
<1> QED
  BY <1>7, <1>8

\* What was put among others it is not one of can be found and taken out again.
LEMMA RemovePlaced ==
    ASSUME NEW ts, Tidy(ts), NEW t, Numbered(t.row), ~Holds(ts, t.row)
    PROVE  /\ Position(Placed(ts, t), t.row) \in 1..(Len(ts) + 1)
           /\ RemoveAt(Placed(ts, t), Position(Placed(ts, t), t.row)) = ts
<1>. DEFINE n == Len(ts)
            p == Place(ts, t.row)
            G == Placed(ts, t)
<1>1. IsSeq(ts) /\ n \in Nat /\ \A i \in 1..n : ts[i].row # t.row
  BY SeqParts DEF Tidy, Holds
<1>2. Inserted(G, ts, p, t)
  BY PlacedIs
<1>. HIDE DEF p, G
<1>3. /\ IsSeq(G) /\ Len(G) = n + 1 /\ p \in 1..(n + 1) /\ G[p] = t
      /\ \A i \in 1..(p - 1) : G[i] = ts[i]
      /\ \A i \in p..n : G[i + 1] = ts[i]
  BY <1>2 DEF Inserted
<1>. HIDE DEF n
<1>4. \A i \in 1..(p - 1) : G[i].row # G[p].row
  <2>. TAKE i \in 1..(p - 1)
  <2>1. i \in 1..n
    BY <1>1, <1>3
  <2> QED
    BY <1>1, <1>3, <2>1
<1>5. Position(G, t.row) = p
  BY <1>3, <1>4, PositionIs
<1>. DEFINE X == RemoveAt(G, p)
<1>6. /\ IsSeq(X) /\ Len(X) = n
      /\ \A i \in 1..(p - 1) : X[i] = G[i]
      /\ \A i \in p..n : X[i] = G[i + 1]
  <2>1. /\ IsSeq(X) /\ Len(X) = Len(G) - 1
        /\ \A i \in 1..(p - 1) : X[i] = G[i]
        /\ \A i \in p..(Len(G) - 1) : X[i] = G[i + 1]
    BY <1>3, RemoveParts
  <2> QED
    BY <1>1, <1>3, <2>1
<1>. HIDE DEF X
<1>7. \A i \in 1..n : X[i] = ts[i]
  <2>. TAKE i \in 1..n
  <2>1. i \in 1..(p - 1) \/ i \in p..n
    BY <1>1, <1>3
  <2> QED
    BY <1>3, <1>6, <2>1
<1>8. X = ts
  BY <1>1, <1>6, <1>7, SameSeq DEF n
<1> QED
  BY <1>3, <1>5, <1>8 DEF X, G, n

----------------------------------------------------------------------------
(* The take, and the view behind it, at the end of a limit                 *)

Trees(ts, N) == \A i \in 1..Len(ts) : ts[i] = TreeOf(ts[i].row, N)

\* out takes a view that shows ts to one that shows us.
Shows(out, ts, us) ==
    /\ IsSeq(out)
    /\ \A v : v.nodes = ts => /\ After(ViewStep, v, out).nodes = us
                              /\ After(ViewStep, v, out).held = v.held

LEMMA ViewNone == \A v : After(ViewStep, v, <<>>) = v
<1>. TAKE v
<1>1. PICK f : Run(f, <<"shown">>, v, <<>>) /\ After(ViewStep, v, <<>>) = f[0]
  BY ShownRun, Zenon, EmptyIsSeq, Len(<<>>) = 0, 0 \in Nat
<1> QED
  BY <1>1, Zenon DEF Run

\* One more delta at the end is one more step of the view.
LEMMA ViewAppend ==
    ASSUME NEW v, NEW s, NEW d, IsSeq(s)
    PROVE  After(ViewStep, v, Append(s, d)) = ViewStep(After(ViewStep, v, s), d)
<1>1. Len(s) \in Nat /\ Len(Append(s, d)) \in Nat
  BY SeqParts, AppendIsSeq
<1>2. PICK f : Run(f, <<"shown">>, v, s) /\ After(ViewStep, v, s) = f[Len(s)]
  BY <1>1, ShownRun, Zenon
<1>3. PICK g : /\ Run(g, <<"shown">>, v, Append(s, d))
               /\ After(ViewStep, v, Append(s, d)) = g[Len(Append(s, d))]
  BY <1>1, ShownRun, Zenon
<1>4. g[Len(Append(s, d))] = Op(<<"shown">>, f[Len(s)], d)
  <2>1. Run(f, <<"shown">>, v, s) /\ Run(g, <<"shown">>, v, Append(s, d))
    BY <1>2, <1>3, Zenon
  <2>. HIDE DEF Run
  <2> QED
    BY <2>1, RunAppend
<1> QED
  BY <1>2, <1>3, <1>4 DEF Op

LEMMA ShowsNone == \A ts : Shows(<<>>, ts, ts)
BY ViewNone, EmptyIsSeq DEF Shows

\* So is one more delta that the take lets through.
LEMMA ShowsMore ==
    ASSUME NEW out, NEW ts, NEW us, Shows(out, ts, us), NEW d, NEW ws,
           \A v : v.nodes = us => ViewStep(v, d).nodes = ws /\ ViewStep(v, d).held = v.held
    PROVE  Shows(Append(out, d), ts, ws)
<1>1. IsSeq(out) /\ IsSeq(Append(out, d))
  BY AppendIsSeq DEF Shows
<1>2. ASSUME NEW v, v.nodes = ts
      PROVE  /\ After(ViewStep, v, Append(out, d)).nodes = ws
             /\ After(ViewStep, v, Append(out, d)).held = v.held
  <2>. DEFINE w == After(ViewStep, v, out)
  <2>1. w.nodes = us /\ w.held = v.held
    BY <1>2, Zenon DEF Shows
  <2>2. After(ViewStep, v, Append(out, d)) = ViewStep(w, d)
    BY <1>1, ViewAppend
  <2>. HIDE DEF w
  <2> QED
    BY <2>1, <2>2
<1> QED
  BY <1>1, <1>2, Zenon DEF Shows

\* What each delta makes of the view.
LEMMA AddShows ==
    \A v, t : /\ ViewStep(v, Added(t)).nodes = Placed(v.nodes, t)
              /\ ViewStep(v, Added(t)).held = v.held
BY DEF ViewStep, Added

LEMMA RemoveShows ==
    \A v, r : /\ ViewStep(v, Removed(r)).nodes =
                    IF Position(v.nodes, r) = 0 THEN v.nodes
                    ELSE RemoveAt(v.nodes, Position(v.nodes, r))
              /\ ViewStep(v, Removed(r)).held = v.held
BY DEF ViewStep, Removed

LEMMA EditShows ==
    \A v, r, t : Position(v.nodes, r) # 0 =>
              /\ ViewStep(v, Edited(r, t)).nodes =
                    Placed(RemoveAt(v.nodes, Position(v.nodes, r)), t)
              /\ ViewStep(v, Edited(r, t)).held = v.held
BY DEF ViewStep, Edited

HeldOK(h) == h = [top |-> h.top, kid |-> h.kid]

\* A window that is set is there to be read.
LEMMA WindowedIs ==
    ASSUME NEW h, HeldOK(h), NEW ts
    PROVE  /\ HeldOK(Windowed(h, "top", Null, ts))
           /\ Null \in DOMAIN Windowed(h, "top", Null, ts).top
           /\ Windowed(h, "top", Null, ts).top[Null] = ts
<1>. DEFINE f == [k \in DOMAIN h.top \cup {Null} |-> IF k = Null THEN ts ELSE h.top[k]]
<1>1. Windowed(h, "top", Null, ts) = [top |-> f, kid |-> h.kid]
  <2>1. Windowed(h, "top", Null, ts) = [h EXCEPT !["top"] = f]
    BY DEF Windowed
  <2>. DEFINE top == h.top
              kid == h.kid
  <2>2. h = [top |-> top, kid |-> kid]
    BY DEF HeldOK
  <2>. HIDE DEF top, kid, f
  <2>3. [[top |-> top, kid |-> kid] EXCEPT !["top"] = f] = [top |-> f, kid |-> kid]
    OBVIOUS
  <2> QED
    BY <2>1, <2>2, <2>3, Zenon DEF kid
<1>2. Null \in DOMAIN f /\ f[Null] = ts
  OBVIOUS
<1>. HIDE DEF f
<1> QED
  BY <1>1, <1>2 DEF HeldOK

\* The window of the take is ts, and so is what it has told a view that showed base.
Right(a, base, ts) ==
    /\ a = [held |-> a.held, out |-> a.out]
    /\ HeldOK(a.held) /\ Null \in DOMAIN a.held.top /\ a.held.top[Null] = ts
    /\ Shows(a.out, base, ts)

\* A take that sets its window and tells the view the same stays right.
LEMMA RightParts ==
    ASSUME NEW a, NEW base, NEW ts, Right(a, base, ts), NEW us, NEW out, Shows(out, base, us)
    PROVE  /\ Window(a.held, "top", Null) = ts
           /\ Right([held |-> Windowed(a.held, "top", Null, us), out |-> out], base, us)
<1>1. Window(a.held, "top", Null) = ts
  BY DEF Right, Window, HeldOK
<1>. DEFINE h == Windowed(a.held, "top", Null, us)
            b == [held |-> h, out |-> out]
<1>2. HeldOK(h) /\ Null \in DOMAIN h.top /\ h.top[Null] = us
  BY WindowedIs DEF Right
<1>. HIDE DEF h
<1>3. Right(b, base, us)
  BY <1>2 DEF Right
<1> QED
  BY <1>1, <1>3 DEF h, b

\* The row a refill comes back with is the next one.
LEMMA NextIs ==
    ASSUME Table(songs), ~TieDown, NEW ts, Begins(ts, Matching(songs)),
           NEW past, past = IF ts = <<>> THEN {} ELSE {Last(ts).row}
    PROVE  \/ /\ FirstOf(Fetch(songs, past), 1) = <<>>
              /\ \A r \in Matching(songs) : Holds(ts, r)
           \/ \E z \in Matching(songs) :
                /\ FirstOf(Fetch(songs, past), 1) = <<z>>
                /\ ~Holds(ts, z)
                /\ \A r \in Matching(songs) : ~Holds(ts, r) /\ r # z => Before(z, r)
<1>. DEFINE M == Matching(songs)
            Z == {r \in songs : Selects(r) /\ \A p \in past : Past(p, r)}
            s == InOrder(Z)
            rows == FirstOf(s, 1)
<1>1. Fetch(songs, past) = s
  BY DEF Fetch
<1>2. Table(Z) /\ Table(M)
  BY SubTable DEF Matching
<1>3. /\ IsSeq(ts) /\ Len(ts) \in Nat
      /\ \A i \in 1..Len(ts) : ts[i].row \in M /\ Numbered(ts[i].row)
      /\ \A i, j \in 1..Len(ts) : i < j => Before(ts[i].row, ts[j].row)
      /\ \A r \in M : ~Holds(ts, r) => \A i \in 1..Len(ts) : Before(ts[i].row, r)
  <2>. HIDE DEF M
  <2> QED
    BY <1>2, BeginsParts DEF Begins, M
<1>4. Z = {r \in M : ~Holds(ts, r)}
  <2>1. CASE ts = <<>>
    <3>1. \A r : ~Holds(ts, r)
      BY <2>1 DEF Holds
    <3>2. Z = M
      BY <2>1 DEF Matching
    <3>. HIDE DEF M, Z
    <3> QED
      BY <3>1, <3>2
  <2>2. CASE ts # <<>>
    <3>. DEFINE n == Len(ts)
                l == ts[n].row
    <3>1. n \in 1..n
      <4>1. n # 0
        BY <1>3, <2>2, EmptyIsSeq, SameSeq, Len(<<>>) = 0
      <4> QED
        BY <1>3, <4>1
    <3>2. past = {l}
      BY <2>2 DEF Last
    <3>3. \A r \in M : Past(l, r) <=> Before(l, r)
      BY DEF Past, Before
    <3>4. \A r \in M : ~Holds(ts, r) => Before(l, r)
      BY <1>3, <3>1
    <3>5. \A r \in M : Holds(ts, r) => ~Before(l, r)
      <4>. TAKE r \in M
      <4>. HAVE Holds(ts, r)
      <4>1. PICK i \in 1..n : ts[i].row = r
        BY DEF Holds
      <4>2. i = n \/ Before(r, l)
        BY <1>3, <3>1, <4>1
      <4>3. Numbered(r) /\ Numbered(l)
        BY <1>3, <3>1, <4>1
      <4> QED
        BY <4>1, <4>2, <4>3, Ordered
    <3>6. \A r : r \in Z <=> r \in M /\ Before(l, r)
      BY <3>2, <3>3 DEF Matching
    <3>. HIDE DEF M, Z, l
    <3> QED
      BY <3>4, <3>5, <3>6
  <2> QED
    BY <2>1, <2>2
<1>. HIDE DEF M, Z
<1>5. /\ IsSeq(s) /\ Len(s) \in Nat
      /\ \A i \in 1..Len(s) : s[i] \in Z
      /\ \A i, j \in 1..Len(s) : i < j => Before(s[i], s[j])
      /\ \A r \in Z : \E i \in 1..Len(s) : s[i] = r
  BY <1>2, InOrderIs, SeqParts
<1>. HIDE DEF s
<1>6. /\ IsSeq(rows)
      /\ Len(rows) = IF Len(s) <= 1 THEN Len(s) ELSE 1
      /\ \A i \in 1..Len(rows) : i \in 1..Len(s) /\ rows[i] = s[i]
  <2>. DEFINE m == 1
  <2>1. m \in Nat /\ m # 0
    OBVIOUS
  <2>. HIDE DEF m
  <2>2. /\ IsSeq(FirstOf(s, m))
        /\ Len(FirstOf(s, m)) = IF m = 0 \/ Len(s) <= m THEN Len(s) ELSE m
        /\ \A i \in 1..Len(FirstOf(s, m)) : i \in 1..Len(s) /\ FirstOf(s, m)[i] = s[i]
    BY <1>5, <2>1, FirstParts
  <2> QED
    BY <2>1, <2>2 DEF m
<1>. HIDE DEF rows
<1>7. CASE Len(s) = 0
  <2>1. rows = <<>>
    BY <1>6, <1>7, EmptyIsSeq, SameSeq, Len(<<>>) = 0
  <2>2. Z = {}
    BY <1>5, <1>7
  <2>3. rows = <<>> /\ \A r \in M : Holds(ts, r)
    BY <1>4, <2>1, <2>2
  <2> QED
    BY <1>1, <2>3 DEF rows, M
<1>8. CASE Len(s) # 0
  <2>1. Len(rows) = 1 /\ 1 \in 1..Len(s) /\ rows[1] = s[1]
    BY <1>5, <1>6, <1>8
  <2>2. rows = <<s[1]>>
    <3>. DEFINE o == <<s[1]>>
    <3>1. IsSeq(o) /\ Len(o) = 1 /\ o[1] = s[1]
      BY OneIsSeq
    <3>. HIDE DEF o
    <3>2. \A i \in 1..Len(rows) : rows[i] = o[i]
      BY <2>1, <3>1
    <3>3. rows = o
      BY <1>6, <2>1, <3>1, <3>2, SameSeq
    <3> QED
      BY <3>3 DEF o
  <2>3. s[1] \in Z
    BY <1>5, <2>1
  <2>4. \A r \in Z : r # s[1] => Before(s[1], r)
    <3>. TAKE r \in Z
    <3>. HAVE r # s[1]
    <3>1. PICK i \in 1..Len(s) : s[i] = r
      BY <1>5
    <3> QED
      BY <1>5, <2>1, <3>1
  <2>5. /\ s[1] \in M /\ rows = <<s[1]>> /\ ~Holds(ts, s[1])
        /\ \A r \in M : ~Holds(ts, r) /\ r # s[1] => Before(s[1], r)
    BY <1>4, <2>2, <2>3, <2>4
  <2> QED
    BY <1>1, <2>5 DEF rows, M
<1> QED
  BY <1>7, <1>8

----------------------------------------------------------------------------
(* One delta through the take and the view                                 *)

\* A query without a limit on the children, on tables whose rows have keys.
Plain ==
    /\ shape.kidLimit = 0 /\ shape.limit \in Nat
    /\ shape.limit = 0 \/ ~TieDown
    /\ Table(songs) /\ Table(notes)

\* What a refill makes of the window W.
Refills(W, U) ==
    \A a, base : Right(a, base, W) => Right(Refilled(a, "top", Null), base, U)

LEMMA EmptyIs == \A s : IsSeq(s) /\ Len(s) = 0 => s = <<>>
BY EmptyIsSeq, SameSeq, Len(<<>>) = 0

LEMMA ConcatNone == \A s : IsSeq(s) => s \o <<>> = s
<1>. TAKE s
<1>. HAVE IsSeq(s)
<1>1. PICK P : s \in Seq(P)
  BY DEF IsSeq
<1> QED
  BY <1>1

LEMMA RightIs ==
    ASSUME NEW a, NEW base, NEW W, Right(a, base, W)
    PROVE  Window(a.held, "top", Null) = W /\ IsSeq(a.out) /\ Shows(a.out, base, W)
<1>1. Window(a.held, "top", Null) = W
  BY DEF Right, Window, HeldOK
<1>2. Shows(a.out, base, W)
  BY DEF Right
<1>3. IsSeq(a.out)
  BY <1>2 DEF Shows
<1> QED
  BY <1>1, <1>2, <1>3

\* Nothing came in.
LEMMA LengthenedNone ==
    ASSUME NEW a, NEW base, NEW W, Right(a, base, W), IsSeq(W),
           NEW next, next = [held |-> a.held, trees |-> <<>>]
    PROVE  Right(Lengthened(a, "top", Null, next), base, W)
<1>1. Window(a.held, "top", Null) = W /\ IsSeq(a.out) /\ Shows(a.out, base, W)
  BY RightIs
<1>. DEFINE os == [i \in DOMAIN next.trees |-> Added(next.trees[i])]
            ws == Windowed(a.held, "top", Null, W)
<1>2. os = <<>>
  <2>1. DOMAIN next.trees = 1..0 /\ DOMAIN os = 1..0
    OBVIOUS
  <2>2. os = [i \in 1..0 |-> os[i]]
    BY <2>1
  <2>. HIDE DEF os
  <2>3. IsSeq(os)
    BY <2>2, FcnIsSeq
  <2>4. Len(os) = 0
    BY <2>1, <2>3, SeqParts
  <2> QED
    BY <2>3, <2>4, EmptyIs
<1>. HIDE DEF os
<1>3. W \o next.trees = W /\ a.out \o os = a.out
  BY <1>1, <1>2, ConcatNone
<1>4. Lengthened(a, "top", Null, next) = [held |-> ws, out |-> a.out]
  <2>1. Lengthened(a, "top", Null, next)
          = [held |-> Windowed(next.held, "top", Null,
                               Window(a.held, "top", Null) \o next.trees),
             out |-> a.out \o os]
    BY DEF Lengthened, os
  <2> QED
    BY <1>1, <1>3, <2>1
<1>5. Right([held |-> ws, out |-> a.out], base, W)
  BY <1>1, RightParts
<1> QED
  BY <1>4, <1>5

\* One tree came in, from behind all there is.
LEMMA LengthenedOne ==
    ASSUME NEW a, NEW base, NEW W, Right(a, base, W), Tidy(W),
           NEW t, Numbered(t.row), \A i \in 1..Len(W) : Before(W[i].row, t.row),
           NEW next, next.held = a.held, IsSeq(next.trees), Len(next.trees) = 1,
           next.trees[1] = t
    PROVE  Right(Lengthened(a, "top", Null, next), base, Append(W, t))
<1>1. Window(a.held, "top", Null) = W /\ IsSeq(a.out) /\ Shows(a.out, base, W)
  BY RightIs
<1>2. IsSeq(W) /\ IsSeq(<<t>>) /\ Len(<<t>>) = 1 /\ <<t>>[1] = t
  BY OneIsSeq DEF Tidy
<1>3. next.trees = <<t>>
  <2>. DEFINE one == <<t>>
  <2>1. IsSeq(one) /\ Len(one) = 1 /\ one[1] = t
    BY <1>2
  <2>. HIDE DEF one
  <2>2. \A i \in 1..1 : next.trees[i] = one[i]
    BY <2>1
  <2>3. next.trees = one
    BY <2>1, <2>2, SameSeq
  <2> QED
    BY <2>3 DEF one
<1>. DEFINE os == [i \in DOMAIN next.trees |-> Added(next.trees[i])]
            d == Added(t)
            us == Append(W, t)
            out == Append(a.out, d)
            ws == Windowed(a.held, "top", Null, us)
<1>4. os = <<d>>
  BY <1>3
<1>5. W \o next.trees = us /\ a.out \o <<d>> = out
  BY <1>1, <1>2, <1>3, AppendIsSeq
<1>6. Lengthened(a, "top", Null, next) = [held |-> ws, out |-> out]
  <2>1. Lengthened(a, "top", Null, next)
          = [held |-> Windowed(next.held, "top", Null,
                               Window(a.held, "top", Null) \o next.trees),
             out |-> a.out \o os]
    BY DEF Lengthened, os
  <2>. HIDE DEF os, d, us, out, ws
  <2>2. Windowed(next.held, "top", Null, Window(a.held, "top", Null) \o next.trees) = ws
    BY <1>1, <1>5 DEF ws
  <2> QED
    BY <1>4, <1>5, <2>1, <2>2
<1>7. Placed(W, t) = us
  BY PlacedLast
<1>8. Shows(out, base, us)
  <2>1. \A v : v.nodes = W => ViewStep(v, d).nodes = us /\ ViewStep(v, d).held = v.held
    BY <1>7, AddShows
  <2>. HIDE DEF d, us
  <2> QED
    BY <1>1, <2>1, ShowsMore
<1>. HIDE DEF us, out
<1>9. Right([held |-> ws, out |-> out], base, us)
  BY <1>8, RightParts
<1> QED
  BY <1>6, <1>9 DEF us

\* A window with the next row of the query behind it.
LEMMA RefilledIs ==
    ASSUME Plain, shape.limit > 0, NEW W, Begins(W, Matching(songs)), Trees(W, notes),
           \/ Len(W) = shape.limit - 1
           \/ Len(W) <= shape.limit /\ \A r \in Matching(songs) : Holds(W, r)
    PROVE  \E U : /\ Fills(U, Matching(songs), shape.limit) /\ Trees(U, notes)
                  /\ Refills(W, U)
<1>. DEFINE R == Matching(songs)
            past == IF W = <<>> THEN {} ELSE {Last(W).row}
            rows == FirstOf(Fetch(songs, past), 1)
<1>1. /\ Table(songs) /\ Table(notes) /\ ~TieDown /\ shape.kidLimit = 0
      /\ shape.limit \in Nat /\ Table(R)
  BY SubTable DEF Plain, Matching
<1>2. IsSeq(W) /\ Len(W) \in Nat /\ Tidy(W)
  BY <1>1, BeginsParts DEF Tidy
<1>3. \A a, base : Right(a, base, W) =>
          Refilled(a, "top", Null) = Lengthened(a, "top", Null, Hydrate(a.held, rows))
  <2>. TAKE a, base
  <2>. HAVE Right(a, base, W)
  <2>1. Window(a.held, "top", Null) = W
    BY DEF Right, Window, HeldOK
  <2>2. Refill(a.held, "top", Null) = Hydrate(a.held, rows)
    BY <2>1 DEF Refill
  <2> QED
    BY <2>2 DEF Refilled
<1>4. \/ rows = <<>> /\ \A r \in R : Holds(W, r)
      \/ \E z \in R : /\ rows = <<z>> /\ ~Holds(W, z)
                      /\ \A r \in R : ~Holds(W, r) /\ r # z => Before(z, r)
  <2>. HIDE DEF past
  <2>1. past = IF W = <<>> THEN {} ELSE {Last(W).row}
    BY DEF past
  <2> QED
    BY <1>1, <2>1, NextIs, Zenon
<1>. HIDE DEF rows, R
<1>5. CASE rows = <<>> /\ \A r \in R : Holds(W, r)
  <2>1. Fills(W, R, shape.limit)
    BY <1>1, <1>2, <1>5 DEF Fills, R
  <2>2. Refills(W, W)
    <3>. SUFFICES ASSUME NEW a, NEW base, Right(a, base, W)
                  PROVE  Right(Refilled(a, "top", Null), base, W)
      BY DEF Refills
    <3>. DEFINE next == Hydrate(a.held, rows)
    <3>1. next.held = a.held /\ IsSeq(next.trees) /\ Len(next.trees) = 0
      <4>1. IsSeq(rows) /\ Len(rows) = 0
        BY <1>5, EmptyIsSeq, Len(<<>>) = 0
      <4> QED
        BY <1>1, <4>1, HydrateIs
    <3>2. next = [held |-> next.held, trees |-> next.trees]
      BY DEF Hydrate, Hung
    <3>. HIDE DEF next
    <3>3. next = [held |-> a.held, trees |-> <<>>]
      BY <3>1, <3>2, EmptyIs
    <3>4. Right(Lengthened(a, "top", Null, next), base, W)
      BY <1>2, <3>3, LengthenedNone
    <3> QED
      BY <1>3, <3>4 DEF next
  <2> QED
    BY <2>1, <2>2 DEF R
<1>6. ASSUME NEW z \in R, rows = <<z>>, ~Holds(W, z),
             \A r \in R : ~Holds(W, r) /\ r # z => Before(z, r)
      PROVE  \E U : Fills(U, R, shape.limit) /\ Trees(U, notes) /\ Refills(W, U)
  <2>. DEFINE t == TreeOf(z, notes)
              U == Append(W, t)
  <2>1. t.row = z /\ t = TreeOf(t.row, notes)
    BY DEF TreeOf
  <2>2. Numbered(z) /\ \A i \in 1..Len(W) : Before(W[i].row, z)
    BY <1>1, <1>6 DEF Begins, Table, R
  <2>. HIDE DEF t
  <2>3. Begins(U, R) /\ \A r : Holds(U, r) <=> Holds(W, r) \/ r = z
    <3>1. Begins(W, R)
      BY DEF R
    <3> QED
      BY <1>1, <1>6, <2>1, <3>1, AppendBegins
  <2>4. /\ Len(U) = Len(W) + 1 /\ U[Len(W) + 1] = t /\ IsSeq(U)
        /\ \A i \in 1..Len(W) : U[i] = W[i]
    BY <1>2, AppendIsSeq, ZenonT(60)
  <2>. HIDE DEF U
  <2>5. Len(W) = shape.limit - 1
    BY <1>6 DEF R
  <2>6. Fills(U, R, shape.limit)
    BY <1>1, <1>2, <2>3, <2>4, <2>5 DEF Fills
  <2>7. Trees(U, notes)
    <3>. SUFFICES ASSUME NEW i \in 1..Len(U) PROVE U[i] = TreeOf(U[i].row, notes)
      BY DEF Trees
    <3>1. i \in 1..Len(W) \/ i = Len(W) + 1
      BY <1>2, <2>4
    <3> QED
      BY <2>1, <2>4, <3>1 DEF Trees
  <2>8. Refills(W, U)
    <3>. SUFFICES ASSUME NEW a, NEW base, Right(a, base, W)
                  PROVE  Right(Refilled(a, "top", Null), base, U)
      BY DEF Refills
    <3>. DEFINE next == Hydrate(a.held, rows)
    <3>1. IsSeq(rows) /\ Len(rows) = 1 /\ rows[1] = z
      BY <1>6, OneIsSeq
    <3>2. /\ next.held = a.held /\ IsSeq(next.trees) /\ Len(next.trees) = 1
          /\ next.trees[1] = t
      BY <1>1, <3>1, HydrateIs DEF t
    <3>. HIDE DEF next
    <3>3. Right(Lengthened(a, "top", Null, next), base, Append(W, t))
      BY <1>2, <2>1, <2>2, <3>2, LengthenedOne
    <3> QED
      BY <1>3, <3>3 DEF next, U
  <2> QED
    BY <2>6, <2>7, <2>8
<1> QED
  BY <1>4, <1>5, <1>6 DEF R

\* What a take with window W makes of an added tree.
Grown(W, t) ==
    IF Len(W) < shape.limit THEN Placed(W, t)
    ELSE IF Before(Last(W).row, t.row) THEN W
    ELSE Front(Placed(W, t))

LEMMA TopIs == Limit("top") = shape.limit /\ \A r : Key("top", r) = Null
BY DEF Limit, Key

\* TakeAdd makes of its window what Grown says, and tells the view.
LEMMA TakeAddIs ==
    ASSUME Plain, shape.limit > 0, NEW R, Table(R), NEW W, Begins(W, R),
           Len(W) <= shape.limit, NEW t, Numbered(t.row),
           Len(W) > 0 /\ Last(W).row = t.row => Last(W) = t
    PROVE  \A a, base : Right(a, base, W) => Right(TakeAdd(a, "top", t), base, Grown(W, t))
<1>. DEFINE L == shape.limit
            G == Placed(W, t)
<1>1. IsSeq(W) /\ Len(W) \in Nat /\ Tidy(W) /\ L \in Nat
  BY BeginsParts DEF Tidy, Plain
<1>2. Len(G) = Len(W) + 1
  BY <1>1, PlacedIs DEF Inserted
<1>. SUFFICES ASSUME NEW a, NEW base, Right(a, base, W)
              PROVE  Right(TakeAdd(a, "top", t), base, Grown(W, t))
  OBVIOUS
<1>3. Window(a.held, "top", Null) = W /\ IsSeq(a.out) /\ Shows(a.out, base, W)
  BY RightIs
<1>4. TakeAdd(a, "top", t) =
        CASE Len(W) >= L /\ Before(Last(W).row, t.row) -> a
          [] Len(G) <= L ->
                [held |-> Windowed(a.held, "top", Null, G), out |-> Append(a.out, Added(t))]
          [] OTHER ->
                [held |-> Windowed(a.held, "top", Null, Front(G)),
                 out |-> a.out \o <<Added(t), Removed(Last(G).row)>>]
  <2>. DEFINE key == Key("top", t.row)
              window == Window(a.held, "top", key)
              l == Limit("top")
              grown == Placed(window, t)
  <2>1. TakeAdd(a, "top", t) =
          CASE Len(window) >= l /\ Before(Last(window).row, t.row) -> a
            [] Len(grown) <= l ->
                  [held |-> Windowed(a.held, "top", key, grown),
                   out |-> Append(a.out, Added(t))]
            [] OTHER ->
                  [held |-> Windowed(a.held, "top", key, Front(grown)),
                   out |-> a.out \o <<Added(t), Removed(Last(grown).row)>>]
    BY Zenon DEF TakeAdd
  <2>2. key = Null /\ window = W /\ l = L /\ grown = G
    BY <1>3, TopIs
  <2>. HIDE DEF key, window, l, grown, G, L
  <2> QED
    BY <2>1, <2>2
<1>5. Shows(Append(a.out, Added(t)), base, G)
  <2>. DEFINE d == Added(t)
  <2>1. \A v : v.nodes = W => ViewStep(v, d).nodes = G /\ ViewStep(v, d).held = v.held
    BY AddShows
  <2>. HIDE DEF d
  <2>2. Shows(Append(a.out, d), base, G)
    <3>. HIDE DEF G
    <3> QED
      BY <1>3, <2>1, ShowsMore
  <2> QED
    BY <2>2 DEF d
<1>6. CASE Len(W) >= L /\ Before(Last(W).row, t.row)
  <2>1. TakeAdd(a, "top", t) = a
    <3>1. ~(Len(G) <= L)
      <4>. HIDE DEF G
      <4> QED
        BY <1>1, <1>2, <1>6
    <3>. HIDE DEF G
    <3> QED
      BY <1>4, <1>6, <3>1
  <2>2. Grown(W, t) = W
    BY <1>1, <1>6 DEF Grown
  <2> QED
    BY <2>1, <2>2
<1>7. CASE Len(W) < L
  <2>1. TakeAdd(a, "top", t) =
          [held |-> Windowed(a.held, "top", Null, G), out |-> Append(a.out, Added(t))]
    <3>. HIDE DEF G
    <3> QED
      BY <1>1, <1>2, <1>4, <1>7
  <2>2. Grown(W, t) = G
    BY <1>7 DEF Grown
  <2>. HIDE DEF G
  <2>3. Right([held |-> Windowed(a.held, "top", Null, G), out |-> Append(a.out, Added(t))],
              base, G)
    BY <1>5, RightParts
  <2> QED
    BY <2>1, <2>2, <2>3
<1>8. CASE Len(W) >= L /\ ~Before(Last(W).row, t.row)
  <2>. DEFINE d == Added(t)
              e == Removed(Last(G).row)
              F == Front(G)
              out == Append(Append(a.out, d), e)
              ws == Windowed(a.held, "top", Null, F)
  <2>1. Grown(W, t) = F
    BY <1>1, <1>8 DEF Grown
  <2>2. a.out \o <<d, e>> = out
    <3>. DEFINE o == a.out
    <3>1. PICK P : o \in Seq(P)
      BY <1>3 DEF IsSeq
    <3>. HIDE DEF d, e, o
    <3>2. o \in Seq(P \cup {d, e}) /\ d \in P \cup {d, e} /\ e \in P \cup {d, e}
      BY <3>1
    <3>. DEFINE X == P \cup {d, e}
    <3>. HIDE DEF X
    <3>3. o \in Seq(X) /\ d \in X /\ e \in X
      BY <3>2 DEF X
    <3>4. o \o <<d, e>> = Append(Append(o, d), e)
      BY <3>3
    <3> QED
      BY <3>4 DEF o
  <2>3. TakeAdd(a, "top", t) = [held |-> ws, out |-> out]
    <3>1. ~(Len(W) >= L /\ Before(Last(W).row, t.row)) /\ ~(Len(G) <= L)
      <4>. HIDE DEF G
      <4> QED
        BY <1>1, <1>2, <1>8
    <3>. HIDE DEF G, d, e, out
    <3>2. TakeAdd(a, "top", t) =
            [held |-> Windowed(a.held, "top", Null, Front(G)), out |-> a.out \o <<d, e>>]
      BY <1>4, <3>1 DEF d, e
    <3> QED
      BY <2>2, <3>2
  <2>4. Len(W) > 0
    BY <1>1, <1>8 DEF Plain
  <2>5. Last(G) = Last(W)
    BY <1>1, <1>8, <2>4, FrontPlaced
  <2>6. /\ Position(G, Last(W).row) \in 1..(Len(W) + 1)
        /\ RemoveAt(G, Position(G, Last(W).row)) = F
    BY <1>8, <2>4, RemoveLast
  <2>7. \A v : v.nodes = G => ViewStep(v, e).nodes = F /\ ViewStep(v, e).held = v.held
    <3>1. Position(G, Last(G).row) # 0 /\ RemoveAt(G, Position(G, Last(G).row)) = F
      <4>. HIDE DEF G, F
      <4> QED
        BY <1>1, <2>5, <2>6
    <3>. HIDE DEF G, F
    <3> QED
      BY <3>1, RemoveShows
  <2>8. Shows(out, base, F)
    <3>. HIDE DEF G, F, d, e
    <3>1. Shows(Append(a.out, d), base, G)
      BY <1>5 DEF d, G
    <3> QED
      BY <2>7, <3>1, ShowsMore
  <2>. HIDE DEF F, out
  <2>9. Right([held |-> ws, out |-> out], base, F)
    BY <2>8, RightParts
  <2> QED
    BY <2>1, <2>3, <2>9
<1> QED
  BY <1>1, <1>6, <1>7, <1>8

\* What a take with window W makes of a row that went, if a refill of what is
\* left makes U of it.
LEMMA TakeRemoveIs ==
    ASSUME NEW W, IsSeq(W), NEW r, NEW U,
           Position(W, r) = 0 => U = W,
           Position(W, r) # 0 => Refills(RemoveAt(W, Position(W, r)), U)
    PROVE  \A a, base : Right(a, base, W) => Right(TakeRemove(a, "top", r), base, U)
<1>. DEFINE k == Position(W, r)
<1>. SUFFICES ASSUME NEW a, NEW base, Right(a, base, W)
              PROVE  Right(TakeRemove(a, "top", r), base, U)
  OBVIOUS
<1>1. Window(a.held, "top", Null) = W /\ IsSeq(a.out) /\ Shows(a.out, base, W)
  BY RightIs
<1>. DEFINE V == RemoveAt(W, k)
            d == Removed(r)
            out == Append(a.out, d)
            b == [held |-> Windowed(a.held, "top", Null, V), out |-> out]
<1>2. TakeRemove(a, "top", r) = IF k = 0 THEN a ELSE Refilled(b, "top", Null)
  BY <1>1, TopIs DEF TakeRemove
<1>3. CASE k = 0
  BY <1>2, <1>3
<1>4. CASE k # 0
  <2>1. \A v : v.nodes = W => ViewStep(v, d).nodes = V /\ ViewStep(v, d).held = v.held
    BY <1>4, RemoveShows
  <2>2. Shows(out, base, V)
    <3>. HIDE DEF V, d
    <3> QED
      BY <1>1, <2>1, ShowsMore
  <2>3. Right(b, base, V)
    <3>. HIDE DEF V, out
    <3> QED
      BY <2>2, RightParts
  <2>4. Refills(V, U)
    BY <1>4
  <2>5. TakeRemove(a, "top", r) = Refilled(b, "top", Null)
    BY <1>2, <1>4
  <2>. HIDE DEF V, b
  <2>6. Right(Refilled(b, "top", Null), base, U)
    BY <2>3, <2>4 DEF Refills
  <2> QED
    BY <2>5, <2>6
<1> QED
  BY <1>3, <1>4

\* A list that is what the query over R and N gives.
Good(ts, R, N) == Fills(ts, R, shape.limit) /\ Trees(ts, N)

\* The delta d takes the view, and the take before it, from ts to us.
Moves(d, ts, us) ==
    IF shape.limit = 0
    THEN \A v : v.nodes = ts => ViewStep(v, d).nodes = us /\ ViewStep(v, d).held = v.held
    ELSE \A a, base : Right(a, base, ts) => Right(TakeStep(a, "top", d), base, us)

\* There is a list the query over R and N gives, and d takes ts to it.
Reaches(d, ts, R, N) == \E us : Good(us, R, N) /\ Moves(d, ts, us)

\* A list that begins a table is sorted and holds no row twice.
LEMMA BeginsTidy ==
    ASSUME NEW R, Table(R), NEW ts, Begins(ts, R)
    PROVE  /\ Tidy(ts) /\ IsSeq(ts) /\ Len(ts) \in Nat
           /\ \A i \in 1..Len(ts) : ts[i].row \in R /\ Numbered(ts[i].row)
           /\ \A i, j \in 1..Len(ts) : i < j => Before(ts[i].row, ts[j].row)
           /\ \A i, j \in 1..Len(ts) : ts[i].row = ts[j].row => i = j
BY BeginsParts DEF Tidy

\* Before goes by the key and the column alone.
LEMMA Twins ==
    ASSUME NEW r, NEW s, Numbered(r), Numbered(s), r.id = s.id, ~Before(s, r)
    PROVE  \A x : Numbered(x) /\ Before(s, x) => Before(r, x)
BY DEF Before, Numbered

\* r has a key that no row of R has; and what ts leaves out of R comes after r.
Fresh(R, r) == \A s \in R : s.id # r.id
Ahead(R, ts, r) == \A s \in R : ~Holds(ts, s) => Before(r, s)

\* A tree with a new key is placed where what is left out comes after it.
LEMMA PlacedGood ==
    ASSUME NEW R, Table(R), NEW N, NEW ts, Begins(ts, R), Trees(ts, N),
           NEW r, Numbered(r), Fresh(R, r), Ahead(R, ts, r), NEW t, t = TreeOf(r, N)
    PROVE  /\ Begins(Placed(ts, t), R \cup {r}) /\ Trees(Placed(ts, t), N)
           /\ Len(Placed(ts, t)) = Len(ts) + 1
           /\ \A x : Holds(Placed(ts, t), x) <=> Holds(ts, x) \/ x = r
<1>. DEFINE us == Placed(ts, t)
<1>1. t.row = r
  BY DEF TreeOf
<1>2. Begins(us, R \cup {r})
  BY <1>1, PlacedBegins DEF Fresh, Ahead
<1>3. /\ Len(us) = Len(ts) + 1
      /\ \A x : Holds(us, x) <=> Holds(ts, x) \/ x = r
      /\ \A i \in 1..Len(us) : us[i] = t \/ \E j \in 1..Len(ts) : us[i] = ts[j]
  BY <1>1, PlacedParts DEF Fresh
<1>. HIDE DEF us
<1>4. Trees(us, N)
  <2>. SUFFICES ASSUME NEW i \in 1..Len(us) PROVE us[i] = TreeOf(us[i].row, N)
    BY DEF Trees
  <2>1. CASE us[i] = t
    BY <1>1, <2>1
  <2>2. ASSUME NEW j \in 1..Len(ts), us[i] = ts[j] PROVE us[i] = TreeOf(us[i].row, N)
    BY <2>2 DEF Trees
  <2> QED
    BY <1>3, <2>1, <2>2
<1> QED
  BY <1>2, <1>3, <1>4 DEF us

\* The window that grew by a tree is what the query gives with its row.
LEMMA GrownGood ==
    ASSUME Plain, shape.limit > 0, NEW R, Table(R), NEW N, NEW ts, Good(ts, R, N),
           NEW r, Numbered(r), Fresh(R, r), NEW t, t = TreeOf(r, N)
    PROVE  Good(Grown(ts, t), R \cup {r}, N)
<1>. DEFINE L == shape.limit
            Q == R \cup {r}
<1>1. /\ Begins(ts, R) /\ Trees(ts, N) /\ Len(ts) <= L /\ L \in Nat
      /\ Len(ts) < L => \A s \in R : Holds(ts, s)
  BY DEF Good, Fills, Plain
<1>2. /\ Tidy(ts) /\ IsSeq(ts) /\ Len(ts) \in Nat
      /\ \A i \in 1..Len(ts) : ts[i].row \in R /\ Numbered(ts[i].row)
      /\ \A i, j \in 1..Len(ts) : i < j => Before(ts[i].row, ts[j].row)
  BY <1>1, BeginsTidy
<1>3. t.row = r
  BY DEF TreeOf
<1>4. CASE Len(ts) < L
  <2>. DEFINE us == Placed(ts, t)
  <2>1. Ahead(R, ts, r)
    BY <1>1, <1>4 DEF Ahead
  <2>2. /\ Begins(us, Q) /\ Trees(us, N) /\ Len(us) = Len(ts) + 1
        /\ \A x : Holds(us, x) <=> Holds(ts, x) \/ x = r
    BY <1>1, <2>1, PlacedGood
  <2>. HIDE DEF us
  <2>3. \A x \in Q : Holds(us, x)
    BY <1>1, <1>4, <2>2
  <2>4. Good(us, Q, N)
    BY <1>1, <1>2, <1>4, <2>2, <2>3 DEF Good, Fills
  <2>5. Grown(ts, t) = us
    BY <1>4 DEF Grown, us
  <2> QED
    BY <2>4, <2>5
<1>. DEFINE l == Last(ts).row
            n == Len(ts)
<1>5. ASSUME ~(n < L)
      PROVE  /\ n = L /\ n \in 1..n /\ l = ts[n].row /\ l \in R /\ Numbered(l)
             /\ \A i \in 1..n : i # n => Before(ts[i].row, l)
  <2>1. n = L /\ n \in 1..n
    BY <1>1, <1>2, <1>5
  <2>2. l = ts[n].row
    BY DEF Last
  <2>. HIDE DEF l, n
  <2>3. \A i \in 1..n : i # n => Before(ts[i].row, l)
    <3>1. \A i \in 1..n : i # n => i < n
      BY <1>2, <2>1
    <3> QED
      BY <1>2, <2>1, <2>2, <3>1 DEF n
  <2> QED
    BY <1>2, <2>1, <2>2, <2>3 DEF n
<1>6. CASE ~(n < L) /\ Before(l, r)
  <2>1. \A i \in 1..n : Before(ts[i].row, r)
    <3>. HIDE DEF l
    <3>. TAKE i \in 1..n
    <3>1. Numbered(ts[i].row) /\ (i = n \/ Before(ts[i].row, l))
      BY <1>2, <1>5, <1>6
    <3> QED
      BY <1>5, <1>6, <3>1, Ordered
  <2>2. Begins(ts, Q)
    BY <1>1, <2>1, BeginsElsewhere
  <2>3. Good(ts, Q, N)
    BY <1>1, <1>5, <1>6, <2>2 DEF Good, Fills
  <2>4. Grown(ts, t) = ts
    BY <1>3, <1>6 DEF Grown
  <2> QED
    BY <2>3, <2>4
<1>7. CASE ~(n < L) /\ ~Before(l, r)
  <2>. DEFINE V == Front(ts)
              us == Placed(V, t)
  <2>1. n > 0
    BY <1>5, <1>7
  <2>2. /\ Begins(V, R) /\ Len(V) = n - 1
        /\ \A i \in 1..(n - 1) : V[i] = ts[i] /\ i \in 1..n
        /\ \A s : Holds(V, s) <=> Holds(ts, s) /\ s # l
    BY <1>1, <2>1, FrontBegins
  <2>3. Front(Placed(ts, t)) = us
    BY <1>2, <1>3, <1>7, <2>1, FrontPlaced
  <2>. HIDE DEF V
  <2>4. Trees(V, N)
    BY <1>1, <2>2 DEF Trees
  <2>5. \A s \in R : ~Holds(V, s) => Before(r, s)
    <3>. HIDE DEF l
    <3>. TAKE s \in R
    <3>. HAVE ~Holds(V, s)
    <3>1. Numbered(s) /\ s.id # r.id /\ Numbered(l) /\ l \in R /\ l.id # r.id
      BY <1>5, <1>7 DEF Table, Fresh
    <3>2. CASE s = l
      BY <1>7, <3>1, <3>2, Ordered
    <3>3. CASE s # l
      <4>1. ~Holds(ts, s)
        BY <2>2, <3>3
      <4>2. Before(l, s)
        BY <1>1, <1>5, <1>7, <4>1 DEF Begins
      <4> QED
        BY <1>7, <3>1, <4>2, Ordered
    <3> QED
      BY <3>2, <3>3
  <2>6. Begins(us, Q) /\ Trees(us, N) /\ Len(us) = Len(V) + 1
    <3>1. Begins(V, R) /\ Ahead(R, V, r)
      BY <2>2, <2>5 DEF Ahead
    <3>. HIDE DEF l, n
    <3> QED
      BY <2>4, <3>1, PlacedGood
  <2>. HIDE DEF us
  <2>7. Good(us, Q, N)
    <3>1. Len(us) = L
      BY <1>5, <1>7, <1>2, <2>2, <2>6
    <3> QED
      BY <1>1, <2>6, <3>1 DEF Good, Fills
  <2>8. Grown(ts, t) = us
    BY <1>3, <1>7, <2>3 DEF Grown
  <2> QED
    BY <2>7, <2>8
<1> QED
  BY <1>4, <1>6, <1>7

\* A tree taken out leaves a list that begins the table without its row.
LEMMA RemovedGood ==
    ASSUME NEW R, Table(R), NEW N, NEW ts, Begins(ts, R), Trees(ts, N), NEW k \in 1..Len(ts)
    PROVE  /\ Begins(RemoveAt(ts, k), R \ {ts[k].row}) /\ Trees(RemoveAt(ts, k), N)
           /\ Len(RemoveAt(ts, k)) = Len(ts) - 1
           /\ \A x : Holds(RemoveAt(ts, k), x) <=> Holds(ts, x) /\ x # ts[k].row
           /\ Among(RemoveAt(ts, k), ts)
<1>. DEFINE us == RemoveAt(ts, k)
<1>1. /\ Begins(us, R \ {ts[k].row}) /\ Len(us) = Len(ts) - 1
      /\ \A x : Holds(us, x) <=> Holds(ts, x) /\ x # ts[k].row
      /\ Among(us, ts)
  BY RemovedParts
<1>. HIDE DEF us
<1>2. Trees(us, N)
  BY <1>1 DEF Trees, Among
<1> QED
  BY <1>1, <1>2 DEF us

\* Where a row is, or that it is nowhere.
LEMMA At ==
    ASSUME NEW ts, IsSeq(ts), NEW r
    PROVE  \/ Position(ts, r) = 0 /\ ~Holds(ts, r)
           \/ Position(ts, r) \in 1..Len(ts) /\ ts[Position(ts, r)].row = r /\ Holds(ts, r)
<1>. DEFINE k == Position(ts, r)
<1>1. \/ k = 0 /\ \A i \in 1..Len(ts) : ts[i].row # r
      \/ k \in 1..Len(ts) /\ ts[k].row = r
  BY PositionParts
<1>. HIDE DEF k
<1> QED
  BY <1>1 DEF Holds, k

\* A row that came to the query takes the view to what the query gives with it.
LEMMA AddMoves ==
    ASSUME Plain, NEW R, Table(R), NEW N, NEW ts, Good(ts, R, N),
           NEW r, Numbered(r), Fresh(R, r)
    PROVE  Reaches(Added(TreeOf(r, N)), ts, R \cup {r}, N)
<1>. DEFINE t == TreeOf(r, N)
            d == Added(t)
<1>1. t.row = r /\ d.op = "add" /\ d.tree = t
  BY DEF TreeOf, Added
<1>2. Begins(ts, R) /\ Trees(ts, N)
  BY DEF Good, Fills
<1>3. CASE shape.limit = 0
  <2>. DEFINE us == Placed(ts, t)
  <2>1. \A s \in R : Holds(ts, s)
    BY <1>3 DEF Good, Fills
  <2>2. /\ Begins(us, R \cup {r}) /\ Trees(us, N)
        /\ \A x : Holds(us, x) <=> Holds(ts, x) \/ x = r
    <3>1. Ahead(R, ts, r)
      BY <2>1 DEF Ahead
    <3>. HIDE DEF t
    <3>2. t = TreeOf(r, N)
      BY DEF t
    <3> QED
      BY <1>2, <3>1, <3>2, PlacedGood
  <2>3. Good(us, R \cup {r}, N)
    <3>. HIDE DEF us
    <3> QED
      BY <1>3, <2>1, <2>2 DEF Good, Fills
  <2>4. Moves(d, ts, us)
    BY <1>3, AddShows DEF Moves
  <2>. HIDE DEF us, d
  <2>5. Reaches(d, ts, R \cup {r}, N)
    BY <2>3, <2>4 DEF Reaches
  <2> QED
    BY <2>5 DEF d
<1>4. CASE shape.limit # 0
  <2>. DEFINE us == Grown(ts, t)
  <2>0. shape.limit \in Nat /\ shape.limit > 0
    BY <1>4 DEF Plain
  <2>1. Len(ts) <= shape.limit /\ Len(ts) \in Nat /\ IsSeq(ts)
    BY <1>2, <2>0, BeginsTidy DEF Good, Fills
  <2>2. Len(ts) > 0 /\ Last(ts).row = t.row => Last(ts) = t
    <3>. HAVE Len(ts) > 0 /\ Last(ts).row = t.row
    <3>1. Len(ts) \in 1..Len(ts)
      BY <2>1
    <3> QED
      BY <1>1, <1>2, <3>1 DEF Trees, Last
  <2>3. Good(us, R \cup {r}, N)
    BY <2>0, GrownGood
  <2>4. Moves(d, ts, us)
    <3>1. \A a, base : Right(a, base, ts) => Right(TakeAdd(a, "top", t), base, us)
      <4>. HIDE DEF t
      <4> QED
        BY <1>1, <1>2, <2>0, <2>1, <2>2, TakeAddIs
    <3>2. \A a : TakeStep(a, "top", d) = TakeAdd(a, "top", t)
      <4>. HIDE DEF d, t
      <4> QED
        BY <1>1 DEF TakeStep
    <3>. HIDE DEF d, t, us
    <3> QED
      BY <1>4, <3>1, <3>2 DEF Moves
  <2>. HIDE DEF us, d
  <2>5. Reaches(d, ts, R \cup {r}, N)
    BY <2>3, <2>4 DEF Reaches
  <2> QED
    BY <2>5 DEF d
<1> QED
  BY <1>3, <1>4

\* A window of the query, as long as it should be but for one, or all there is,
\* gets back to what the query gives.
LEMMA RefillGood ==
    ASSUME Plain, shape.limit # 0, NEW W, Begins(W, Matching(songs)), Trees(W, notes),
           \/ Len(W) = shape.limit - 1
           \/ Len(W) <= shape.limit /\ \A r \in Matching(songs) : Holds(W, r)
    PROVE  \E U : Good(U, Matching(songs), notes) /\ Refills(W, U)
<1>1. shape.limit > 0
  BY DEF Plain
<1>2. PICK U : /\ Fills(U, Matching(songs), shape.limit) /\ Trees(U, notes)
               /\ Refills(W, U)
  BY <1>1, RefilledIs
<1> QED
  BY <1>2 DEF Good

\* So does a row that left it, refilled from the store.
LEMMA RemoveMoves ==
    ASSUME Plain, NEW R, Table(R), NEW ts, Good(ts, R, notes), NEW r \in R,
           Matching(songs) = R \ {r}
    PROVE  Reaches(Removed(r), ts, R \ {r}, notes)
<1>. DEFINE d == Removed(r)
            k == Position(ts, r)
            Q == R \ {r}
            W == RemoveAt(ts, k)
<1>1. d.op = "remove" /\ d.row = r
  BY DEF Removed
<1>2. Begins(ts, R) /\ Trees(ts, notes) /\ shape.limit \in Nat
  BY DEF Good, Fills, Plain
<1>3. IsSeq(ts) /\ Len(ts) \in Nat
  BY <1>2, BeginsTidy
<1>4. \/ k = 0 /\ ~Holds(ts, r)
      \/ k \in 1..Len(ts) /\ ts[k].row = r /\ Holds(ts, r)
  BY <1>3, At
<1>5. k # 0 => /\ Begins(W, Q) /\ Trees(W, notes) /\ Len(W) = Len(ts) - 1
               /\ \A x : Holds(W, x) <=> Holds(ts, x) /\ x # r
  <2>. HAVE k # 0
  <2>. HIDE DEF k
  <2>1. k \in 1..Len(ts) /\ ts[k].row = r
    BY <1>4
  <2> QED
    BY <1>2, <2>1, RemovedGood
<1>6. CASE shape.limit = 0
  <2>1. \A s \in R : Holds(ts, s)
    BY <1>6 DEF Good, Fills
  <2>2. k # 0
    <3>1. Holds(ts, r)
      BY <2>1
    <3>. HIDE DEF k
    <3>2. ~(k = 0 /\ ~Holds(ts, r))
      BY <3>1
    <3>3. k \in 1..Len(ts)
      BY <1>4, <3>1
    <3> QED
      BY <3>3
  <2>3. Good(W, Q, notes)
    <3>. HIDE DEF W, k
    <3> QED
      BY <1>5, <1>6, <2>1, <2>2 DEF Good, Fills
  <2>4. Moves(d, ts, W)
    BY <1>6, <2>2, RemoveShows DEF Moves
  <2>. HIDE DEF W, d
  <2>5. Reaches(d, ts, Q, notes)
    BY <2>3, <2>4 DEF Reaches
  <2> QED
    BY <2>5 DEF d
<1>7. CASE shape.limit # 0
  <2>1. \E us : Good(us, Q, notes) /\ (k = 0 => us = ts) /\ (k # 0 => Refills(W, us))
    <3>1. CASE k = 0
      <4>1. ~Holds(ts, r)
        BY <1>4, <3>1
      <4>2. Begins(ts, Q)
        BY <1>2, <4>1, BeginsElsewhere
      <4>3. Good(ts, Q, notes)
        BY <1>2, <4>2 DEF Good, Fills
      <4> QED
        BY <3>1, <4>3
    <3>2. CASE k # 0
      <4>. HIDE DEF W, k
      <4>1. \/ Len(W) = shape.limit - 1
            \/ Len(W) <= shape.limit /\ \A s \in Q : Holds(W, s)
        <5>1. Len(ts) = shape.limit \/ Len(ts) < shape.limit
          BY <1>2, <1>3, <1>7 DEF Good, Fills
        <5>2. Len(ts) < shape.limit => \A s \in R : Holds(ts, s)
          BY DEF Good, Fills
        <5> QED
          BY <1>2, <1>3, <1>5, <3>2, <5>1, <5>2
      <4>2. Begins(W, Matching(songs)) /\ Trees(W, notes)
        BY <1>5, <3>2
      <4>3. PICK U : Good(U, Matching(songs), notes) /\ Refills(W, U)
        BY <1>7, <4>1, <4>2, RefillGood
      <4> QED
        BY <3>2, <4>3
    <3> QED
      BY <3>1, <3>2
  <2>2. PICK us : Good(us, Q, notes) /\ (k = 0 => us = ts) /\ (k # 0 => Refills(W, us))
    BY <2>1
  <2>3. \A a, base : Right(a, base, ts) => Right(TakeRemove(a, "top", r), base, us)
    BY <1>3, <2>2, TakeRemoveIs
  <2>4. \A a : TakeStep(a, "top", d) = TakeRemove(a, "top", r)
    <3>. HIDE DEF d
    <3> QED
      BY <1>1 DEF TakeStep
  <2>. HIDE DEF d
  <2>5. Moves(d, ts, us)
    BY <1>7, <2>3, <2>4 DEF Moves
  <2>6. Reaches(d, ts, Q, notes)
    BY <2>2, <2>5 DEF Reaches
  <2> QED
    BY <2>6 DEF d
<1> QED
  BY <1>6, <1>7

\* Taking old out of the window W ends, with a refill if it was there, in a
\* list that the query over Q gives.
Settles(W, old, Q) ==
    /\ IsSeq(W)
    /\ \E us : /\ Good(us, Q, notes)
               /\ Position(W, old) = 0 => us = W
               /\ Position(W, old) # 0 => Refills(RemoveAt(W, Position(W, old)), us)

\* A row that is in no window needs no refill.
LEMMA SettlesGone ==
    ASSUME NEW W, IsSeq(W), NEW old, ~Holds(W, old), NEW Q, Good(W, Q, notes)
    PROVE  Settles(W, old, Q)
<1>1. Position(W, old) = 0
  BY At
<1> QED
  BY <1>1 DEF Settles

\* One that was in it is made up for.
LEMMA SettlesRefilled ==
    ASSUME Plain, shape.limit # 0, NEW W, IsSeq(W), NEW old, Position(W, old) # 0,
           NEW V, V = RemoveAt(W, Position(W, old)),
           Begins(V, Matching(songs)), Trees(V, notes),
           \/ Len(V) = shape.limit - 1
           \/ Len(V) <= shape.limit /\ \A r \in Matching(songs) : Holds(V, r)
    PROVE  Settles(W, old, Matching(songs))
<1>1. PICK U : Good(U, Matching(songs), notes) /\ Refills(V, U)
  BY RefillGood
<1> QED
  BY <1>1 DEF Settles

\* A row edited within a window that holds it, where what is left out comes
\* after it.
LEMMA SwapGood ==
    ASSUME NEW R, Table(R), NEW X, Begins(X, R), Trees(X, notes),
           NEW old \in R, NEW r, Numbered(r), r.id = old.id, Holds(X, old),
           Ahead(R, X, r), NEW t, t = TreeOf(r, notes),
           NEW k, k = Position(Placed(X, t), old),
           NEW W, W = RemoveAt(Placed(X, t), k)
    PROVE  /\ k # 0 /\ IsSeq(Placed(X, t))
           /\ Begins(W, (R \ {old}) \cup {r}) /\ Trees(W, notes) /\ Len(W) = Len(X)
           /\ \A x : Holds(W, x) <=> (Holds(X, x) /\ x # old) \/ x = r
<1>1. t.row = r
  BY DEF TreeOf
<1>2. Tidy(X) /\ Len(X) \in Nat
  BY BeginsTidy
<1>3. PICK q \in 1..Len(X) : X[q].row = old
  BY DEF Holds
<1>4. X[q].row = t.row => X[q] = t
  BY <1>1, <1>3 DEF Trees
<1>5. k \in 1..(Len(X) + 1) /\ W = Placed(RemoveAt(X, q), t)
  <2>1. X[q].row.id = t.row.id
    BY <1>1, <1>3
  <2>2. /\ Position(Placed(X, t), X[q].row) \in 1..(Len(X) + 1)
        /\ RemoveAt(Placed(X, t), Position(Placed(X, t), X[q].row))
             = Placed(RemoveAt(X, q), t)
    BY <1>1, <1>4, <2>1, Swapped
  <2> QED
    BY <1>3, <2>2
<1>. DEFINE V == RemoveAt(X, q)
            P == R \ {old}
<1>6. /\ Begins(V, P) /\ Trees(V, notes) /\ Len(V) = Len(X) - 1
      /\ \A x : Holds(V, x) <=> Holds(X, x) /\ x # old
  BY <1>3, RemovedGood
<1>. HIDE DEF V
<1>7. Table(P)
  BY SubTable
<1>8. Fresh(P, r)
  BY DEF Table, Keyed, Fresh
<1>9. Ahead(P, V, r)
  BY <1>6 DEF Ahead
<1>10. /\ Begins(Placed(V, t), P \cup {r}) /\ Trees(Placed(V, t), notes)
       /\ Len(Placed(V, t)) = Len(V) + 1
       /\ \A x : Holds(Placed(V, t), x) <=> Holds(V, x) \/ x = r
  <2>1. Begins(V, P) /\ Trees(V, notes)
    BY <1>6
  <2>. HIDE DEF P
  <2> QED
    BY <1>7, <1>8, <1>9, <2>1, PlacedGood, SMTT(60)
<1>11. k # 0 /\ W = Placed(V, t)
  BY <1>2, <1>5 DEF V
<1>12. IsSeq(Placed(X, t))
  BY <1>1, <1>2, PlacedIs DEF Inserted
<1>13. Begins(W, P \cup {r}) /\ Trees(W, notes) /\ Len(W) = Len(X)
  BY <1>2, <1>6, <1>10, <1>11
<1>14. \A x : Holds(W, x) <=> (Holds(X, x) /\ x # old) \/ x = r
  BY <1>6, <1>10, <1>11
<1> QED
  BY <1>11, <1>12, <1>13, <1>14

\* The window an edit leaves, from the one that the added row grew.
LEMMA EditSettles ==
    ASSUME Plain, shape.limit # 0, NEW R, Table(R), NEW ts, Good(ts, R, notes),
           NEW old \in R, NEW r, Numbered(r), r.id = old.id,
           Matching(songs) = (R \ {old}) \cup {r},
           NEW t, t = TreeOf(r, notes)
    PROVE  Settles(Grown(ts, t), old, Matching(songs))
<1>. DEFINE L == shape.limit
            Q == Matching(songs)
            n == Len(ts)
            l == Last(ts).row
<1>0. t.row = r /\ L \in Nat /\ L > 0
  BY DEF TreeOf, Plain
<1>1. /\ Begins(ts, R) /\ Trees(ts, notes) /\ n <= L
      /\ n < L => \A s \in R : Holds(ts, s)
  BY <1>0 DEF Good, Fills
<1>2. /\ Tidy(ts) /\ IsSeq(ts) /\ n \in Nat
      /\ \A i \in 1..n : ts[i].row \in R /\ Numbered(ts[i].row)
      /\ \A i, j \in 1..n : i < j => Before(ts[i].row, ts[j].row)
      /\ \A i, j \in 1..n : ts[i].row = ts[j].row => i = j
  BY <1>1, BeginsTidy
<1>3. Numbered(old) /\ \A s \in R : s.id = r.id => s = old
  BY DEF Table, Keyed
<1>. HIDE DEF Q
<1>4. Q = (R \ {old}) \cup {r}
  BY DEF Q
<1>5. CASE n < L
  <2>1. Grown(ts, t) = Placed(ts, t)
    BY <1>5 DEF Grown
  <2>. DEFINE W1 == Placed(ts, t)
              k == Position(W1, old)
              W == RemoveAt(W1, k)
  <2>2. Holds(ts, old) /\ Ahead(R, ts, r)
    BY <1>1, <1>5 DEF Ahead
  <2>3. /\ k # 0 /\ IsSeq(W1) /\ Begins(W, Q) /\ Trees(W, notes) /\ Len(W) = n
        /\ \A x : Holds(W, x) <=> (Holds(ts, x) /\ x # old) \/ x = r
    BY <1>1, <1>4, <2>2, SwapGood, SMTT(60)
  <2>4. \A x \in Q : Holds(W, x)
    <3>. HIDE DEF W
    <3> QED
      BY <1>1, <1>4, <1>5, <2>3
  <2>5. Settles(W1, old, Q)
    <3>. HIDE DEF W1
    <3>1. Len(W) <= L
      BY <1>1, <2>3
    <3> QED
      BY <2>3, <2>4, <3>1, SettlesRefilled DEF Q
  <2> QED
    BY <2>1, <2>5 DEF Q
<1>6. ASSUME ~(n < L)
      PROVE  /\ n = L /\ n > 0 /\ n \in 1..n /\ l = ts[n].row /\ l \in R /\ Numbered(l)
             /\ \A i \in 1..n : i # n => Before(ts[i].row, l)
             /\ \A s \in R : ~Holds(ts, s) => Before(l, s)
  <2>1. n = L /\ n \in 1..n
    BY <1>0, <1>1, <1>2, <1>6
  <2>2. l = ts[n].row
    BY DEF Last
  <2>. HIDE DEF l
  <2>3. \A i \in 1..n : i # n => Before(ts[i].row, l)
    <3>1. \A i \in 1..n : i # n => i < n
      BY <1>2, <2>1
    <3> QED
      BY <1>2, <2>1, <2>2, <3>1
  <2>4. \A s \in R : ~Holds(ts, s) => Before(l, s)
    BY <1>1, <2>1, <2>2 DEF Begins
  <2> QED
    BY <1>0, <1>2, <2>1, <2>2, <2>3, <2>4
<1>7. CASE ~(n < L) /\ Before(l, r)
  <2>1. Grown(ts, t) = ts
    BY <1>0, <1>7 DEF Grown
  <2>2. \A i \in 1..n : Before(ts[i].row, r)
    <3>. HIDE DEF l, n
    <3>. TAKE i \in 1..n
    <3>1. Numbered(ts[i].row) /\ (i = n \/ Before(ts[i].row, l))
      BY <1>2, <1>6, <1>7 DEF n
    <3> QED
      BY <1>6, <1>7, <3>1, Ordered
  <2>3. CASE ~Holds(ts, old)
    <3>1. Begins(ts, R \ {old})
      BY <1>1, <2>3, BeginsElsewhere
    <3>2. Begins(ts, (R \ {old}) \cup {r})
      BY <2>2, <3>1, BeginsElsewhere
    <3>3. Good(ts, Q, notes)
      BY <1>0, <1>1, <1>4, <1>6, <1>7, <3>2 DEF Good, Fills
    <3>4. Settles(ts, old, Q)
      BY <1>2, <2>3, <3>3, SettlesGone
    <3> QED
      BY <2>1, <3>4 DEF Q
  <2>4. CASE Holds(ts, old)
    <3>. DEFINE k == Position(ts, old)
                W == RemoveAt(ts, k)
    <3>1. k \in 1..n /\ ts[k].row = old
      BY <1>2, <2>4, At
    <3>. HIDE DEF k
    <3>2. /\ Begins(W, R \ {old}) /\ Trees(W, notes) /\ Len(W) = n - 1
          /\ Among(W, ts)
      BY <1>1, <3>1, RemovedGood
    <3>. HIDE DEF W
    <3>3. \A i \in 1..Len(W) : Before(W[i].row, r)
      BY <2>2, <3>2 DEF Among
    <3>4. Begins(W, (R \ {old}) \cup {r})
      BY <3>2, <3>3, BeginsElsewhere
    <3>5. Len(W) = L - 1 /\ k # 0
      BY <1>2, <1>6, <1>7, <3>1, <3>2
    <3>6. Settles(ts, old, Q)
      BY <1>2, <1>4, <3>2, <3>4, <3>5, SettlesRefilled DEF k, W, Q
    <3> QED
      BY <2>1, <3>6 DEF Q
  <2> QED
    BY <2>3, <2>4
<1>8. CASE ~(n < L) /\ ~Before(l, r)
  <2>. DEFINE V == Front(ts)
              W1 == Placed(V, t)
  <2>1. Grown(ts, t) = W1
    <3>1. Front(Placed(ts, t)) = W1
      BY <1>0, <1>2, <1>6, <1>8, FrontPlaced
    <3> QED
      BY <1>0, <1>8, <3>1 DEF Grown
  <2>2. /\ Begins(V, R) /\ Len(V) = n - 1
        /\ \A i \in 1..(n - 1) : V[i] = ts[i] /\ i \in 1..n
        /\ \A s : Holds(V, s) <=> Holds(ts, s) /\ s # l
    BY <1>1, <1>6, <1>8, FrontBegins
  <2>. HIDE DEF V
  <2>3. Trees(V, notes)
    BY <1>1, <2>2 DEF Trees
  <2>4. Tidy(V) /\ IsSeq(V) /\ Len(V) = L - 1
    <3>1. Begins(V, R)
      BY <2>2
    <3> QED
      BY <1>6, <1>8, <2>2, <3>1, BeginsTidy
  <2>5. \A s \in R : ~Holds(V, s) /\ s # old => Before(r, s)
    <3>. HIDE DEF l
    <3>. TAKE s \in R
    <3>. HAVE ~Holds(V, s) /\ s # old
    <3>0. s = l \/ ~Holds(ts, s)
      BY <2>2
    <3>1. Numbered(s) /\ s.id # r.id /\ Numbered(l) /\ l \in R
      BY <1>3, <1>6, <1>8 DEF Table
    <3>2. CASE s = l
      BY <1>8, <3>1, <3>2, Ordered
    <3>3. CASE s # l
      <4>1. Before(l, s)
        BY <1>6, <1>8, <3>0, <3>3
      <4> QED
        BY <1>8, <3>1, <4>1, Ordered
    <3> QED
      BY <3>2, <3>3
  <2>6. CASE Holds(V, old)
    <3>. DEFINE k == Position(W1, old)
                W == RemoveAt(W1, k)
    <3>1. Ahead(R, V, r)
      BY <2>5, <2>6 DEF Ahead
    <3>2. /\ k # 0 /\ IsSeq(W1) /\ Begins(W, Q) /\ Trees(W, notes) /\ Len(W) = Len(V)
      <4>1. Begins(V, R)
        BY <2>2
      <4> QED
        BY <1>4, <2>3, <2>6, <3>1, <4>1, SwapGood
    <3>3. Settles(W1, old, Q)
      <4>. HIDE DEF W1
      <4> QED
        BY <2>4, <3>2, SettlesRefilled DEF Q
    <3> QED
      BY <2>1, <3>3 DEF Q
  <2>7. CASE ~Holds(V, old) /\ old # r
    <3>. DEFINE P == R \ {old}
    <3>1. Begins(V, P)
      BY <2>2, <2>7, BeginsElsewhere
    <3>2. Table(P) /\ Fresh(P, r) /\ P \cup {r} = Q
      BY <1>3, <1>4, SubTable DEF Fresh
    <3>3. Ahead(P, V, r)
      BY <2>5 DEF Ahead
    <3>. HIDE DEF P
    <3>4. /\ Begins(W1, P \cup {r}) /\ Trees(W1, notes) /\ Len(W1) = Len(V) + 1
          /\ \A x : Holds(W1, x) <=> Holds(V, x) \/ x = r
      <4>1. Table(P) /\ Fresh(P, r)
        BY <3>2
      <4> QED
        BY <2>3, <3>1, <3>3, <4>1, PlacedGood
    <3>. HIDE DEF W1
    <3>5. Good(W1, Q, notes)
      <4>1. Len(W1) = L
        BY <1>0, <2>4, <3>4
      <4>2. Begins(W1, Q) /\ Trees(W1, notes)
        BY <3>2, <3>4
      <4> QED
        BY <1>0, <4>1, <4>2 DEF Good, Fills
    <3>6. IsSeq(W1) /\ ~Holds(W1, old)
      BY <2>7, <3>4 DEF Begins
    <3>7. Settles(W1, old, Q)
      BY <3>5, <3>6, SettlesGone
    <3> QED
      BY <2>1, <3>7 DEF Q
  <2>8. CASE ~Holds(V, old) /\ old = r
    <3>. DEFINE k == Position(W1, old)
    <3>1. k \in 1..(Len(V) + 1) /\ RemoveAt(W1, k) = V
      <4>1. ~Holds(V, t.row) /\ Numbered(t.row) /\ t.row = old
        BY <1>0, <2>8
      <4>2. /\ Position(Placed(V, t), t.row) \in 1..(Len(V) + 1)
            /\ RemoveAt(Placed(V, t), Position(Placed(V, t), t.row)) = V
        BY <2>4, <4>1, RemovePlaced
      <4> QED
        BY <4>1, <4>2
    <3>2. IsSeq(W1)
      BY <1>0, <2>4, PlacedIs DEF Inserted
    <3>3. Begins(V, Q)
      <4>1. Q = R
        BY <1>4, <2>8
      <4> QED
        BY <2>2, <4>1
    <3>4. k # 0
      BY <1>0, <2>4, <3>1
    <3>. HIDE DEF W1
    <3>5. Settles(W1, old, Q)
      BY <2>3, <2>4, <3>1, <3>2, <3>3, <3>4, SettlesRefilled DEF Q
    <3> QED
      BY <2>1, <3>5 DEF Q
  <2> QED
    BY <2>6, <2>7, <2>8
<1> QED
  BY <1>5, <1>7, <1>8

\* So does a row that was written over, wherever its new place is.
LEMMA EditMoves ==
    ASSUME Plain, NEW R, Table(R), NEW ts, Good(ts, R, notes),
           NEW old \in R, NEW r, Numbered(r), r.id = old.id,
           Matching(songs) = (R \ {old}) \cup {r}
    PROVE  Reaches(Edited(old, TreeOf(r, notes)), ts, (R \ {old}) \cup {r}, notes)
<1>. DEFINE t == TreeOf(r, notes)
            d == Edited(old, t)
            P == R \ {old}
            Q == P \cup {r}
<1>1. t.row = r /\ d.op = "edit" /\ d.tree = t /\ d.old = old
  BY DEF TreeOf, Edited
<1>2. Begins(ts, R) /\ Trees(ts, notes) /\ shape.limit \in Nat
  BY DEF Good, Fills, Plain
<1>3. IsSeq(ts) /\ Len(ts) \in Nat
  BY <1>2, BeginsTidy
<1>4. CASE shape.limit = 0
  <2>. DEFINE k == Position(ts, old)
              V == RemoveAt(ts, k)
              us == Placed(V, t)
  <2>1. \A s \in R : Holds(ts, s)
    BY <1>4 DEF Good, Fills
  <2>2. k \in 1..Len(ts) /\ ts[k].row = old
    <3>1. Holds(ts, old)
      BY <2>1
    <3> QED
      BY <1>3, <3>1, At
  <2>3. k # 0
    BY <2>2
  <2>. HIDE DEF k
  <2>4. /\ Begins(V, P) /\ Trees(V, notes)
        /\ \A x : Holds(V, x) <=> Holds(ts, x) /\ x # old
    BY <1>2, <2>2, RemovedGood
  <2>. HIDE DEF V
  <2>5. Table(P) /\ Fresh(P, r) /\ Ahead(P, V, r)
    BY <2>1, <2>4, SubTable DEF Table, Keyed, Fresh, Ahead
  <2>6. /\ Begins(us, Q) /\ Trees(us, notes)
        /\ \A x : Holds(us, x) <=> Holds(V, x) \/ x = r
    <3>. HIDE DEF P, t
    <3>1. t = TreeOf(r, notes)
      BY DEF t
    <3> QED
      BY <2>4, <2>5, <3>1, PlacedGood
  <2>7. Good(us, Q, notes)
    <3>. HIDE DEF us
    <3> QED
      BY <1>4, <2>1, <2>4, <2>6 DEF Good, Fills
  <2>8. Moves(d, ts, us)
    <3>1. \A v : v.nodes = ts => ViewStep(v, d).nodes = us /\ ViewStep(v, d).held = v.held
      BY <2>3, EditShows DEF k, V
    <3>. HIDE DEF d, us
    <3> QED
      BY <1>4, <3>1 DEF Moves
  <2>. HIDE DEF us, d, Q
  <2>9. Reaches(d, ts, Q, notes)
    BY <2>7, <2>8 DEF Reaches
  <2> QED
    BY <2>9 DEF d, Q
<1>5. CASE shape.limit # 0
  <2>. DEFINE W == Grown(ts, t)
  <2>0. shape.limit > 0
    BY <1>2, <1>5
  <2>1. Len(ts) <= shape.limit
    BY <2>0 DEF Good, Fills
  <2>2. Len(ts) > 0 /\ Last(ts).row = t.row => Last(ts) = t
    <3>. HAVE Len(ts) > 0 /\ Last(ts).row = t.row
    <3>1. Len(ts) \in 1..Len(ts)
      BY <1>3
    <3> QED
      BY <1>1, <1>2, <3>1 DEF Trees, Last
  <2>3. \A a, base : Right(a, base, ts) => Right(TakeAdd(a, "top", t), base, W)
    <3>. HIDE DEF t
    <3> QED
      BY <1>1, <1>2, <2>0, <2>1, <2>2, TakeAddIs
  <2>4. Settles(W, old, Matching(songs))
    <3>. HIDE DEF t
    <3>1. t = TreeOf(r, notes)
      BY DEF t
    <3> QED
      BY <1>5, <3>1, EditSettles
  <2>. HIDE DEF W
  <2>5. PICK us : /\ Good(us, Matching(songs), notes)
                  /\ Position(W, old) = 0 => us = W
                  /\ Position(W, old) # 0 => Refills(RemoveAt(W, Position(W, old)), us)
    BY <2>4 DEF Settles
  <2>6. \A a, base : Right(a, base, W) => Right(TakeRemove(a, "top", old), base, us)
    <3>1. IsSeq(W)
      BY <2>4 DEF Settles
    <3> QED
      BY <2>5, <3>1, TakeRemoveIs
  <2>7. \A a : TakeStep(a, "top", d) = TakeRemove(TakeAdd(a, "top", t), "top", old)
    <3>. HIDE DEF d, t
    <3> QED
      BY <1>1 DEF TakeStep
  <2>. HIDE DEF d, t
  <2>8. Moves(d, ts, us)
    BY <1>5, <2>3, <2>6, <2>7 DEF Moves
  <2>9. Reaches(d, ts, Q, notes)
    BY <2>5, <2>8 DEF Reaches
  <2> QED
    BY <2>9 DEF d, t
<1> QED
  BY <1>4, <1>5

\* What a child delta does to the view.
LEMMA ChildStep ==
    ASSUME NEW v, NEW d, d.op = "child", NEW k \in Nat, k = Position(v.nodes, d.row)
    PROVE  /\ ViewStep(v, d).held = v.held
           /\ ViewStep(v, d).nodes =
                IF k = 0 THEN v.nodes ELSE ReplaceAt(v.nodes, k, ApplyChild(v.nodes[k], d.change))
<1>. DEFINE old == Position(v.nodes, IF d.op = "edit" THEN d.old ELSE d.row)
            changed == ApplyChild(v.nodes[old], d.change)
            ts == ReplaceAt(v.nodes, old, changed)
            ps == v.patches \o <<Update(old, changed)>>
<1>0. /\ old > 0 => ViewStep(v, d) = [held |-> v.held, nodes |-> ts, patches |-> ps]
      /\ ~(old > 0) => ViewStep(v, d) = v
  BY DEF ViewStep
<1>1. old = k
  OBVIOUS
<1>2. ts = ReplaceAt(v.nodes, k, ApplyChild(v.nodes[k], d.change))
  BY <1>1
<1>. HIDE DEF old, ts, ps
<1> QED
  BY <1>0, <1>1, <1>2

LEMMA ChildShows ==
    ASSUME NEW v, IsSeq(v.nodes), NEW p, NEW e, NEW k, k = Position(v.nodes, p)
    PROVE  /\ ViewStep(v, Child(p, e)).held = v.held
           /\ ViewStep(v, Child(p, e)).nodes =
                IF k = 0 THEN v.nodes ELSE ReplaceAt(v.nodes, k, ApplyChild(v.nodes[k], e))
<1>. DEFINE d == Child(p, e)
<1>1. d.op = "child" /\ d.row = p /\ d.change = e
  BY DEF Child
<1>2. k \in Nat
  BY At, SeqParts
<1>. HIDE DEF d
<1>3. /\ ViewStep(v, d).held = v.held
      /\ ViewStep(v, d).nodes =
            IF k = 0 THEN v.nodes ELSE ReplaceAt(v.nodes, k, ApplyChild(v.nodes[k], e))
  BY <1>1, <1>2, ChildStep
<1> QED
  BY <1>3 DEF d

\* A change of the children of one row, of which the others know nothing.
LEMMA ChildMoves ==
    ASSUME Plain, NEW R, Table(R), NEW N, NEW M, NEW ts, Good(ts, R, N), NEW p \in R, NEW e,
           \A x \in R : x # p => KidsOf(x.id, M) = KidsOf(x.id, N),
           ApplyChild(TreeOf(p, N), e) = TreeOf(p, M)
    PROVE  Reaches(Child(p, e), ts, R, M)
<1>. DEFINE d == Child(p, e)
            k == Position(ts, p)
            u == ApplyChild(ts[k], e)
            us == IF k = 0 THEN ts ELSE ReplaceAt(ts, k, u)
<1>1. d.op = "child" /\ d.row = p /\ d.change = e
  BY DEF Child
<1>2. Begins(ts, R) /\ Trees(ts, N) /\ shape.limit \in Nat
  BY DEF Good, Fills, Plain
<1>3. /\ IsSeq(ts) /\ Len(ts) \in Nat
      /\ \A i \in 1..Len(ts) : ts[i].row \in R
      /\ \A i, j \in 1..Len(ts) : ts[i].row = ts[j].row => i = j
  BY <1>2, BeginsTidy
<1>4. \/ k = 0 /\ ~Holds(ts, p)
      \/ k \in 1..Len(ts) /\ ts[k].row = p
  BY <1>3, At
<1>5. \A i \in 1..Len(ts) : ts[i].row # p => ts[i] = TreeOf(ts[i].row, M)
  BY <1>2, <1>3 DEF Trees, TreeOf
<1>6. Good(us, R, M)
  <2>1. CASE k = 0
    <3>1. \A i \in 1..Len(ts) : ts[i].row # p
      <4>. HIDE DEF k
      <4> QED
        BY <1>4, <2>1 DEF Holds
    <3>2. Trees(ts, M)
      BY <1>5, <3>1 DEF Trees
    <3>. HIDE DEF k, u
    <3> QED
      BY <2>1, <3>2 DEF Good
  <2>2. CASE k # 0
    <3>. HIDE DEF k
    <3>1. k \in 1..Len(ts) /\ ts[k].row = p
      BY <1>4, <2>2
    <3>2. u = TreeOf(p, M)
      BY <1>2, <3>1 DEF Trees
    <3>. HIDE DEF u
    <3>3. u.row = ts[k].row
      BY <3>1, <3>2 DEF TreeOf
    <3>4. Fills(ReplaceAt(ts, k, u), R, shape.limit)
      BY <3>1, <3>3, ReplacedFills DEF Good
    <3>5. /\ Len(ReplaceAt(ts, k, u)) = Len(ts) /\ ReplaceAt(ts, k, u)[k] = u
          /\ \A i \in 1..Len(ts) : i # k => ReplaceAt(ts, k, u)[i] = ts[i]
      BY <1>3, <3>1, ReplaceParts
    <3>6. us = ReplaceAt(ts, k, u)
      BY <2>2
    <3>. HIDE DEF us
    <3>7. Trees(us, M)
      <4>. SUFFICES ASSUME NEW i \in 1..Len(us) PROVE us[i] = TreeOf(us[i].row, M)
        BY DEF Trees
      <4>1. CASE i = k
        BY <3>1, <3>2, <3>3, <3>5, <3>6, <4>1
      <4>2. CASE i # k
        <5>1. i \in 1..Len(ts) /\ us[i] = ts[i]
          BY <3>5, <3>6, <4>2
        <5>2. ts[i].row # p
          BY <1>3, <3>1, <4>2, <5>1
        <5> QED
          BY <1>5, <5>1, <5>2
      <4> QED
        BY <4>1, <4>2
    <3> QED
      BY <3>4, <3>6, <3>7 DEF Good
  <2> QED
    BY <2>1, <2>2
<1>7. \A v : v.nodes = ts => ViewStep(v, d).nodes = us /\ ViewStep(v, d).held = v.held
  <2>. TAKE v
  <2>. HAVE v.nodes = ts
  <2>1. /\ ViewStep(v, d).held = v.held
        /\ ViewStep(v, d).nodes = IF k = 0 THEN v.nodes ELSE ReplaceAt(v.nodes, k, u)
    BY <1>3, ChildShows
  <2>. HIDE DEF k, u, d
  <2> QED
    BY <2>1
<1>8. CASE shape.limit = 0
  <2>. HIDE DEF d, us
  <2>1. Moves(d, ts, us)
    BY <1>7, <1>8 DEF Moves
  <2>2. Reaches(d, ts, R, M)
    BY <1>6, <2>1 DEF Reaches
  <2> QED
    BY <2>2 DEF d
<1>9. CASE shape.limit # 0
  <2>1. ASSUME NEW a, NEW base, Right(a, base, ts)
        PROVE  Right(TakeStep(a, "top", d), base, us)
    <3>1. Window(a.held, "top", Null) = ts /\ IsSeq(a.out) /\ Shows(a.out, base, ts)
      BY <2>1, RightIs
    <3>2. TakeStep(a, "top", d) = TakeChild(a, "top", d)
      <4>. HIDE DEF d
      <4> QED
        BY <1>1 DEF TakeStep
    <3>. DEFINE out == Append(a.out, d)
                b == [held |-> Windowed(a.held, "top", Null, us), out |-> out]
    <3>3. TakeChild(a, "top", d) = IF k = 0 THEN a ELSE b
      <4>. DEFINE key == Key("top", d.row)
                  window == Window(a.held, "top", key)
                  at == Position(window, d.row)
      <4>1. TakeChild(a, "top", d) =
              IF at = 0 THEN a
              ELSE [held |-> Windowed(a.held, "top", key,
                                 ReplaceAt(window, at, ApplyChild(window[at], d.change))),
                    out |-> Append(a.out, d)]
        BY DEF TakeChild
      <4>2. key = Null
        BY TopIs
      <4>3. window = ts
        BY <3>1, <4>2
      <4>4. at = k
        BY <1>1, <4>3
      <4>5. ApplyChild(window[at], d.change) = u
        BY <1>1, <4>3, <4>4
      <4>. HIDE DEF key, window, at, d, k, u
      <4> QED
        BY <4>1, <4>2, <4>3, <4>4, <4>5
    <3>4. Shows(out, base, us)
      <4>. HIDE DEF d, us
      <4> QED
        BY <1>7, <3>1, ShowsMore
    <3>5. Right(b, base, us)
      <4>. HIDE DEF out, us
      <4> QED
        BY <2>1, <3>4, RightParts
    <3>6. k = 0 => us = ts
      OBVIOUS
    <3>. HIDE DEF b, us, d, k
    <3> QED
      BY <2>1, <3>2, <3>3, <3>5, <3>6
  <2>. HIDE DEF d, us
  <2>2. Moves(d, ts, us)
    BY <1>9, <2>1 DEF Moves
  <2>3. Reaches(d, ts, R, M)
    BY <1>6, <2>2 DEF Reaches
  <2> QED
    BY <2>3 DEF d
<1> QED
  BY <1>8, <1>9

----------------------------------------------------------------------------
(* The children of one row                                                 *)

\* A table with one more row, with a key of its own.
LEMMA GrownTable ==
    ASSUME NEW K, Table(K), NEW k, Numbered(k), Fresh(K, k)
    PROVE  Table(K \cup {k})
<1>1. IsFiniteSet(K \cup {k})
  BY FS_AddElement DEF Table
<1> QED
  BY <1>1 DEF Table, Keyed, Fresh

\* The leaves of a set of rows, by themselves and as what fills no limit.
LEMMA LeavesAre ==
    ASSUME NEW K, Table(K), NEW ks, ks = Leaves(InOrder(K))
    PROVE  /\ Fills(ks, K, 0) /\ Begins(ks, K) /\ IsSeq(ks)
           /\ \A r \in K : Holds(ks, r)
           /\ \A i \in 1..Len(ks) : ks[i] = Leaf(ks[i].row)
<1>1. Fills(ks, K, 0)
  BY LeavesFill
<1>2. IsSeq(InOrder(K))
  BY InOrderIs
<1>3. \A i \in 1..Len(ks) : ks[i] = Leaf(InOrder(K)[i])
  BY <1>2, LeavesParts
<1>4. Begins(ks, K)
  BY <1>1 DEF Fills
<1>5. IsSeq(ks)
  BY <1>4 DEF Begins
<1> QED
  BY <1>1, <1>3, <1>4, <1>5, LeafRow DEF Fills

\* A leaf placed among the children of a parent is one more row pulled.
LEMMA ListAdd ==
    ASSUME NEW K, Table(K), NEW k, Numbered(k), Fresh(K, k)
    PROVE  Placed(Leaves(InOrder(K)), Leaf(k)) = Leaves(InOrder(K \cup {k}))
<1>. DEFINE ks == Leaves(InOrder(K))
            t == Leaf(k)
            us == Placed(ks, t)
<1>1. t.row = k /\ t = Leaf(t.row)
  BY LeafRow
<1>2. /\ Begins(ks, K) /\ \A r \in K : Holds(ks, r)
      /\ \A i \in 1..Len(ks) : ks[i] = Leaf(ks[i].row)
  BY LeavesAre
<1>. HIDE DEF ks, t
<1>3. /\ Begins(us, K \cup {k})
      /\ \A r : Holds(us, r) <=> Holds(ks, r) \/ r = k
      /\ \A i \in 1..Len(us) : us[i] = t \/ \E j \in 1..Len(ks) : us[i] = ks[j]
  <2>1. \A r \in K : r.id # t.row.id
    BY <1>1 DEF Fresh
  <2>2. Begins(us, K \cup {t.row})
    BY <1>1, <1>2, <2>1, PlacedBegins
  <2>3. /\ \A r : Holds(us, r) <=> Holds(ks, r) \/ r = t.row
        /\ \A i \in 1..Len(us) : us[i] = t \/ \E j \in 1..Len(ks) : us[i] = ks[j]
    BY <1>1, <1>2, <2>1, PlacedParts
  <2> QED
    BY <1>1, <2>2, <2>3
<1>. HIDE DEF us
<1>4. Fills(us, K \cup {k}, 0)
  BY <1>2, <1>3 DEF Fills
<1>5. \A i \in 1..Len(us) : us[i] = Leaf(us[i].row)
  BY <1>1, <1>2, <1>3
<1>6. Table(K \cup {k})
  BY GrownTable
<1>7. us = Leaves(InOrder(K \cup {k}))
  BY <1>4, <1>5, <1>6, FillsLeaves
<1> QED
  BY <1>7 DEF us, ks, t

\* A leaf taken out is one row less.
LEMMA ListRemove ==
    ASSUME NEW K, Table(K), NEW k \in K,
           NEW ks, ks = Leaves(InOrder(K)), NEW p, p = Position(ks, k)
    PROVE  /\ p \in 1..Len(ks) /\ p \in Nat /\ p # 0
           /\ RemoveAt(ks, p) = Leaves(InOrder(K \ {k}))
<1>. DEFINE us == RemoveAt(ks, p)
<1>1. /\ Begins(ks, K) /\ IsSeq(ks) /\ \A r \in K : Holds(ks, r)
      /\ \A i \in 1..Len(ks) : ks[i] = Leaf(ks[i].row)
  BY LeavesAre
<1>2. Len(ks) \in Nat
  BY <1>1, SeqParts
<1>3. p \in 1..Len(ks) /\ ks[p].row = k
  BY <1>1, At
<1>4. /\ Begins(us, K \ {k})
      /\ \A r : Holds(us, r) <=> Holds(ks, r) /\ r # k
      /\ Among(us, ks)
  BY <1>1, <1>3, RemovedParts
<1>. HIDE DEF us
<1>5. Fills(us, K \ {k}, 0)
  BY <1>1, <1>4 DEF Fills
<1>6. \A i \in 1..Len(us) : us[i] = Leaf(us[i].row)
  BY <1>1, <1>4 DEF Among
<1>7. Table(K \ {k})
  BY SubTable
<1>8. us = Leaves(InOrder(K \ {k}))
  BY <1>5, <1>6, <1>7, FillsLeaves
<1> QED
  BY <1>2, <1>3, <1>8 DEF us

\* What a delta of a child does to the children of its parent.
LEMMA ApplyIs ==
    ASSUME NEW x, NEW ks, NEW d
    PROVE  /\ d.op = "add" /\ Position(ks, d.row) = 0 =>
                ApplyChild([row |-> x, kids |-> ks], d) =
                    [row |-> x, kids |-> Placed(ks, d.tree)]
           /\ d.op = "remove" /\ Position(ks, d.row) \in Nat \ {0} =>
                ApplyChild([row |-> x, kids |-> ks], d) =
                    [row |-> x, kids |-> RemoveAt(ks, Position(ks, d.row))]
           /\ d.op = "edit" /\ Position(ks, d.old) \in Nat \ {0} =>
                ApplyChild([row |-> x, kids |-> ks], d) =
                    [row |-> x, kids |-> Placed(RemoveAt(ks, Position(ks, d.old)), d.tree)]
<1>. DEFINE t == [row |-> x, kids |-> ks]
            new == Position(t.kids, d.row)
            at == Position(t.kids, d.old)
            kids ==
                CASE d.op = "add" /\ new > 0 -> ReplaceAt(t.kids, new, d.tree)
                  [] d.op = "add" /\ new = 0 -> Placed(t.kids, d.tree)
                  [] d.op = "remove" /\ new > 0 -> RemoveAt(t.kids, new)
                  [] d.op = "edit" /\ at > 0 -> Placed(RemoveAt(t.kids, at), d.tree)
                  [] OTHER -> t.kids
<1>1. ApplyChild(t, d) = [t EXCEPT !.kids = kids]
  BY DEF ApplyChild
<1>2. new = Position(ks, d.row) /\ at = Position(ks, d.old) /\ t.kids = ks
  OBVIOUS
<1>3. [t EXCEPT !.kids = kids] = [row |-> x, kids |-> kids]
  <2>. HIDE DEF kids
  <2> QED
    OBVIOUS
<1>. HIDE DEF new, at
<1>4. /\ d.op = "add" /\ new = 0 => kids = Placed(t.kids, d.tree)
      /\ d.op = "remove" /\ new \in Nat \ {0} => kids = RemoveAt(t.kids, new)
      /\ d.op = "edit" /\ at \in Nat \ {0} => kids = Placed(RemoveAt(t.kids, at), d.tree)
  OBVIOUS
<1>. HIDE DEF kids
<1> QED
  BY <1>1, <1>2, <1>3, <1>4

\* The change e of the children of o, and of no other, is what makes N of M.
Touches(e, o, N, M) ==
    /\ \A q : q # o => KidRows(q, M) = KidRows(q, N)
    /\ \A x : x.id = o => ApplyChild(TreeOf(x, N), e) = TreeOf(x, M)

\* A note that came, that went, or that was written over under its parent, changes
\* the children of that parent and no others.
LEMMA TouchesAdd ==
    ASSUME NEW N, Table(N), NEW M, NEW k, Numbered(k), Selects(k),
           Fresh(Matching(N), k), Matching(M) = Matching(N) \cup {k}
    PROVE  Touches(Added(Leaf(k)), k.of, N, M)
<1>. DEFINE e == Added(Leaf(k))
<1>1. e.op = "add" /\ e.row = k /\ e.tree = Leaf(k)
  BY LeafRow DEF Added
<1>. HIDE DEF e
<1>2. \A q : q # k.of => KidRows(q, M) = KidRows(q, N)
  BY DEF KidRows, Matching
<1>3. ASSUME NEW x, x.id = k.of
      PROVE  ApplyChild(TreeOf(x, N), e) = TreeOf(x, M)
  <2>. DEFINE K == KidRows(k.of, N)
              ks == Leaves(InOrder(K))
  <2>1. KidRows(k.of, M) = K \cup {k}
    BY DEF KidRows, Matching
  <2>2. K \in SUBSET N /\ Fresh(K, k)
    BY DEF KidRows, Matching, Fresh
  <2>3. TreeOf(x, N) = [row |-> x, kids |-> ks]
    BY <1>3 DEF TreeOf, KidsOf
  <2>4. TreeOf(x, M) = [row |-> x, kids |-> Leaves(InOrder(K \cup {k}))]
    BY <1>3, <2>1 DEF TreeOf, KidsOf
  <2>. HIDE DEF K
  <2>5. Table(K)
    BY <2>2, SubTable
  <2>6. Placed(ks, Leaf(k)) = Leaves(InOrder(K \cup {k}))
    BY <2>2, <2>5, ListAdd
  <2>7. IsSeq(ks) /\ Begins(ks, K)
    BY <2>5, LeavesAre
  <2>. HIDE DEF ks
  <2>8. Position(ks, k) = 0
    <3>1. ~Holds(ks, k)
      BY <2>2, <2>7 DEF Holds, Begins, Fresh
    <3> QED
      BY <2>7, <3>1, At
  <2>9. Position(ks, e.row) = 0 /\ e.op = "add"
    BY <1>1, <2>8
  <2>10. ApplyChild([row |-> x, kids |-> ks], e) = [row |-> x, kids |-> Placed(ks, e.tree)]
    BY <2>9, ApplyIs
  <2> QED
    BY <1>1, <2>3, <2>4, <2>6, <2>10
<1>4. Touches(e, k.of, N, M)
  BY <1>2, <1>3 DEF Touches
<1> QED
  BY <1>4 DEF e

LEMMA TouchesRemove ==
    ASSUME NEW N, Table(N), NEW M, NEW k \in Matching(N), Matching(M) = Matching(N) \ {k}
    PROVE  Touches(Removed(k), k.of, N, M)
<1>. DEFINE e == Removed(k)
<1>1. e.op = "remove" /\ e.row = k
  BY DEF Removed
<1>. HIDE DEF e
<1>2. \A q : q # k.of => KidRows(q, M) = KidRows(q, N)
  BY DEF KidRows, Matching
<1>3. ASSUME NEW x, x.id = k.of
      PROVE  ApplyChild(TreeOf(x, N), e) = TreeOf(x, M)
  <2>. DEFINE K == KidRows(k.of, N)
              ks == Leaves(InOrder(K))
              p == Position(ks, k)
  <2>1. KidRows(k.of, M) = K \ {k}
    BY DEF KidRows, Matching
  <2>2. K \in SUBSET N /\ k \in K
    BY DEF KidRows, Matching
  <2>3. TreeOf(x, N) = [row |-> x, kids |-> ks]
    BY <1>3 DEF TreeOf, KidsOf
  <2>4. TreeOf(x, M) = [row |-> x, kids |-> Leaves(InOrder(K \ {k}))]
    BY <1>3, <2>1 DEF TreeOf, KidsOf
  <2>. HIDE DEF K
  <2>5. Table(K)
    BY <2>2, SubTable
  <2>6. p \in Nat \ {0} /\ RemoveAt(ks, p) = Leaves(InOrder(K \ {k}))
    BY <2>2, <2>5, ListRemove
  <2>. HIDE DEF ks
  <2>7. Position(ks, e.row) \in Nat \ {0} /\ e.op = "remove"
    BY <1>1, <2>6
  <2>8. ApplyChild([row |-> x, kids |-> ks], e) =
            [row |-> x, kids |-> RemoveAt(ks, Position(ks, e.row))]
    BY <2>7, ApplyIs
  <2>9. Position(ks, e.row) = p
    BY <1>1
  <2> QED
    BY <1>1, <2>3, <2>4, <2>6, <2>8, <2>9
<1>4. Touches(e, k.of, N, M)
  BY <1>2, <1>3 DEF Touches
<1> QED
  BY <1>4 DEF e

LEMMA TouchesEdit ==
    ASSUME NEW N, Table(N), NEW M, NEW old \in Matching(N), NEW k, Numbered(k), Selects(k),
           k.id = old.id, k.of = old.of, Matching(M) = (Matching(N) \ {old}) \cup {k}
    PROVE  Touches(Edited(old, Leaf(k)), k.of, N, M)
<1>. DEFINE e == Edited(old, Leaf(k))
<1>1. e.op = "edit" /\ e.old = old /\ e.tree = Leaf(k)
  BY DEF Edited
<1>. HIDE DEF e
<1>2. \A q : q # k.of => KidRows(q, M) = KidRows(q, N)
  BY DEF KidRows, Matching
<1>3. ASSUME NEW x, x.id = k.of
      PROVE  ApplyChild(TreeOf(x, N), e) = TreeOf(x, M)
  <2>. DEFINE K == KidRows(k.of, N)
              L == K \ {old}
              ks == Leaves(InOrder(K))
              p == Position(ks, old)
              ls == Leaves(InOrder(L))
  <2>1. KidRows(k.of, M) = L \cup {k}
    BY DEF KidRows, Matching
  <2>2. K \in SUBSET N /\ old \in K
    BY DEF KidRows, Matching
  <2>3. TreeOf(x, N) = [row |-> x, kids |-> ks]
    BY <1>3 DEF TreeOf, KidsOf
  <2>4. TreeOf(x, M) = [row |-> x, kids |-> Leaves(InOrder(L \cup {k}))]
    BY <1>3, <2>1 DEF TreeOf, KidsOf
  <2>. HIDE DEF K
  <2>5. Table(K) /\ L \in SUBSET K
    BY <2>2, SubTable
  <2>6. p \in Nat \ {0} /\ RemoveAt(ks, p) = ls
    BY <2>2, <2>5, ListRemove
  <2>7. Table(L) /\ Fresh(L, k)
    BY <2>2, <2>5, SubTable DEF Fresh, Table, Keyed
  <2>. HIDE DEF L
  <2>8. Placed(ls, Leaf(k)) = Leaves(InOrder(L \cup {k}))
    BY <2>7, ListAdd
  <2>. HIDE DEF ks, ls
  <2>9. Position(ks, e.old) \in Nat \ {0} /\ e.op = "edit"
    BY <1>1, <2>6
  <2>10. ApplyChild([row |-> x, kids |-> ks], e) =
            [row |-> x, kids |-> Placed(RemoveAt(ks, Position(ks, e.old)), e.tree)]
    BY <2>9, ApplyIs
  <2>11. Position(ks, e.old) = p
    BY <1>1
  <2> QED
    BY <1>1, <2>3, <2>4, <2>6, <2>8, <2>10, <2>11
<1>4. Touches(e, k.of, N, M)
  BY <1>2, <1>3 DEF Touches
<1> QED
  BY <1>4 DEF e

----------------------------------------------------------------------------
(* Several deltas, one after the other                                     *)

LEMMA TakesNone ==
    \A b : After(LAMBDA a, d : TakeStep(a, "top", d), b, <<>>) = b
<1>1. TAKE b
<1>. DEFINE level == "top"
            s == <<>>
            x == After(LAMBDA a, d : TakeStep(a, level, d), b, s)
<1>2. level \in {"top", "kid"} /\ Len(s) \in Nat /\ Len(s) = 0
  OBVIOUS
<1>. HIDE DEF level, s
<1>3. \E f : Run(f, <<"taken", level>>, b, s) /\ x = f[Len(s)]
  BY <1>2, TakingRun, Zenon
<1>4. x = b
  BY <1>2, <1>3 DEF Run
<1> QED
  BY <1>4 DEF level, s, x

\* One more delta at the end is one more step of the take.
LEMMA TakesAppend ==
    ASSUME NEW b, NEW s, IsSeq(s), NEW e
    PROVE  After(LAMBDA a, d : TakeStep(a, "top", d), b, Append(s, e)) =
             TakeStep(After(LAMBDA a, d : TakeStep(a, "top", d), b, s), "top", e)
<1>. DEFINE level == "top"
            k == <<"taken", level>>
            u == Append(s, e)
            x == After(LAMBDA a, d : TakeStep(a, level, d), b, s)
            y == After(LAMBDA a, d : TakeStep(a, level, d), b, u)
<1>1. level \in {"top", "kid"}
  OBVIOUS
<1>2. Len(s) \in Nat /\ Len(u) \in Nat
  BY SeqParts, AppendIsSeq
<1>. HIDE DEF level, u
<1>3. PICK f : Run(f, k, b, s) /\ x = f[Len(s)]
  BY <1>1, <1>2, TakingRun, Zenon
<1>4. PICK g : Run(g, k, b, u) /\ y = g[Len(u)]
  BY <1>1, <1>2, TakingRun, Zenon
<1>5. \A a, c : Op(k, a, c) = TakeStep(a, level, c)
  BY DEF Op
<1>. HIDE DEF k
<1>6. g[Len(u)] = Op(k, f[Len(s)], e)
  <2>0. Run(f, k, b, s)
    BY <1>3, Zenon
  <2>1. Run(g, k, b, Append(s, e))
    BY <1>4, Zenon DEF u
  <2>2. g[Len(Append(s, e))] = Op(k, f[Len(s)], e)
    BY <2>0, <2>1, RunAppend
  <2> QED
    BY <2>2 DEF u
<1>7. y = TakeStep(x, level, e)
  BY <1>3, <1>4, <1>5, <1>6
<1> QED
  BY <1>7 DEF level, u, x, y

\* D takes the view, and the take before it, from ts to us.
Brings(D, ts, us) ==
    IF shape.limit = 0 THEN Shows(D, ts, us)
    ELSE \A a, base : Right(a, base, ts) =>
            Right(After(LAMBDA b, d : TakeStep(b, "top", d), a, D), base, us)

LEMMA BringsNone == \A ts : Brings(<<>>, ts, ts)
BY TakesNone, ShowsNone DEF Brings

\* Deltas that bring the view somewhere, and one that moves it on from there.
LEMMA BringsMore ==
    ASSUME NEW D, IsSeq(D), NEW ts, NEW us, Brings(D, ts, us), NEW d, NEW ws, Moves(d, us, ws)
    PROVE  Brings(Append(D, d), ts, ws)
<1>1. CASE shape.limit = 0
  <2>1. Shows(D, ts, us)
    BY <1>1 DEF Brings
  <2>2. \A v : v.nodes = us => ViewStep(v, d).nodes = ws /\ ViewStep(v, d).held = v.held
    BY <1>1 DEF Moves
  <2>3. Shows(Append(D, d), ts, ws)
    BY <2>1, <2>2, ShowsMore
  <2> QED
    BY <1>1, <2>3 DEF Brings
<1>2. CASE shape.limit # 0
  <2>1. ASSUME NEW a, NEW base, Right(a, base, ts)
        PROVE  Right(After(LAMBDA b, e : TakeStep(b, "top", e), a, Append(D, d)), base, ws)
    <3>. DEFINE x == After(LAMBDA b, e : TakeStep(b, "top", e), a, D)
    <3>1. Right(x, base, us)
      BY <1>2, <2>1 DEF Brings
    <3>2. After(LAMBDA b, e : TakeStep(b, "top", e), a, Append(D, d)) = TakeStep(x, "top", d)
      BY TakesAppend
    <3>. HIDE DEF x
    <3>3. Right(TakeStep(x, "top", d), base, ws)
      BY <1>2, <3>1 DEF Moves
    <3> QED
      BY <3>2, <3>3
  <2> QED
    BY <1>2, <2>1 DEF Brings
<1> QED
  BY <1>1, <1>2

\* D takes a view that shows ts to what the query over R and N gives.
Comes(D, ts, R, N) == IsSeq(D) /\ \E us : Good(us, R, N) /\ Brings(D, ts, us)

LEMMA ComesNone == \A ts, R, N : Good(ts, R, N) => Comes(<<>>, ts, R, N)
BY EmptyIsSeq, BringsNone DEF Comes

\* The same, for lists that queries give.
LEMMA ComesMore ==
    ASSUME NEW D, NEW ts, NEW R, NEW N, Comes(D, ts, R, N), NEW d, NEW Q, NEW M,
           \A us : Good(us, R, N) => Reaches(d, us, Q, M)
    PROVE  Comes(Append(D, d), ts, Q, M)
<1>1. IsSeq(D) /\ IsSeq(Append(D, d))
  BY AppendIsSeq DEF Comes
<1>2. PICK us : Good(us, R, N) /\ Brings(D, ts, us)
  BY DEF Comes
<1>3. PICK ws : Good(ws, Q, M) /\ Moves(d, us, ws)
  BY <1>2 DEF Reaches
<1>4. Brings(Append(D, d), ts, ws)
  BY <1>1, <1>2, <1>3, BringsMore
<1> QED
  BY <1>1, <1>3, <1>4 DEF Comes

LEMMA ComesOne ==
    ASSUME NEW ts, NEW R, NEW N, Good(ts, R, N), NEW d, NEW Q, NEW M, Reaches(d, ts, Q, M)
    PROVE  Comes(<<d>>, ts, Q, M)
<1>1. IsSeq(<<>>) /\ Append(<<>>, d) = <<d>>
  BY EmptyIsSeq
<1>2. PICK us : Good(us, Q, M) /\ Moves(d, ts, us)
  BY DEF Reaches
<1>. DEFINE D == <<>>
<1>3. IsSeq(D) /\ Append(D, d) = <<d>> /\ Brings(D, ts, ts)
  BY <1>1, BringsNone
<1>. HIDE DEF D
<1>4. Brings(Append(D, d), ts, us) /\ IsSeq(Append(D, d))
  BY <1>2, <1>3, BringsMore, AppendIsSeq
<1> QED
  BY <1>2, <1>3, <1>4 DEF Comes

----------------------------------------------------------------------------
(* A write of the notes, up to the take at the top                         *)

\* D says of the rows that match what makes T of the table S.
Says(D, S, T) ==
    \/ D = <<>> /\ Matching(T) = Matching(S)
    \/ \E k : /\ D = <<Added(Leaf(k))>>
              /\ Numbered(k) /\ Selects(k) /\ Fresh(Matching(S), k)
              /\ Matching(T) = Matching(S) \cup {k}
    \/ \E k \in Matching(S) : D = <<Removed(k)>> /\ Matching(T) = Matching(S) \ {k}
    \/ \E old, k :
              /\ old \in Matching(S)
              /\ D = <<Edited(old, Leaf(k))>>
              /\ Numbered(k) /\ Selects(k) /\ k.id = old.id
              /\ Matching(T) = (Matching(S) \ {old}) \cup {k}

\* W was written over by I, or deleted, or was not there.
Wrote(S, W, I, T) ==
    /\ Table(S) /\ Table(T) /\ \A r \in S \cup I : r.tag # Null
    /\ W \subseteq S /\ \A r, s \in W : r = s
    /\ I = {} \/ \E r : I = {r}
    /\ \A r \in I : \A s \in S : s.id = r.id <=> s \in W
    /\ T = (S \ W) \cup I

\* What the filter makes of a write is what the write did to the rows that match.
LEMMA WroteSays ==
    ASSUME NEW S, NEW W, NEW I, NEW T, Wrote(S, W, I, T), NEW table
    PROVE  Says(Filtered(Change(table, W, I)), S, T)
<1>. DEFINE was == {r \in W : Admits(r)}
            is == {r \in I : Admits(r)}
            D == Filtered(Change(table, W, I))
<1>1. D = CASE was = {} /\ is = {} -> <<>>
            [] was = {} /\ is # {} -> <<Added(Leaf(Only(is)))>>
            [] was # {} /\ is = {} -> <<Removed(Only(was))>>
            [] OTHER -> <<Edited(Only(was), Leaf(Only(is)))>>
  BY DEF Filtered, Change
<1>2. was = {} \/ \E r : was = {r}
  <2>1. was \subseteq W /\ \A r, s \in W : r = s
    BY DEF Wrote
  <2> QED
    BY <2>1
<1>3. is = {} \/ \E r : is = {r}
  BY DEF Wrote
<1>4. \A r : Only({r}) = r
  BY DEF Only
<1>5. \A r \in S \cup I : Admits(r) <=> Selects(r)
  BY DEF Wrote, Admits, Selects
<1>6. Matching(T) = (Matching(S) \ was) \cup is
  BY <1>5 DEF Wrote, Matching
<1>7. was \subseteq Matching(S)
  BY <1>5 DEF Wrote, Matching
<1>8. \A r \in is : /\ Numbered(r) /\ Selects(r)
                    /\ \A s \in was : r.id = s.id
                    /\ was = {} => Fresh(Matching(S), r)
  BY <1>5 DEF Wrote, Matching, Table, Fresh
<1>. HIDE DEF was, is, D
<1>9. CASE was = {} /\ is = {}
  BY <1>1, <1>6, <1>9 DEF Says, D
<1>10. CASE was = {} /\ is # {}
  <2>1. PICK k : is = {k}
    BY <1>3, <1>10
  <2>2. D = <<Added(Leaf(k))>>
    BY <1>1, <1>4, <1>10, <2>1
  <2>3. /\ Numbered(k) /\ Selects(k) /\ Fresh(Matching(S), k)
        /\ Matching(T) = Matching(S) \cup {k}
    BY <1>6, <1>8, <1>10, <2>1
  <2> QED
    BY <2>2, <2>3 DEF Says, D
<1>11. CASE was # {} /\ is = {}
  <2>1. PICK k : was = {k}
    BY <1>2, <1>11
  <2>2. D = <<Removed(k)>>
    BY <1>1, <1>4, <1>11, <2>1
  <2>3. k \in Matching(S) /\ Matching(T) = Matching(S) \ {k}
    BY <1>6, <1>7, <1>11, <2>1
  <2> QED
    BY <2>2, <2>3 DEF Says, D
<1>12. CASE was # {} /\ is # {}
  <2>1. PICK k : is = {k}
    BY <1>3, <1>12
  <2>2. PICK old : was = {old}
    BY <1>2, <1>12
  <2>3. D = <<Edited(old, Leaf(k))>>
    <3>1. D = <<Edited(Only(was), Leaf(Only(is)))>>
      BY <1>1, <1>12
    <3>2. Only(was) = old /\ Only(is) = k
      BY <1>4, <2>1, <2>2
    <3> QED
      BY <3>1, <3>2
  <2>4. /\ old \in Matching(S) /\ Numbered(k) /\ Selects(k) /\ k.id = old.id
        /\ Matching(T) = (Matching(S) \ {old}) \cup {k}
    BY <1>6, <1>7, <1>8, <2>1, <2>2
  <2> QED
    BY <2>3, <2>4 DEF Says, D
<1> QED
  BY <1>9, <1>10, <1>11, <1>12

\* A write to other parents' children is not seen.
LEMMA GoodSame ==
    ASSUME NEW ts, NEW R, NEW N, NEW M, Good(ts, R, N),
           \A x \in R : KidsOf(x.id, M) = KidsOf(x.id, N)
    PROVE  Good(ts, R, M)
<1>1. \A i \in 1..Len(ts) : ts[i].row \in R /\ ts[i] = TreeOf(ts[i].row, N)
  BY DEF Good, Fills, Begins, Trees
<1>2. Trees(ts, M)
  BY <1>1 DEF Trees, TreeOf
<1> QED
  BY <1>2 DEF Good

\* A change of the notes of o reaches the view under the song o is of, if the query
\* has that song, and otherwise says nothing.
LEMMA UnderComes ==
    ASSUME Plain, NEW N, NEW M, NEW D, NEW ts, Comes(D, ts, Matching(songs), N),
           NEW e, NEW o, Touches(e, o.of, N, M)
    PROVE  Comes(D \o Under(ParentOf(o), e), ts, Matching(songs), M)
<1>. DEFINE R == Matching(songs)
            ps == ParentOf(o)
            p == Only(ps)
<1>1. \A s : s \in ps <=> s \in R /\ s.id = o.of
  BY DEF ParentOf, Matching
<1>2. Table(R)
  BY SubTable DEF Plain, Matching
<1>3. \A q : q # o.of => KidsOf(q, M) = KidsOf(q, N)
  BY DEF Touches, KidsOf
<1>4. IsSeq(D)
  BY DEF Comes
<1>5. CASE ps = {}
  <2>1. D \o Under(ps, e) = D
    BY <1>4, <1>5, ConcatNone DEF Under
  <2>2. \A x \in R : KidsOf(x.id, M) = KidsOf(x.id, N)
    BY <1>1, <1>3, <1>5
  <2>. HIDE DEF R
  <2>3. \A us : Good(us, R, N) => Good(us, R, M)
    BY <2>2, GoodSame
  <2>4. Comes(D, ts, R, M)
    BY <2>3 DEF Comes, R
  <2> QED
    BY <2>1, <2>4 DEF R
<1>6. CASE ps # {}
  <2>1. p \in ps
    BY <1>6 DEF Only
  <2>. DEFINE d == Child(p, e)
  <2>2. Under(ps, e) = <<d>>
    BY <1>6 DEF Under
  <2>. HIDE DEF ps, R, p
  <2>3. p \in R /\ p.id = o.of
    BY <1>1, <2>1
  <2>4. \A x \in R : x # p => KidsOf(x.id, M) = KidsOf(x.id, N)
    BY <1>2, <1>3, <2>3 DEF Table, Keyed
  <2>5. ApplyChild(TreeOf(p, N), e) = TreeOf(p, M)
    BY <2>3 DEF Touches
  <2>6. \A us : Good(us, R, N) => Reaches(d, us, R, M)
    BY <1>2, <2>3, <2>4, <2>5, ChildMoves
  <2>. HIDE DEF d
  <2>7. Comes(Append(D, d), ts, R, M)
    BY <2>6, ComesMore DEF R
  <2>8. D \o <<d>> = Append(D, d)
    BY <1>4, AppendIsSeq
  <2>9. Comes(D \o Under(ps, e), ts, R, M)
    BY <2>2, <2>7, <2>8
  <2> QED
    BY <2>9 DEF R, ps
<1> QED
  BY <1>5, <1>6

LEMMA GatherNone == After(Gather, <<>>, <<>>) = <<>>
<1>. DEFINE b == <<>>
            s == <<>>
<1>1. Len(s) \in Nat /\ Len(s) = 0
  OBVIOUS
<1>. HIDE DEF b, s
<1>2. PICK f : Run(f, <<"gathered">>, b, s) /\ After(Gather, b, s) = f[Len(s)]
  BY <1>1, GatheringRun, Zenon
<1>3. After(Gather, b, s) = b
  BY <1>1, <1>2 DEF Run
<1> QED
  BY <1>3 DEF b, s

\* One delta of the notes, attributed.
LEMMA GatherOne == \A d : After(Gather, <<>>, <<d>>) = Attributed(d)
<1>1. TAKE d
<1>. DEFINE b == <<>>
            s == <<d>>
<1>2. Len(s) \in Nat /\ Len(s) = 1 /\ s[1] = d
  BY OneIsSeq
<1>3. b \o Attributed(d) = Attributed(d)
  BY AttributedIsSeq DEF IsSeq
<1>. HIDE DEF b, s
<1>4. PICK f : Run(f, <<"gathered">>, b, s) /\ After(Gather, b, s) = f[Len(s)]
  BY <1>2, GatheringRun, Zenon
<1>5. f[0] = b /\ f[1] = Op(<<"gathered">>, f[0], d)
  BY <1>2, <1>4 DEF Run
<1>6. f[1] = Gather(b, d)
  BY <1>5 DEF Op
<1>7. After(Gather, b, s) = Attributed(d)
  BY <1>2, <1>3, <1>4, <1>6 DEF Gather
<1> QED
  BY <1>7 DEF b, s

LEMMA NoneConcat == \A s : IsSeq(s) => <<>> \o s = s
BY DEF IsSeq

LEMMA UnderFirst ==
    ASSUME Plain, NEW N, NEW M, NEW ts, Good(ts, Matching(songs), N),
           NEW e, NEW o, Touches(e, o.of, N, M)
    PROVE  Comes(Under(ParentOf(o), e), ts, Matching(songs), M)
<1>. DEFINE D == <<>>
            U == Under(ParentOf(o), e)
<1>1. IsSeq(U)
  <2>1. U = <<>> \/ \E d : U = <<d>>
    BY DEF Under
  <2> QED
    BY <2>1, EmptyIsSeq, OneIsSeq
<1>2. D \o U = U
  BY <1>1, NoneConcat
<1>3. Comes(D, ts, Matching(songs), N)
  BY ComesNone
<1>. HIDE DEF D
<1>4. Comes(D \o Under(ParentOf(o), e), ts, Matching(songs), M)
  BY <1>3, UnderComes
<1> QED
  BY <1>2, <1>4

\* What the view is told of the notes takes it to what the query gives now.
LEMMA NotesCome ==
    ASSUME Plain, NEW N, Table(N), NEW D, Says(D, N, notes),
           NEW ts, Good(ts, Matching(songs), N)
    PROVE  Comes(After(Gather, <<>>, D), ts, Matching(songs), notes)
<1>. DEFINE R == Matching(songs)
<1>1. CASE D = <<>> /\ Matching(notes) = Matching(N)
  <2>1. \A x \in R : KidsOf(x.id, notes) = KidsOf(x.id, N)
    BY <1>1 DEF KidsOf, KidRows, Matching
  <2>2. Good(ts, R, notes)
    <3>. HIDE DEF R
    <3>1. Good(ts, R, N)
      BY DEF R
    <3> QED
      BY <2>1, <3>1, GoodSame
  <2> QED
    BY <1>1, <2>2, GatherNone, ComesNone
<1>2. CASE \E k : /\ D = <<Added(Leaf(k))>>
                  /\ Numbered(k) /\ Selects(k) /\ Fresh(Matching(N), k)
                  /\ Matching(notes) = Matching(N) \cup {k}
  <2>1. PICK k : /\ D = <<Added(Leaf(k))>>
                 /\ Numbered(k) /\ Selects(k) /\ Fresh(Matching(N), k)
                 /\ Matching(notes) = Matching(N) \cup {k}
    BY <1>2
  <2>. DEFINE d == Added(Leaf(k))
  <2>2. d.op = "add" /\ d.row = k
    BY LeafRow DEF Added
  <2>3. Touches(d, k.of, N, notes)
    BY <2>1, TouchesAdd
  <2>4. D = <<d>>
    BY <2>1
  <2>. HIDE DEF d
  <2>5. Comes(Under(ParentOf(k), d), ts, R, notes)
    BY <2>3, UnderFirst
  <2>6. Attributed(d) = Under(ParentOf(k), d)
    BY <2>2 DEF Attributed
  <2> QED
    BY <2>4, <2>5, <2>6, GatherOne
<1>3. CASE \E k \in Matching(N) : D = <<Removed(k)>> /\ Matching(notes) = Matching(N) \ {k}
  <2>1. PICK k \in Matching(N) : D = <<Removed(k)>> /\ Matching(notes) = Matching(N) \ {k}
    BY <1>3
  <2>. DEFINE d == Removed(k)
  <2>2. d.op = "remove" /\ d.row = k
    BY DEF Removed
  <2>3. Touches(d, k.of, N, notes)
    BY <2>1, TouchesRemove
  <2>4. D = <<d>>
    BY <2>1
  <2>. HIDE DEF d
  <2>5. Comes(Under(ParentOf(k), d), ts, R, notes)
    BY <2>3, UnderFirst
  <2>6. Attributed(d) = Under(ParentOf(k), d)
    BY <2>2 DEF Attributed
  <2> QED
    BY <2>4, <2>5, <2>6, GatherOne
<1>4. CASE \E old, k :
              /\ old \in Matching(N)
              /\ D = <<Edited(old, Leaf(k))>>
              /\ Numbered(k) /\ Selects(k) /\ k.id = old.id
              /\ Matching(notes) = (Matching(N) \ {old}) \cup {k}
  <2>1. PICK old, k :
              /\ old \in Matching(N)
              /\ D = <<Edited(old, Leaf(k))>>
              /\ Numbered(k) /\ Selects(k) /\ k.id = old.id
              /\ Matching(notes) = (Matching(N) \ {old}) \cup {k}
    BY <1>4
  <2>. DEFINE t == Leaf(k)
              d == Edited(old, t)
              e == Removed(old)
              g == Added(t)
  <2>2. d.op = "edit" /\ d.row = k /\ d.old = old /\ d.tree = t
    BY LeafRow DEF Edited
  <2>3. D = <<d>>
    BY <2>1
  <2>4. CASE k.of = old.of
    <3>1. Touches(d, k.of, N, notes)
      BY <2>1, <2>4, TouchesEdit
    <3>. HIDE DEF d
    <3>2. Comes(Under(ParentOf(k), d), ts, R, notes)
      BY <3>1, UnderFirst
    <3>3. ParentOf(old) = ParentOf(k)
      BY <2>4 DEF ParentOf
    <3>4. Attributed(d) = Under(ParentOf(k), d)
      BY <2>2, <3>3 DEF Attributed
    <3> QED
      BY <2>3, <3>2, <3>4, GatherOne
  <2>5. CASE k.of # old.of
    <3>. DEFINE L == N \ {old}
    <3>1. Table(L) /\ Matching(L) = Matching(N) \ {old} /\ Fresh(Matching(L), k)
      <4>1. Table(L)
        BY SubTable
      <4>2. old \in N
        BY <2>1 DEF Matching
      <4>3. Fresh(Matching(L), k)
        BY <2>1, <4>2 DEF Fresh, Matching, Table, Keyed
      <4> QED
        BY <4>1, <4>3 DEF Matching
    <3>2. Touches(e, old.of, N, L)
      <4>. HIDE DEF L
      <4> QED
        BY <2>1, <3>1, TouchesRemove
    <3>3. Touches(g, k.of, L, notes)
      <4>. HIDE DEF L
      <4> QED
        BY <2>1, <3>1, TouchesAdd
    <3>. HIDE DEF d, e, g, L
    <3>4. Comes(Under(ParentOf(old), e), ts, R, L)
      BY <3>2, UnderFirst
    <3>. DEFINE U == Under(ParentOf(old), e)
    <3>5. Comes(U \o Under(ParentOf(k), g), ts, R, notes)
      <4>. HIDE DEF U
      <4>1. Comes(U, ts, Matching(songs), L)
        BY <3>4 DEF U
      <4> QED
        BY <3>3, <4>1, UnderComes
    <3>6. Attributed(d) = U \o Under(ParentOf(k), g)
      <4>1. CASE ParentOf(old) = ParentOf(k)
        <5>1. ParentOf(old) = {} /\ ParentOf(k) = {}
          BY <2>5, <4>1 DEF ParentOf
        <5>2. Attributed(d) = <<>>
          BY <2>2, <5>1 DEF Attributed, Under
        <5>3. U = <<>> /\ Under(ParentOf(k), g) = <<>>
          BY <5>1 DEF Under
        <5> QED
          BY <5>2, <5>3, EmptyIsSeq, NoneConcat
      <4>2. CASE ParentOf(old) # ParentOf(k)
        BY <2>2, <4>2 DEF Attributed, e, g
      <4> QED
        BY <4>1, <4>2
    <3> QED
      BY <2>3, <3>5, <3>6, GatherOne
  <2> QED
    BY <2>4, <2>5
<1> QED
  BY <1>1, <1>2, <1>3, <1>4 DEF Says

----------------------------------------------------------------------------
(* A write of the songs, up to the take at the top                         *)

LEMMA FillNone == \A a : After(FillIn, a, <<>>) = a
<1>1. TAKE a
<1>. DEFINE s == <<>>
<1>2. Len(s) \in Nat /\ Len(s) = 0
  OBVIOUS
<1>. HIDE DEF s
<1>3. PICK f : Run(f, <<"filled">>, a, s) /\ After(FillIn, a, s) = f[Len(s)]
  BY <1>2, FillingRun, Zenon
<1>4. After(FillIn, a, s) = a
  BY <1>2, <1>3 DEF Run
<1> QED
  BY <1>4 DEF s

\* One delta of the songs, filled in.
LEMMA FillOne == \A a, d : After(FillIn, a, <<d>>) = FillIn(a, d)
<1>1. TAKE a, d
<1>. DEFINE s == <<d>>
<1>2. Len(s) \in Nat /\ Len(s) = 1 /\ s[1] = d
  BY OneIsSeq
<1>. HIDE DEF s
<1>3. PICK f : Run(f, <<"filled">>, a, s) /\ After(FillIn, a, s) = f[Len(s)]
  BY <1>2, FillingRun, Zenon
<1>4. f[0] = a /\ f[1] = Op(<<"filled">>, f[0], d)
  BY <1>2, <1>3 DEF Run
<1>5. f[1] = FillIn(a, d)
  BY <1>4 DEF Op
<1>6. After(FillIn, a, s) = FillIn(a, d)
  BY <1>2, <1>3, <1>5
<1> QED
  BY <1>6 DEF s

\* What the join hangs under a row is the tree of that row.
LEMMA HydrateOne ==
    ASSUME Plain, NEW h, NEW r
    PROVE  Hydrate(h, <<r>>).held = h /\ Hydrate(h, <<r>>).trees[1] = TreeOf(r, notes)
<1>. DEFINE rows == <<r>>
<1>1. IsSeq(rows) /\ Len(rows) = 1 /\ rows[1] = r
  BY OneIsSeq
<1>. HIDE DEF rows
<1>2. Hydrate(h, rows).held = h /\ Hydrate(h, rows).trees[1] = TreeOf(r, notes)
  BY <1>1, HydrateIs DEF Plain
<1> QED
  BY <1>2 DEF rows

\* The delta of a song as it leaves the join.
LEMMA FilledIs ==
    ASSUME Plain, NEW h, NEW b, b = [held |-> h, out |-> <<>>]
    PROVE  /\ \A k : FillIn(b, Added(Leaf(k))) =
                        [held |-> h, out |-> <<Added(TreeOf(k, notes))>>]
           /\ \A k : FillIn(b, Removed(k)) = [held |-> h, out |-> <<Removed(k)>>]
           /\ \A old, k : FillIn(b, Edited(old, Leaf(k))) =
                        [held |-> h, out |-> <<Edited(old, TreeOf(k, notes))>>]
<1>1. b.held = h /\ b.out = <<>> /\ \A x : Append(b.out, x) = <<x>>
  OBVIOUS
<1>2. ASSUME NEW d, d.op # "remove", NEW k, d.row = k, NEW g, 
             \A t : t = TreeOf(k, notes) => [d EXCEPT !.tree = t] = g
      PROVE  FillIn(b, d) = [held |-> h, out |-> <<g>>]
  <2>. DEFINE full == Hydrate(b.held, <<d.row>>)
  <2>1. full.held = h /\ full.trees[1] = TreeOf(k, notes)
    BY <1>1, <1>2, HydrateOne
  <2>2. FillIn(b, d) = Filled(b, d, full)
    BY <1>2 DEF FillIn
  <2>. HIDE DEF full
  <2>3. Filled(b, d, full) =
            [held |-> full.held, out |-> Append(b.out, [d EXCEPT !.tree = full.trees[1]])]
    BY DEF Filled
  <2>4. [d EXCEPT !.tree = full.trees[1]] = g
    BY <1>2, <2>1
  <2> QED
    BY <1>1, <2>1, <2>2, <2>3, <2>4
<1>3. ASSUME NEW k
      PROVE  FillIn(b, Added(Leaf(k))) = [held |-> h, out |-> <<Added(TreeOf(k, notes))>>]
  <2>. DEFINE d == Added(Leaf(k))
              g == Added(TreeOf(k, notes))
  <2>1. d.op # "remove" /\ d.row = k
    BY LeafRow DEF Added
  <2>2. \A t : t = TreeOf(k, notes) => [d EXCEPT !.tree = t] = g
    <3>1. d = [op |-> "add", row |-> k, tree |-> Leaf(k)]
      BY LeafRow DEF Added
    <3>2. g = [op |-> "add", row |-> k, tree |-> TreeOf(k, notes)]
      BY DEF Added, TreeOf
    <3>. HIDE DEF d, g
    <3> QED
      BY <3>1, <3>2
  <2>. HIDE DEF d, g
  <2>3. FillIn(b, d) = [held |-> h, out |-> <<g>>]
    BY <1>2, <2>1, <2>2
  <2> QED
    BY <2>3 DEF d, g
<1>4. ASSUME NEW k, NEW old
      PROVE  FillIn(b, Edited(old, Leaf(k))) =
                [held |-> h, out |-> <<Edited(old, TreeOf(k, notes))>>]
  <2>. DEFINE d == Edited(old, Leaf(k))
              g == Edited(old, TreeOf(k, notes))
  <2>1. d.op # "remove" /\ d.row = k
    BY LeafRow DEF Edited
  <2>2. \A t : t = TreeOf(k, notes) => [d EXCEPT !.tree = t] = g
    <3>1. d = [op |-> "edit", row |-> k, old |-> old, tree |-> Leaf(k)]
      BY LeafRow DEF Edited
    <3>2. g = [op |-> "edit", row |-> k, old |-> old, tree |-> TreeOf(k, notes)]
      BY DEF Edited, TreeOf
    <3>. HIDE DEF d, g
    <3> QED
      BY <3>1, <3>2
  <2>. HIDE DEF d, g
  <2>3. FillIn(b, d) = [held |-> h, out |-> <<g>>]
    BY <1>2, <2>1, <2>2
  <2> QED
    BY <2>3 DEF d, g
<1>5. ASSUME NEW k
      PROVE  FillIn(b, Removed(k)) = [held |-> h, out |-> <<Removed(k)>>]
  <2>. DEFINE d == Removed(k)
  <2>1. d.op = "remove"
    BY DEF Removed
  <2>. HIDE DEF d
  <2>2. FillIn(b, d) = [b EXCEPT !.out = Append(@, d)]
    BY <2>1 DEF FillIn
  <2>3. [b EXCEPT !.out = Append(@, d)] = [held |-> h, out |-> <<d>>]
    OBVIOUS
  <2> QED
    BY <2>2, <2>3 DEF d
<1> QED
  BY <1>3, <1>4, <1>5

\* What the view is told of the songs takes it to what the query gives now.
LEMMA SongsCome ==
    ASSUME Plain, NEW S, Table(S), NEW D, Says(D, S, songs),
           NEW ts, Good(ts, Matching(S), notes), NEW h
    PROVE  \E E : /\ After(FillIn, [held |-> h, out |-> <<>>], D) = [held |-> h, out |-> E]
                  /\ Comes(E, ts, Matching(songs), notes)
<1>. DEFINE b == [held |-> h, out |-> <<>>]
            R == Matching(S)
<1>1. Table(R)
  BY SubTable DEF Matching
<1>. HIDE DEF R
<1>2. Good(ts, R, notes)
  BY DEF R
<1>3. CASE D = <<>> /\ Matching(songs) = R
  <2>1. After(FillIn, b, D) = b
    BY <1>3, FillNone
  <2>2. Comes(<<>>, ts, Matching(songs), notes)
    BY <1>2, <1>3, ComesNone
  <2> QED
    BY <2>1, <2>2
<1>4. CASE \E k : /\ D = <<Added(Leaf(k))>>
                  /\ Numbered(k) /\ Selects(k) /\ Fresh(R, k)
                  /\ Matching(songs) = R \cup {k}
  <2>1. PICK k : /\ D = <<Added(Leaf(k))>>
                 /\ Numbered(k) /\ Selects(k) /\ Fresh(R, k)
                 /\ Matching(songs) = R \cup {k}
    BY <1>4
  <2>. DEFINE g == Added(TreeOf(k, notes))
  <2>2. After(FillIn, b, D) = [held |-> h, out |-> <<g>>]
    <3>1. After(FillIn, b, D) = FillIn(b, Added(Leaf(k)))
      BY <2>1, FillOne
    <3>2. FillIn(b, Added(Leaf(k))) = [held |-> h, out |-> <<g>>]
      BY FilledIs
    <3> QED
      BY <3>1, <3>2
  <2>3. Reaches(g, ts, R \cup {k}, notes)
    BY <1>1, <1>2, <2>1, AddMoves
  <2>. HIDE DEF g, b
  <2>4. Comes(<<g>>, ts, Matching(songs), notes)
    BY <1>2, <2>1, <2>3, ComesOne
  <2> QED
    BY <2>2, <2>4 DEF b
<1>5. CASE \E k \in R : D = <<Removed(k)>> /\ Matching(songs) = R \ {k}
  <2>1. PICK k \in R : D = <<Removed(k)>> /\ Matching(songs) = R \ {k}
    BY <1>5
  <2>. DEFINE g == Removed(k)
  <2>2. After(FillIn, b, D) = [held |-> h, out |-> <<g>>]
    <3>1. After(FillIn, b, D) = FillIn(b, Removed(k))
      BY <2>1, FillOne
    <3>2. FillIn(b, Removed(k)) = [held |-> h, out |-> <<g>>]
      BY FilledIs
    <3> QED
      BY <3>1, <3>2
  <2>3. Reaches(g, ts, R \ {k}, notes)
    BY <1>1, <1>2, <2>1, RemoveMoves
  <2>. HIDE DEF g, b
  <2>4. Comes(<<g>>, ts, Matching(songs), notes)
    BY <1>2, <2>1, <2>3, ComesOne
  <2> QED
    BY <2>2, <2>4 DEF b
<1>6. CASE \E old, k :
              /\ old \in R
              /\ D = <<Edited(old, Leaf(k))>>
              /\ Numbered(k) /\ Selects(k) /\ k.id = old.id
              /\ Matching(songs) = (R \ {old}) \cup {k}
  <2>1. PICK old, k :
              /\ old \in R
              /\ D = <<Edited(old, Leaf(k))>>
              /\ Numbered(k) /\ Selects(k) /\ k.id = old.id
              /\ Matching(songs) = (R \ {old}) \cup {k}
    BY <1>6
  <2>. DEFINE g == Edited(old, TreeOf(k, notes))
  <2>2. After(FillIn, b, D) = [held |-> h, out |-> <<g>>]
    <3>1. After(FillIn, b, D) = FillIn(b, Edited(old, Leaf(k)))
      BY <2>1, FillOne
    <3>2. FillIn(b, Edited(old, Leaf(k))) = [held |-> h, out |-> <<g>>]
      BY FilledIs
    <3> QED
      BY <3>1, <3>2
  <2>3. Reaches(g, ts, (R \ {old}) \cup {k}, notes)
    BY <1>1, <1>2, <2>1, EditMoves
  <2>. HIDE DEF g, b
  <2>4. Comes(<<g>>, ts, Matching(songs), notes)
    BY <1>2, <2>1, <2>3, ComesOne
  <2> QED
    BY <2>2, <2>4 DEF b
<1> QED
  BY <1>3, <1>4, <1>5, <1>6 DEF Says, R

----------------------------------------------------------------------------
(* One write through the whole pipeline                                    *)

\* The window of the take at the top is ts, and there is none without a take.
Whole(h, ts) ==
    /\ HeldOK(h)
    /\ shape.limit = 0 => h.top = <<>>
    /\ shape.limit # 0 => Null \in DOMAIN h.top /\ h.top[Null] = ts

\* ts is what the query gave before the write c of a song, or of a note.
SongBehind(c, ts) ==
    \E S, W, I : /\ c = Change("songs", W, I) /\ Wrote(S, W, I, songs)
                 /\ Good(ts, Matching(S), notes)
NoteBehind(c, ts) ==
    \E N, W, I : /\ c = Change("notes", W, I) /\ Wrote(N, W, I, notes)
                 /\ Good(ts, Matching(songs), N)

\* What comes out of the join of a write of either table.
LEMMA JoinedComes ==
    ASSUME Plain, NEW ts, NEW c, SongBehind(c, ts) \/ NoteBehind(c, ts), NEW h
    PROVE  \E E : /\ Joined(h, c) = [held |-> h, out |-> E]
                  /\ Comes(E, ts, Matching(songs), notes)
<1>. DEFINE D == Filtered(c)
<1>1. CASE SongBehind(c, ts)
  <2>1. PICK S, W, I : /\ c = Change("songs", W, I) /\ Wrote(S, W, I, songs)
                       /\ Good(ts, Matching(S), notes)
    BY <1>1 DEF SongBehind
  <2>2. Table(S) /\ Says(D, S, songs)
    BY <2>1, WroteSays DEF Wrote
  <2>3. Joined(h, c) = After(FillIn, [held |-> h, out |-> <<>>], D)
    BY <2>1 DEF Joined, Change
  <2>. HIDE DEF D
  <2>4. \E E : /\ After(FillIn, [held |-> h, out |-> <<>>], D) = [held |-> h, out |-> E]
               /\ Comes(E, ts, Matching(songs), notes)
    BY <2>1, <2>2, SongsCome
  <2> QED
    BY <2>3, <2>4
<1>2. CASE NoteBehind(c, ts)
  <2>1. PICK N, W, I : /\ c = Change("notes", W, I) /\ Wrote(N, W, I, notes)
                       /\ Good(ts, Matching(songs), N)
    BY <1>2 DEF NoteBehind
  <2>2. Table(N) /\ Says(D, N, notes)
    BY <2>1, WroteSays DEF Wrote
  <2>3. Joined(h, c) = Gathered(Taken(h, "kid", D))
    BY <2>1 DEF Joined, Change
  <2>. HIDE DEF D
  <2>. DEFINE E == After(Gather, <<>>, D)
  <2>4. Comes(E, ts, Matching(songs), notes)
    BY <2>1, <2>2, NotesCome
  <2>5. Taken(h, "kid", D) = [held |-> h, out |-> D]
    BY DEF Taken, Limit, Plain
  <2>6. Gathered([held |-> h, out |-> D]) = [held |-> h, out |-> E]
    BY DEF Gathered
  <2> QED
    BY <2>3, <2>4, <2>5, <2>6
<1> QED
  BY <1>1, <1>2

\* The take and the view do with it what it says.
LEMMA SeenIs ==
    ASSUME NEW E, NEW ts, NEW us, Brings(E, ts, us), NEW h, Whole(h, ts),
           NEW v, v.nodes = ts, NEW ps, v = [held |-> h, nodes |-> ts, patches |-> ps],
           NEW top, top = Taken(h, "top", E)
    PROVE  Seen(v, top).nodes = us /\ Whole(Seen(v, top).held, us)
<1>. DEFINE w == [v EXCEPT !.held = top.held]
<1>1. w.nodes = ts /\ w.held = top.held
  OBVIOUS
<1>2. Seen(v, top) = After(ViewStep, w, top.out)
  BY DEF Seen
<1>. HIDE DEF w
<1>3. CASE shape.limit = 0
  <2>1. top = [held |-> h, out |-> E]
    BY <1>3 DEF Taken, Limit
  <2>2. Shows(E, ts, us)
    BY <1>3 DEF Brings
  <2>3. After(ViewStep, w, E).nodes = us /\ After(ViewStep, w, E).held = w.held
    BY <1>1, <2>2 DEF Shows
  <2> QED
    BY <1>1, <1>2, <1>3, <2>1, <2>3 DEF Whole
<1>4. CASE shape.limit # 0
  <2>. DEFINE b == [held |-> h, out |-> <<>>]
  <2>1. top = After(LAMBDA a, d : TakeStep(a, "top", d), b, E)
    BY <1>4 DEF Taken, Limit
  <2>2. Right(b, ts, ts)
    BY <1>4, ShowsNone DEF Right, Whole
  <2>. HIDE DEF b
  <2>3. Right(top, ts, us)
    BY <1>4, <2>1, <2>2 DEF Brings
  <2>4. /\ HeldOK(top.held) /\ Null \in DOMAIN top.held.top /\ top.held.top[Null] = us
        /\ Shows(top.out, ts, us)
    BY <2>3 DEF Right
  <2>5. After(ViewStep, w, top.out).nodes = us /\ After(ViewStep, w, top.out).held = w.held
    BY <1>1, <2>4 DEF Shows
  <2> QED
    BY <1>1, <1>2, <1>4, <2>4, <2>5 DEF Whole
<1> QED
  BY <1>3, <1>4

\* View::push of one write takes the view and its window to the query of now.
LEMMA PushedIs ==
    ASSUME Plain, NEW ts, NEW c, SongBehind(c, ts) \/ NoteBehind(c, ts),
           NEW h, Whole(h, ts), NEW ps, NEW v, v = [held |-> h, nodes |-> ts, patches |-> ps]
    PROVE  /\ Good(Pushed(v, c).nodes, Matching(songs), notes)
           /\ Whole(Pushed(v, c).held, Pushed(v, c).nodes)
<1>1. PICK E : Joined(h, c) = [held |-> h, out |-> E] /\ Comes(E, ts, Matching(songs), notes)
  BY JoinedComes
<1>2. PICK us : Good(us, Matching(songs), notes) /\ Brings(E, ts, us)
  BY <1>1 DEF Comes
<1>. DEFINE top == Taken(h, "top", E)
<1>3. v.held = h /\ v.nodes = ts
  OBVIOUS
<1>4. Pushed(v, c) = Seen(v, top)
  BY <1>1, <1>3 DEF Pushed, TakenAtTop
<1>. HIDE DEF top
<1>5. Seen(v, top).nodes = us /\ Whole(Seen(v, top).held, us)
  BY <1>2, <1>3, SeenIs DEF top
<1> QED
  BY <1>2, <1>4, <1>5

LEMMA PushOne == \A v, c : After(Pushed, v, <<c>>) = Pushed(v, c)
<1>1. TAKE v, c
<1>. DEFINE s == <<c>>
<1>2. Len(s) \in Nat /\ Len(s) = 1 /\ s[1] = c
  BY OneIsSeq
<1>. HIDE DEF s
<1>3. PICK f : Run(f, <<"pushed">>, v, s) /\ After(Pushed, v, s) = f[Len(s)]
  BY <1>2, PushingRun, Zenon
<1>4. f[0] = v /\ f[1] = Op(<<"pushed">>, f[0], c)
  BY <1>2, <1>3 DEF Run
<1>5. f[1] = Pushed(v, c)
  BY <1>4 DEF Op
<1>6. After(Pushed, v, s) = Pushed(v, c)
  BY <1>2, <1>3, <1>5
<1> QED
  BY <1>6 DEF s

----------------------------------------------------------------------------
(* The first pull, and the query itself                                    *)

\* A statement with nothing to be past of returns every row that matches.
LEMMA FetchAll == \A S : Fetch(S, {}) = InOrder(Matching(S))
<1>1. TAKE S
<1>2. {r \in S : Selects(r) /\ \A p \in {} : Past(p, r)} = Matching(S)
  BY DEF Matching
<1> QED
  BY <1>2 DEF Fetch

\* The rows of a pull, each with its tree, are what the query gives.
LEMMA PulledGood ==
    ASSUME Plain, NEW rows, rows = FirstOf(Fetch(songs, {}), shape.limit),
           NEW ts, IsSeq(ts), Len(ts) = Len(rows),
           \A i \in 1..Len(rows) : ts[i] = TreeOf(rows[i], notes)
    PROVE  Good(ts, Matching(songs), notes)
<1>. DEFINE R == Matching(songs)
            l == shape.limit
<1>1. Table(R) /\ l \in Nat
  BY SubTable DEF Plain, Matching
<1>2. rows = FirstOf(InOrder(R), l)
  BY FetchAll
<1>3. \A i \in 1..Len(ts) : ts[i].row = rows[i]
  <2>. TAKE i \in 1..Len(ts)
  <2>1. ts[i] = TreeOf(rows[i], notes)
    OBVIOUS
  <2> QED
    BY <2>1 DEF TreeOf
<1>. HIDE DEF R, l
<1>4. Fills(ts, R, l)
  BY <1>1, <1>2, <1>3, RowsFill
<1>5. Trees(ts, notes)
  BY <1>3 DEF Trees
<1> QED
  BY <1>4, <1>5 DEF Good, R, l

\* A first hydrate gives what the query gives, and fills the window with it.
LEMMA HydratedGood ==
    ASSUME Plain, NEW h, HeldOK(h), h.top = <<>>
    PROVE  /\ Good(Hydrated(h).nodes, Matching(songs), notes)
           /\ Whole(Hydrated(h).held, Hydrated(h).nodes)
<1>. DEFINE rows == FirstOf(Fetch(songs, {}), shape.limit)
            full == Hydrate(h, rows)
<1>1. IsSeq(rows)
  <2>1. Table(Matching(songs)) /\ shape.limit \in Nat
    BY SubTable DEF Plain, Matching
  <2>2. IsSeq(InOrder(Matching(songs)))
    BY <2>1, InOrderIs
  <2> QED
    BY <2>1, <2>2, FetchAll, FirstParts
<1>2. Hydrated(h) =
        CASE shape.limit = 0 -> [held |-> full.held, nodes |-> full.trees]
          [] Null \in DOMAIN h.top -> [held |-> h, nodes |-> h.top[Null]]
          [] OTHER -> [held |-> Windowed(full.held, "top", Null, full.trees),
                       nodes |-> full.trees]
  BY DEF Hydrated
<1>3. /\ full.held = h
      /\ IsSeq(full.trees) /\ Len(full.trees) = Len(rows)
      /\ \A i \in 1..Len(rows) : full.trees[i] = TreeOf(rows[i], notes)
  <2>. HIDE DEF rows
  <2> QED
    BY <1>1, HydrateIs DEF Plain
<1>. DEFINE ts == full.trees
<1>4. Good(ts, Matching(songs), notes)
  <2>. HIDE DEF ts
  <2> QED
    BY <1>3, PulledGood DEF ts
<1>. HIDE DEF rows, full
<1>5. CASE shape.limit = 0
  <2>1. Hydrated(h) = [held |-> h, nodes |-> ts]
    <3>1. Null \notin DOMAIN h.top
      OBVIOUS
    <3>2. Hydrated(h) = [held |-> full.held, nodes |-> full.trees]
      BY <1>2, <1>5, <3>1
    <3> QED
      BY <1>3, <3>2
  <2>2. Whole(h, ts)
    BY <1>5 DEF Whole
  <2>. HIDE DEF ts
  <2> QED
    BY <1>4, <2>1, <2>2
<1>6. CASE shape.limit # 0
  <2>1. DOMAIN h.top = {}
    BY <1>6
  <2>2. Hydrated(h) = [held |-> Windowed(h, "top", Null, ts), nodes |-> ts]
    BY <1>2, <1>3, <1>6, <2>1
  <2>. HIDE DEF ts
  <2>3. Whole(Windowed(h, "top", Null, ts), ts)
    BY <1>6, WindowedIs DEF Whole
  <2> QED
    BY <1>4, <2>2, <2>3
<1> QED
  BY <1>5, <1>6

\* The query has one answer.
LEMMA AnswerIs ==
    ASSUME Plain, NEW ts, Good(ts, Matching(songs), notes)
    PROVE  ts = Answer
<1>. DEFINE R == Matching(songs)
            l == shape.limit
            rows == FirstOf(Fetch(songs, {}), shape.limit)
            kids(s) == Leaves(Fetch({n \in notes : n.of = s.id}, {}))
            tree(s) == [row |-> s, kids |-> FirstOf(kids(s), shape.kidLimit)]
<1>1. Answer = [i \in DOMAIN rows |-> tree(rows[i])]
  BY DEF Answer
<1>2. \A s : tree(s) = TreeOf(s, notes)
  <2>1. TAKE s
  <2>2. Matching({n \in notes : n.of = s.id}) = KidRows(s.id, notes)
    BY DEF Matching, KidRows
  <2>3. kids(s) = KidsOf(s.id, notes)
    BY <2>2, FetchAll DEF KidsOf
  <2>4. FirstOf(kids(s), shape.kidLimit) = kids(s)
    BY NoLimit DEF Plain
  <2>. HIDE DEF kids
  <2> QED
    BY <2>3, <2>4 DEF TreeOf
<1>3. Table(R) /\ l \in Nat
  BY SubTable DEF Plain, Matching
<1>4. rows = FirstOf(InOrder(R), l)
  BY FetchAll
<1>5. Fills(ts, R, l) /\ Trees(ts, notes)
  BY DEF Good
<1>6. IsSeq(ts) /\ IsSeq(rows)
  <2>1. IsSeq(InOrder(R))
    BY <1>3, InOrderIs
  <2>2. IsSeq(rows)
    BY <1>3, <1>4, <2>1, FirstParts
  <2> QED
    BY <1>5, <2>2 DEF Fills, Begins
<1>. HIDE DEF R, l, rows, tree
<1>7. Len(ts) = Len(rows) /\ \A i \in 1..Len(ts) : ts[i].row = rows[i]
  BY <1>3, <1>4, <1>5, FillsRows
<1>. DEFINE us == [i \in DOMAIN rows |-> tree(rows[i])]
<1>8. Len(rows) \in Nat /\ DOMAIN rows = 1..Len(rows)
  BY <1>6, SeqParts
<1>9. us = [i \in 1..Len(rows) |-> tree(rows[i])]
  BY <1>8
<1>10. DOMAIN us = 1..Len(rows) /\ \A i \in 1..Len(rows) : us[i] = tree(rows[i])
  BY <1>9
<1>11. us = [i \in 1..Len(rows) |-> us[i]]
  BY <1>9
<1>12. Len(us) = Len(rows)
  BY <1>8, <1>10, <1>11
<1>. HIDE DEF us
<1>13. IsSeq(us)
  BY <1>8, <1>11, FcnIsSeq
<1>14. \A i \in 1..Len(ts) : ts[i] = us[i]
  BY <1>2, <1>5, <1>7, <1>10 DEF Trees
<1>15. ts = us
  BY <1>6, <1>7, <1>12, <1>13, <1>14, SameSeq
<1> QED
  BY <1>1, <1>15 DEF us

----------------------------------------------------------------------------
(* A view is a query that stays right                                      *)

\* Tables of rows with a key and a column to go by, no NULL in the column the
\* filter reads; views without a limit on the children, which take account of
\* each write by itself, and which have a limit only where the seek of a refill
\* goes the way of the order and no rebase goes past the take.
ViewsAsked ==
    /\ IsFiniteSet(Songs) /\ IsFiniteSet(Notes)
    /\ \A r \in Songs \cup Notes : Numbered(r) /\ r.tag # Null
    /\ \A s \in Shapes : /\ s.kidLimit = 0 /\ s.batch <= 1
                         /\ s.limit # 0 => ~TieDown /\ ~s.rebases

\* The inductive invariant: the view shows what the query over R and N gives, and
\* so does its take.
Shown(l, h, ts, R, N) ==
    /\ Fills(ts, R, l) /\ Trees(ts, N)
    /\ h = [top |-> h.top, kid |-> h.kid]
    /\ l = 0 => h.top = <<>>
    /\ l # 0 => Null \in DOMAIN h.top /\ h.top[Null] = ts

\* It does so for S and N, of which the changes made what the tables are now.
Abreast(l, h, ts, S, N, cs) ==
    \/ cs = <<>> /\ Shown(l, h, ts, Matching(S), N)
    \/ \E Q, W, I : /\ cs = <<Change("songs", W, I)>> /\ Wrote(Q, W, I, S)
                    /\ Shown(l, h, ts, Matching(Q), N)
    \/ \E Q, W, I : /\ cs = <<Change("notes", W, I)>> /\ Wrote(Q, W, I, N)
                    /\ Shown(l, h, ts, Matching(S), Q)

\* A view that is about to be hydrated has no window.
Blank(h, cs) == cs = <<>> /\ h = [top |-> h.top, kid |-> h.kid] /\ h.top = <<>>

QueryInv ==
    /\ shape \in Shapes
    /\ songs \subseteq Songs /\ Keyed(songs)
    /\ notes \subseteq Notes /\ Keyed(notes)
    /\ IF rebuilt THEN Blank(held, changes)
       ELSE Abreast(shape.limit, held, nodes, songs, notes, changes)

\* Shown, in the terms of the lemmas above.
LEMMA ShownIs ==
    ASSUME NEW h, NEW ts, NEW R, NEW N
    PROVE  Shown(shape.limit, h, ts, R, N) <=> Good(ts, R, N) /\ Whole(h, ts)
BY DEF Shown, Good, Whole, HeldOK

\* The tables and the view are of the kind those lemmas are about.
LEMMA TablesAre ==
    ASSUME ViewsAsked, QueryInv PROVE Plain /\ shape \in Shapes
<1>1. shape.limit \in Nat /\ shape.kidLimit = 0 /\ (shape.limit = 0 \/ ~TieDown)
  BY IncrementalAssumption DEF ViewsAsked, QueryInv, ShapeOK
<1>2. IsFiniteSet(songs) /\ IsFiniteSet(notes)
  BY FS_Subset DEF ViewsAsked, QueryInv
<1>3. Table(songs) /\ Table(notes)
  BY <1>2 DEF Table, ViewsAsked, QueryInv
<1> QED
  BY <1>1, <1>3 DEF Plain, QueryInv

\* A write that is reported is the only one, and one that is not leaves the view
\* to be hydrated.
LEMMA ReportedIs ==
    ASSUME ViewsAsked, QueryInv, NEW c, Reported(c)
    PROVE  /\ ~rebuilt
           /\ \/ changes = <<>> /\ changes' = <<c>> /\ ~rebuilt'
              \/ changes' = <<>> /\ rebuilt' /\ shape.limit = 0
<1>1. /\ ~rebuilt
      /\ \/ Len(changes) < shape.batch /\ changes' = Append(changes, c) /\ rebuilt' = rebuilt
         \/ shape.rebases /\ changes' = <<>> /\ rebuilt' = TRUE
  BY DEF Reported
<1>2. shape.batch \in Nat /\ shape.batch <= 1 /\ (shape.limit # 0 => ~shape.rebases)
  BY IncrementalAssumption DEF ViewsAsked, QueryInv, ShapeOK
<1>3. changes = <<>> \/ Len(changes) = 1
  <2>1. changes = <<>> \/ \E x : changes = <<x>>
    BY <1>1 DEF QueryInv, Abreast
  <2> QED
    BY <2>1, OneIsSeq
<1>4. CASE Len(changes) < shape.batch /\ changes' = Append(changes, c) /\ rebuilt' = rebuilt
  <2>1. changes = <<>>
    BY <1>2, <1>3, <1>4
  <2>2. changes' = <<c>>
    BY <1>4, <2>1
  <2>3. ~rebuilt'
    BY <1>1, <1>4, Zenon
  <2> QED
    BY <1>1, <2>1, <2>2, <2>3, Zenon
<1>5. CASE shape.rebases /\ changes' = <<>> /\ rebuilt' = TRUE
  <2>1. shape.limit = 0
    BY <1>2, <1>5
  <2> QED
    BY <1>1, <1>5, <2>1
<1> QED
  BY <1>1, <1>4, <1>5, Zenon

\* What a write leaves of the view, whether it is reported or rolled back.
LEMMA WrittenAbreast ==
    ASSUME ViewsAsked, QueryInv, NEW c, Reported(c),
           shape' = shape, held' = held, nodes' = nodes,
           songs' \subseteq Songs, Keyed(songs'), notes' \subseteq Notes, Keyed(notes'),
           changes = <<>> /\ ~rebuilt =>
                Abreast(shape.limit, held, nodes, songs', notes', <<c>>)
    PROVE  QueryInv'
<1>1. CASE changes = <<>> /\ changes' = <<c>> /\ ~rebuilt'
  <2>1. ~rebuilt
    BY ReportedIs
  <2>2. Abreast(shape.limit, held, nodes, songs', notes', <<c>>)
    BY <1>1, <2>1
  <2> QED
    BY <1>1, <2>2 DEF QueryInv
<1>2. CASE changes' = <<>> /\ rebuilt' /\ shape.limit = 0
  <2>1. ~rebuilt
    BY ReportedIs
  <2>2. held = [top |-> held.top, kid |-> held.kid] /\ held.top = <<>>
    BY <1>2, <2>1 DEF QueryInv, Abreast, Shown
  <2>3. Blank(held, <<>>)
    BY <2>2 DEF Blank
  <2> QED
    BY <1>2, <2>3 DEF QueryInv
<1> QED
  BY <1>1, <1>2, ReportedIs

\* A write of a song.
LEMMA SongAbreast ==
    ASSUME ViewsAsked, QueryInv, NEW W, NEW I, Wrote(songs, W, I, songs'),
           Reported(Change("songs", W, I)),
           shape' = shape, held' = held, nodes' = nodes, notes' = notes,
           songs' \subseteq Songs, Keyed(songs')
    PROVE  QueryInv'
<1>. DEFINE c == Change("songs", W, I)
<1>1. ASSUME changes = <<>>, ~rebuilt
      PROVE  Abreast(shape.limit, held, nodes, songs', notes', <<c>>)
  <2>1. Shown(shape.limit, held, nodes, Matching(songs), notes)
    BY <1>1 DEF QueryInv, Abreast
  <2> QED
    BY <2>1 DEF Abreast
<1>2. notes' \subseteq Notes /\ Keyed(notes')
  BY DEF QueryInv
<1>. HIDE DEF c
<1>3. Reported(c)
  BY DEF c
<1> QED
  BY <1>1, <1>2, <1>3, WrittenAbreast

\* A write of a note.
LEMMA NoteAbreast ==
    ASSUME ViewsAsked, QueryInv, NEW W, NEW I, Wrote(notes, W, I, notes'),
           Reported(Change("notes", W, I)),
           shape' = shape, held' = held, nodes' = nodes, songs' = songs,
           notes' \subseteq Notes, Keyed(notes')
    PROVE  QueryInv'
<1>. DEFINE c == Change("notes", W, I)
<1>1. ASSUME changes = <<>>, ~rebuilt
      PROVE  Abreast(shape.limit, held, nodes, songs', notes', <<c>>)
  <2>1. Shown(shape.limit, held, nodes, Matching(songs), notes)
    BY <1>1 DEF QueryInv, Abreast
  <2> QED
    BY <2>1 DEF Abreast
<1>2. songs' \subseteq Songs /\ Keyed(songs')
  BY DEF QueryInv
<1>. HIDE DEF c
<1>3. Reported(c)
  BY DEF c
<1> QED
  BY <1>1, <1>2, <1>3, WrittenAbreast

\* The writes of a table, as put_row and delete_row make them.
LEMMA PutWrote ==
    ASSUME NEW U, IsFiniteSet(U), \A r \in U : Numbered(r) /\ r.tag # Null,
           NEW S, S \subseteq U, Keyed(S), NEW r \in U,
           NEW T, T = (S \ WithKey(S, r)) \cup {r}
    PROVE  Wrote(S, WithKey(S, r), {r}, T) /\ T \subseteq U /\ Keyed(T)
<1>1. T \subseteq U /\ Keyed(T)
  BY DEF WithKey, Keyed
<1>2. Table(S) /\ Table(T)
  BY <1>1, FS_Subset DEF Table
<1>3. /\ WithKey(S, r) \subseteq S /\ \A x, y \in WithKey(S, r) : x = y
      /\ \A x \in {r} : \A s \in S : s.id = x.id <=> s \in WithKey(S, r)
  BY DEF WithKey, Keyed
<1> QED
  BY <1>1, <1>2, <1>3 DEF Wrote

\* The same for a delete.
LEMMA DeleteWrote ==
    ASSUME NEW U, IsFiniteSet(U), \A r \in U : Numbered(r) /\ r.tag # Null,
           NEW S, S \subseteq U, Keyed(S), NEW r \in S, NEW T, T = S \ {r}
    PROVE  Wrote(S, {r}, {}, T) /\ T \subseteq U /\ Keyed(T)
<1>1. T \subseteq U /\ Keyed(T)
  BY DEF Keyed
<1>2. Table(S) /\ Table(T)
  BY <1>1, FS_Subset DEF Table
<1> QED
  BY <1>1, <1>2 DEF Wrote

\* A settled view shows what the query gives, whichever way it got there.
LEMMA SettledAbreast ==
    ASSUME ViewsAsked, QueryInv, Settle PROVE QueryInv'
<1>1. Plain /\ shape \in Shapes
  BY TablesAre
<1>2. /\ changes' = <<>> /\ rebuilt' = FALSE
      /\ shape' = shape /\ songs' = songs /\ notes' = notes
  BY DEF Settle
<1>3. SUFFICES Shown(shape.limit, held', nodes', Matching(songs), notes)
  BY <1>2 DEF QueryInv, Abreast
<1>4. CASE rebuilt
  <2>. DEFINE v == Hydrated(held)
  <2>1. held' = v.held /\ nodes' = v.nodes
    BY <1>4 DEF Settle, StartOver
  <2>2. HeldOK(held) /\ held.top = <<>>
    BY <1>4 DEF QueryInv, Blank, HeldOK
  <2>3. Good(v.nodes, Matching(songs), notes) /\ Whole(v.held, v.nodes)
    BY <1>1, <2>2, HydratedGood
  <2>. HIDE DEF v
  <2> QED
    BY <2>1, <2>3, ShownIs
<1>5. CASE ~rebuilt
  <2>. DEFINE u == [held |-> held, nodes |-> nodes, patches |-> <<>>]
              w == After(Pushed, u, changes)
  <2>1. held' = w.held /\ nodes' = w.nodes /\ changes # <<>>
    BY <1>5 DEF Settle, Follow
  <2>2. PICK c : /\ changes = <<c>> /\ Whole(held, nodes)
                 /\ SongBehind(c, nodes) \/ NoteBehind(c, nodes)
    <3>1. Abreast(shape.limit, held, nodes, songs, notes, changes)
      BY <1>5 DEF QueryInv
    <3>2. CASE \E Q, W, I : /\ changes = <<Change("songs", W, I)>> /\ Wrote(Q, W, I, songs)
                            /\ Shown(shape.limit, held, nodes, Matching(Q), notes)
      <4>1. PICK Q, W, I : /\ changes = <<Change("songs", W, I)>> /\ Wrote(Q, W, I, songs)
                           /\ Shown(shape.limit, held, nodes, Matching(Q), notes)
        BY <3>2
      <4>2. Good(nodes, Matching(Q), notes) /\ Whole(held, nodes)
        BY <4>1, ShownIs
      <4>3. SongBehind(Change("songs", W, I), nodes)
        BY <4>1, <4>2 DEF SongBehind
      <4> QED
        BY <4>1, <4>2, <4>3
    <3>3. CASE \E Q, W, I : /\ changes = <<Change("notes", W, I)>> /\ Wrote(Q, W, I, notes)
                            /\ Shown(shape.limit, held, nodes, Matching(songs), Q)
      <4>1. PICK Q, W, I : /\ changes = <<Change("notes", W, I)>> /\ Wrote(Q, W, I, notes)
                           /\ Shown(shape.limit, held, nodes, Matching(songs), Q)
        BY <3>3
      <4>2. Good(nodes, Matching(songs), Q) /\ Whole(held, nodes)
        BY <4>1, ShownIs
      <4>3. NoteBehind(Change("notes", W, I), nodes)
        BY <4>1, <4>2 DEF NoteBehind
      <4> QED
        BY <4>1, <4>2, <4>3
    <3> QED
      BY <2>1, <3>1, <3>2, <3>3 DEF Abreast
  <2>3. w = Pushed(u, c)
    BY <2>2, PushOne
  <2>. HIDE DEF w
  <2>4. /\ Good(Pushed(u, c).nodes, Matching(songs), notes)
        /\ Whole(Pushed(u, c).held, Pushed(u, c).nodes)
    <3>. DEFINE ps == <<>>
    <3>1. u = [held |-> held, nodes |-> nodes, patches |-> ps]
      OBVIOUS
    <3>. HIDE DEF u, ps
    <3> QED
      BY <1>1, <2>2, <3>1, PushedIs
  <2>. HIDE DEF u
  <2> QED
    BY <2>1, <2>3, <2>4, ShownIs
<1> QED
  BY <1>4, <1>5

\* Init and each action keep the view abreast of the tables.
LEMMA QueryInvInductive ==
    ASSUME ViewsAsked PROVE (Init => QueryInv) /\ (QueryInv /\ [Next]_vars => QueryInv')
<1>1. ASSUME Init PROVE QueryInv
  <2>1. held.top = <<>> /\ held = [top |-> held.top, kid |-> held.kid]
    BY <1>1 DEF Init
  <2>2. Blank(held, changes)
    BY <1>1, <2>1 DEF Init, Blank
  <2> QED
    BY <1>1, <2>2 DEF Init, QueryInv
<1>2. ASSUME QueryInv, [Next]_vars PROVE QueryInv'
  <2>1. ASSUME NEW r \in Songs, PutSong(r) PROVE QueryInv'
    <3>1. /\ Wrote(songs, WithKey(songs, r), {r}, songs')
          /\ songs' \subseteq Songs /\ Keyed(songs')
      BY <1>2, <2>1, PutWrote, SMTT(60) DEF ViewsAsked, QueryInv, PutSong
    <3> QED
      BY <1>2, <2>1, <3>1, SongAbreast DEF PutSong
  <2>2. ASSUME NEW r \in Songs, DeleteSong(r) PROVE QueryInv'
    <3>1. /\ Wrote(songs, {r}, {}, songs')
          /\ songs' \subseteq Songs /\ Keyed(songs')
      BY <1>2, <2>2, DeleteWrote, SMTT(60) DEF ViewsAsked, QueryInv, DeleteSong
    <3> QED
      BY <1>2, <2>2, <3>1, SongAbreast DEF DeleteSong
  <2>3. ASSUME NEW r \in Notes, PutNote(r) PROVE QueryInv'
    <3>1. /\ Wrote(notes, WithKey(notes, r), {r}, notes')
          /\ notes' \subseteq Notes /\ Keyed(notes')
      BY <1>2, <2>3, PutWrote, SMTT(60) DEF ViewsAsked, QueryInv, PutNote
    <3> QED
      BY <1>2, <2>3, <3>1, NoteAbreast DEF PutNote
  <2>4. ASSUME NEW r \in Notes, DeleteNote(r) PROVE QueryInv'
    <3>1. /\ Wrote(notes, {r}, {}, notes')
          /\ notes' \subseteq Notes /\ Keyed(notes')
      BY <1>2, <2>4, DeleteWrote, SMTT(60) DEF ViewsAsked, QueryInv, DeleteNote
    <3> QED
      BY <1>2, <2>4, <3>1, NoteAbreast DEF DeleteNote
  <2>5. CASE Settle
    BY <1>2, <2>5, SettledAbreast
  <2>6. CASE UNCHANGED vars
    BY <1>2, <2>6 DEF QueryInv, vars
  <2> QED
    BY <1>2, <2>1, <2>2, <2>3, <2>4, <2>5, <2>6 DEF Next
<1> QED
  BY <1>1, <1>2

\* A view that is settled answers the query, and so does its window.
LEMMA SettledShown ==
    ASSUME ViewsAsked, QueryInv, Settled
    PROVE  nodes = Answer /\ (shape.limit > 0 => held.top[Null] = nodes)
<1>1. Plain
  BY TablesAre
<1>2. changes = <<>> /\ ~rebuilt
  BY DEF Settled
<1>3. Shown(shape.limit, held, nodes, Matching(songs), notes)
  BY <1>2 DEF QueryInv, Abreast
<1>4. Good(nodes, Matching(songs), notes) /\ Whole(held, nodes)
  BY <1>3, ShownIs
<1>5. shape.limit > 0 => shape.limit # 0
  BY <1>1 DEF Plain
<1> QED
  BY <1>1, <1>4, <1>5, AnswerIs DEF Whole

\* ViewIsQuery for every pair of finite tables without a NULL in the column the
\* filter reads, and every view of ViewsAsked: whatever was written to songs and
\* notes, and however the client rebased where there is no limit, the answer that
\* `View::apply` keeps is what select_with would give, row for row and tree for
\* tree, and a limit is filled again from the store.
THEOREM ViewsAreQueries ==
    ASSUME ViewsAsked PROVE Spec => []ViewIsQuery
<1>1. QueryInv => ViewIsQuery
  BY SettledShown DEF ViewIsQuery
<1> QED
  BY <1>1, QueryInvInductive, PTL DEF Spec
=============================================================================
