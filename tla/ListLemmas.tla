------------------------------ MODULE ListLemmas ------------------------------
(***************************************************************************)
(* What the operators on lists that several components use come to: lists  *)
(* put together (FlattenSeq), sums, and folds.                             *)
(*                                                                         *)
(* All are recursive functions of the library.  That something is so for   *)
(* a list of any length is shown by looking at the least length for which  *)
(* it were not (LeastNumber).                                              *)
(***************************************************************************)
EXTENDS Integers, SequencesExt, SequenceTheorems, WellFoundedInduction, TLAPS

LEMMA LeastNumber ==
    ASSUME NEW S \in SUBSET Nat, S # {}
    PROVE  \E i \in S : \A j \in S : i <= j
<1> DEFINE R == OpToRel(<, Nat)
<1>1. IsWellFoundedOn(R, Nat)
  BY NatLessThanWellFounded, Zenon
<1>2. \A x, y \in Nat : x < y => <<x, y>> \in R
  BY DEF OpToRel
<1> HIDE DEF R
<1>3. PICK i \in S : \A j \in S : ~(<<j, i>> \in R)
  BY <1>1, WFMin, Zenon
<1>4. \A j \in S : ~(j < i)
  BY <1>2, <1>3
<1> QED
  BY <1>4

\* What holds of m, and of k where it holds of k - 1, holds up to n.
LEMMA UpToLength ==
    ASSUME NEW m \in Nat, NEW n \in Nat, NEW Good, m \in Good,
           \A k \in m + 1 .. n : k - 1 \in Good => k \in Good
    PROVE  \A k \in m .. n : k \in Good
<1> DEFINE Bad == {k \in Nat : k \in m .. n /\ k \notin Good}
<1> SUFFICES ASSUME Bad # {} PROVE FALSE
  OBVIOUS
<1>1. PICK k \in Bad : \A j \in Bad : k <= j
  BY LeastNumber
<1>2. k # m
  BY <1>1
<1>3. k \in m + 1 .. n /\ k - 1 \in m .. n /\ k - 1 \in Nat
  BY <1>1, <1>2
<1>4. k - 1 \notin Bad
  BY <1>1, <1>3
<1> QED
  BY <1>1, <1>3, <1>4

LEMMA FromOne ==
    ASSUME NEW n \in Nat \ {0}, NEW Good, 1 \in Good, \A k \in 2 .. n : k - 1 \in Good => k \in Good
    PROVE  \A k \in 1 .. n : k \in Good
<1>1. \A k \in 1 + 1 .. n : k - 1 \in Good => k \in Good
  OBVIOUS
<1> QED
  BY <1>1, UpToLength

-----------------------------------------------------------------------------
(* Lists put together. *)

\* The recursion of FlattenSeq.
Join(s, t) == s \o t
Flattening(f, seqs, n) ==
    f = [i \in 1 .. n |-> IF i = 1 THEN seqs[i] ELSE Join(f[i - 1], seqs[i])]

LEMMA FlatteningIs ==
    ASSUME NEW seqs, NEW n \in Nat
    PROVE  \E f : Flattening(f, seqs, n)
<1> DEFINE Without == {k \in Nat : ~ \E f : Flattening(f, seqs, k)}
<1> SUFFICES ASSUME Without # {} PROVE FALSE
  OBVIOUS
<1>1. PICK k \in Without : \A j \in Without : k <= j
  BY LeastNumber
<1>2. CASE k = 0
  <2> DEFINE f == [i \in 1 .. 0 |-> 0]
  <2>1. f = [i \in 1 .. 0 |-> IF i = 1 THEN seqs[i] ELSE Join(f[i - 1], seqs[i])]
    OBVIOUS
  <2>2. Flattening(f, seqs, 0)
    BY <2>1, Zenon DEF Flattening
  <2> QED
    BY <1>2, <2>2
<1>3. CASE k # 0
  <2>1. k - 1 \in Nat /\ k - 1 \notin Without
    BY <1>1, <1>3
  <2>2. PICK g : Flattening(g, seqs, k - 1)
    BY <2>1
  <2> DEFINE f == [i \in 1 .. k |-> IF i = 1 THEN seqs[i] ELSE Join(g[i - 1], seqs[i])]
  <2>3. g = [i \in 1 .. k - 1 |-> IF i = 1 THEN seqs[i] ELSE Join(g[i - 1], seqs[i])]
    BY <2>2, Zenon DEF Flattening
  <2>4. \A i \in 1 .. k - 1 : f[i] = g[i]
    BY <2>3
  <2>5. \A i \in 1 .. k : i # 1 => i - 1 \in 1 .. k - 1
    BY <2>1
  <2>6. f = [i \in 1 .. k |-> IF i = 1 THEN seqs[i] ELSE Join(f[i - 1], seqs[i])]
    BY <2>4, <2>5
  <2>7. Flattening(f, seqs, k)
    BY <2>6, Zenon DEF Flattening
  <2> QED
    BY <2>7
<1> QED
  BY <1>2, <1>3

LEMMA FlattenIs ==
    ASSUME NEW S, NEW seqs \in Seq(Seq(S)), seqs # <<>>
    PROVE  \E f : Flattening(f, seqs, Len(seqs)) /\ FlattenSeq(seqs) = f[Len(seqs)]
<1> DEFINE f == CHOOSE h : h = [i \in 1 .. Len(seqs) |-> IF i = 1 THEN seqs[i] ELSE Join(h[i - 1], seqs[i])]
<1>1. Len(seqs) # 0 /\ Len(seqs) \in Nat
  BY EmptySeq
<1>2. FlattenSeq(seqs) = f[Len(seqs)]
  BY <1>1, Zenon DEF FlattenSeq, Join
<1>3. PICK h : Flattening(h, seqs, Len(seqs))
  BY <1>1, FlatteningIs
<1>4. h = [i \in 1 .. Len(seqs) |-> IF i = 1 THEN seqs[i] ELSE Join(h[i - 1], seqs[i])]
  BY <1>3, Zenon DEF Flattening
<1>5. f = [i \in 1 .. Len(seqs) |-> IF i = 1 THEN seqs[i] ELSE Join(f[i - 1], seqs[i])]
  BY <1>4, Zenon
<1>6. Flattening(f, seqs, Len(seqs))
  BY <1>5, Zenon DEF Flattening
<1> QED
  BY <1>2, <1>6, Zenon

\* What the first lists come to, one after the other.
Stepped(f, seqs, n) ==
    /\ f[1] = seqs[1]
    /\ \A k \in 2 .. n : f[k] = Join(f[k - 1], seqs[k])

LEMMA FlattenSteps ==
    ASSUME NEW S, NEW seqs \in Seq(Seq(S)), NEW f, NEW n \in Nat, n <= Len(seqs), Flattening(f, seqs, n)
    PROVE  n >= 1 => Stepped(f, seqs, n) /\ \A k \in 1 .. n : f[k] \in Seq(S)
<1>1. f = [i \in 1 .. n |-> IF i = 1 THEN seqs[i] ELSE Join(f[i - 1], seqs[i])]
  BY Zenon DEF Flattening
<1>2. n >= 1 => f[1] = seqs[1]
  BY <1>1
<1>3. \A k \in 2 .. n : f[k] = Join(f[k - 1], seqs[k])
  BY <1>1
<1>4. \A k \in 1 .. n : seqs[k] \in Seq(S)
  BY ElementOfSeq
<1> DEFINE Typed == {k \in Nat : f[k] \in Seq(S)}
<1>5. n >= 1 => 1 \in Typed
  BY <1>2, <1>4
<1>6. ASSUME NEW k \in 2 .. n, k - 1 \in Typed PROVE k \in Typed
  <2>1. f[k] = Join(f[k - 1], seqs[k]) /\ k \in Nat /\ seqs[k] \in Seq(S)
    BY <1>3, <1>4
  <2>2. f[k] \in Seq(S)
    BY <1>6, <2>1 DEF Join
  <2> QED
    BY <2>1, <2>2
<1>7. \A k \in 1 .. n : f[k] \in Seq(S)
  <2>1. \A k \in 1 .. n : n >= 1
    OBVIOUS
  <2> HIDE DEF Typed
  <2>2. n >= 1 => \A k \in 1 .. n : k \in Typed
    BY <1>5, <1>6, 1 + 1 = 2, UpToLength
  <2> QED
    BY <2>1, <2>2 DEF Typed
<1> QED
  BY <1>2, <1>3, <1>7 DEF Stepped

LEMMA FlattenByStep ==
    ASSUME NEW S, NEW seqs \in Seq(Seq(S)), NEW n \in Nat \ {0}, n = Len(seqs)
    PROVE  \E f : /\ FlattenSeq(seqs) = f[n] /\ Stepped(f, seqs, n)
                  /\ \A k \in 1 .. n : f[k] \in Seq(S)
<1>1. seqs # <<>>
  BY EmptySeq
<1>2. PICK f : Flattening(f, seqs, n) /\ FlattenSeq(seqs) = f[n]
  BY <1>1, FlattenIs
<1>3. n \in Nat /\ n >= 1 /\ n <= Len(seqs)
  OBVIOUS
<1>4. Stepped(f, seqs, n) /\ \A k \in 1 .. n : f[k] \in Seq(S)
  BY <1>2, <1>3, FlattenSteps
<1> QED
  BY <1>2, <1>4

LEMMA FlattenNothing == FlattenSeq(<<>>) = <<>>
BY DEF FlattenSeq

LEMMA FlattenTyped ==
    ASSUME NEW S, NEW seqs \in Seq(Seq(S))
    PROVE  FlattenSeq(seqs) \in Seq(S)
<1>1. CASE seqs = <<>>
  <2>1. FlattenSeq(seqs) = <<>>
    BY <1>1, FlattenNothing
  <2> QED
    BY <2>1
<1>2. CASE seqs # <<>>
  <2> DEFINE n == Len(seqs)
  <2>1. n \in Nat \ {0} /\ n = Len(seqs) /\ n \in 1 .. n
    BY <1>2, EmptySeq
  <2> HIDE DEF n
  <2>2. PICK f : /\ FlattenSeq(seqs) = f[n] /\ Stepped(f, seqs, n)
                 /\ \A k \in 1 .. n : f[k] \in Seq(S)
    BY <2>1, FlattenByStep, Zenon
  <2> QED
    BY <2>1, <2>2
<1> QED
  BY <1>1, <1>2

Within(x, s) == \E i \in DOMAIN s : s[i] = x

LEMMA WithinJoin ==
    ASSUME NEW S, NEW s \in Seq(S), NEW t \in Seq(S), NEW x
    PROVE  Within(x, Join(s, t)) <=> Within(x, s) \/ Within(x, t)
<1> DEFINE j == Join(s, t)
<1>1. /\ DOMAIN s = 1 .. Len(s) /\ DOMAIN t = 1 .. Len(t) /\ DOMAIN j = 1 .. Len(s) + Len(t)
      /\ Len(s) \in Nat /\ Len(t) \in Nat
  BY DEF Join
<1>2. \A i \in 1 .. Len(s) : j[i] = s[i]
  BY DEF Join
<1>3. \A i \in 1 .. Len(t) : j[Len(s) + i] = t[i]
  BY DEF Join
<1> HIDE DEF j
<1>4. ASSUME NEW i \in DOMAIN j, j[i] = x PROVE Within(x, s) \/ Within(x, t)
  <2>1. CASE i \in 1 .. Len(s)
    BY <1>1, <1>2, <1>4, <2>1 DEF Within
  <2>2. CASE i \notin 1 .. Len(s)
    <3> DEFINE m == i - Len(s)
    <3>1. m \in 1 .. Len(t) /\ i = Len(s) + m
      BY <1>1, <2>2
    <3> HIDE DEF m
    <3> QED
      BY <1>1, <1>3, <1>4, <3>1 DEF Within
  <2> QED
    BY <2>1, <2>2
<1>5. ASSUME NEW i \in DOMAIN s, s[i] = x PROVE Within(x, j)
  BY <1>1, <1>2, <1>5 DEF Within
<1>6. ASSUME NEW i \in DOMAIN t, t[i] = x PROVE Within(x, j)
  <2>1. Len(s) + i \in DOMAIN j /\ j[Len(s) + i] = x
    BY <1>1, <1>3, <1>6
  <2> QED
    BY <2>1 DEF Within
<1> QED
  BY <1>4, <1>5, <1>6 DEF Within, j

LEMMA NothingWithin ==
    ASSUME NEW S, NEW s \in Seq(S)
    PROVE  s = <<>> <=> \A x : ~Within(x, s)
<1>1. s = <<>> => \A x : ~Within(x, s)
  BY DEF Within
<1>2. s # <<>> => Within(s[1], s)
  BY EmptySeq DEF Within
<1> QED
  BY <1>1, <1>2

LEMMA JoinedSteps ==
    ASSUME NEW S, NEW s \in Seq(S), NEW t \in Seq(S)
    PROVE  s \o t \in Seq(S) /\ \A x : Within(x, s \o t) <=> Within(x, s) \/ Within(x, t)
<1>1. s \o t \in Seq(S)
  OBVIOUS
<1>2. \A x : Within(x, Join(s, t)) <=> Within(x, s) \/ Within(x, t)
  BY WithinJoin
<1> QED
  BY <1>1, <1>2 DEF Join

\* What the whole has is what one of the lists has.
LEMMA FlattenWithin ==
    ASSUME NEW S, NEW seqs \in Seq(Seq(S)), NEW x
    PROVE  Within(x, FlattenSeq(seqs)) <=> \E i \in DOMAIN seqs : Within(x, seqs[i])
<1>1. CASE seqs = <<>>
  <2>1. FlattenSeq(seqs) = <<>>
    BY <1>1, FlattenNothing
  <2> QED
    BY <1>1, <2>1 DEF Within
<1>2. CASE seqs # <<>>
  <2> DEFINE n == Len(seqs)
  <2>2. n \in Nat \ {0} /\ n = Len(seqs) /\ n >= 1 /\ DOMAIN seqs = 1 .. n
    BY <1>2, EmptySeq
  <2> HIDE DEF n
  <2>1. PICK f : /\ FlattenSeq(seqs) = f[n] /\ Stepped(f, seqs, n)
                 /\ \A k \in 1 .. n : f[k] \in Seq(S)
    BY <2>2, FlattenByStep, Zenon
  <2>3. /\ f[1] = seqs[1]
        /\ \A k \in 2 .. n : f[k] = Join(f[k - 1], seqs[k])
        /\ \A k \in 1 .. n : f[k] \in Seq(S)
    BY <2>1 DEF Stepped
  <2>4. \A k \in 1 .. n : seqs[k] \in Seq(S)
    BY <2>2, ElementOfSeq
  <2> DEFINE Right == {k \in Nat : Within(x, f[k]) <=> \E i \in 1 .. k : Within(x, seqs[i])}
  <2>5. 1 \in Right
    <3>1. \A i \in 1 .. 1 : i = 1
      OBVIOUS
    <3> QED
      BY <2>3, <3>1
  <2>6. ASSUME NEW k \in 2 .. n, k - 1 \in Right PROVE k \in Right
    <3>1. /\ f[k] = Join(f[k - 1], seqs[k]) /\ f[k - 1] \in Seq(S) /\ seqs[k] \in Seq(S)
          /\ k \in Nat
      BY <2>2, <2>3, <2>4
    <3>2. Within(x, f[k]) <=> Within(x, f[k - 1]) \/ Within(x, seqs[k])
      BY <3>1, WithinJoin
    <3>3. \A i : i \in 1 .. k <=> i \in 1 .. k - 1 \/ i = k
      OBVIOUS
    <3>4. Within(x, f[k - 1]) <=> \E i \in 1 .. k - 1 : Within(x, seqs[i])
      BY <2>6
    <3>5. Within(x, f[k]) <=> \E i \in 1 .. k : Within(x, seqs[i])
      BY <3>2, <3>3, <3>4, Zenon
    <3> QED
      BY <3>1, <3>5
  <2> HIDE DEF Right
  <2>7. n \in Right
    <3>1. \A k \in 1 .. n : k \in Right
      BY <2>2, <2>5, <2>6, FromOne
    <3> QED
      BY <2>2, <3>1
  <2>8. Within(x, f[n]) <=> \E i \in 1 .. n : Within(x, seqs[i])
    BY <2>7 DEF Right
  <2> QED
    BY <2>1, <2>2, <2>8
<1> QED
  BY <1>1, <1>2

\* One list more.
LEMMA FlattenMore ==
    ASSUME NEW S, NEW seqs \in Seq(Seq(S)), NEW more \in Seq(S)
    PROVE  FlattenSeq(Append(seqs, more)) = FlattenSeq(seqs) \o more
<1> DEFINE n == Len(seqs)
           m == n + 1
           all == Append(seqs, more)
<1>1. /\ n \in Nat /\ m = n + 1 /\ all \in Seq(Seq(S)) /\ Len(all) = m
      /\ all[m] = more /\ \A i \in 1 .. n : all[i] = seqs[i]
  OBVIOUS
<1>2. all # <<>>
  <2>1. Len(all) # 0
    BY <1>1
  <2> HIDE DEF all
  <2> QED
    BY <2>1
<1> HIDE DEF n, m, all
<1>3. PICK f : FlattenSeq(all) = f[m] /\ Stepped(f, all, m)
  <2>1. m \in Nat \ {0} /\ m = Len(all)
    BY <1>1
  <2> QED
    BY <1>1, <2>1, FlattenByStep, Zenon
<1>4. /\ f[1] = all[1]
      /\ \A k \in 2 .. m : f[k] = Join(f[k - 1], all[k])
  BY <1>3 DEF Stepped
<1>5. CASE n = 0
  <2>1. seqs = <<>>
    BY <1>5, EmptySeq DEF n
  <2>2. FlattenSeq(seqs) = <<>>
    BY <2>1, FlattenNothing
  <2>3. f[m] = more
    BY <1>1, <1>4, <1>5
  <2> QED
    BY <1>3, <2>2, <2>3 DEF all
<1>6. CASE n # 0
  <2>1. n \in Nat \ {0} /\ n = Len(seqs)
    BY <1>1, <1>6 DEF n
  <2>2. PICK g : FlattenSeq(seqs) = g[n] /\ Stepped(g, seqs, n)
    BY <2>1, FlattenByStep, Zenon
  <2>3. /\ g[1] = seqs[1]
        /\ \A k \in 2 .. n : g[k] = Join(g[k - 1], seqs[k])
    BY <2>2 DEF Stepped
  <2> DEFINE Same == {k \in Nat : f[k] = g[k]}
  <2>4. 1 \in Same
    BY <1>1, <1>4, <2>1, <2>3
  <2>5. ASSUME NEW k \in 2 .. n, k - 1 \in Same PROVE k \in Same
    <3>1. k \in 2 .. m /\ all[k] = seqs[k] /\ k \in Nat
      BY <1>1, <2>1
    <3>2. f[k] = Join(f[k - 1], all[k]) /\ g[k] = Join(g[k - 1], seqs[k])
      BY <1>4, <2>3, <3>1
    <3> QED
      BY <2>5, <3>1, <3>2
  <2> HIDE DEF Same
  <2>6. n \in Same
    <3>1. \A k \in 1 .. n : k \in Same
      BY <2>1, <2>4, <2>5, FromOne
    <3> QED
      BY <2>1, <3>1
  <2>7. f[n] = g[n]
    BY <2>6 DEF Same
  <2>8. m \in 2 .. m /\ m - 1 = n
    BY <1>1, <1>6
  <2>9. f[m] = Join(f[n], more)
    BY <1>1, <1>4, <2>8
  <2> QED
    BY <1>3, <2>2, <2>7, <2>9 DEF all, Join
<1> QED
  BY <1>5, <1>6

-----------------------------------------------------------------------------
(* Sums: f[n] is what the first n numbers add up to. *)

Summing(f, v, n) == f = [i \in 0 .. n |-> IF i = 0 THEN 0 ELSE f[i - 1] + v[i]]

LEMMA SummingIs ==
    ASSUME NEW n \in Nat, NEW v \in [1 .. n -> Nat]
    PROVE  \E f : Summing(f, v, n)
<1> DEFINE Without == {k \in Nat : k <= n /\ ~ \E f : Summing(f, v, k)}
<1> SUFFICES ASSUME Without # {} PROVE FALSE
  <2>1. n \in Without => Without # {}
    OBVIOUS
  <2> QED
    BY <2>1
<1>1. PICK k \in Without : \A j \in Without : k <= j
  BY LeastNumber
<1>2. CASE k = 0
  <2> DEFINE f == [i \in 0 .. 0 |-> 0]
  <2>1. f = [i \in 0 .. 0 |-> IF i = 0 THEN 0 ELSE f[i - 1] + v[i]]
    OBVIOUS
  <2>2. Summing(f, v, 0)
    BY <2>1, Zenon DEF Summing
  <2> QED
    BY <1>2, <2>2
<1>3. CASE k # 0
  <2>1. k - 1 \in Nat /\ k - 1 <= n /\ k - 1 \notin Without
    BY <1>1, <1>3
  <2>2. PICK g : Summing(g, v, k - 1)
    BY <2>1
  <2> DEFINE f == [i \in 0 .. k |-> IF i = 0 THEN 0 ELSE g[i - 1] + v[i]]
  <2>3. g = [i \in 0 .. k - 1 |-> IF i = 0 THEN 0 ELSE g[i - 1] + v[i]]
    BY <2>2, Zenon DEF Summing
  <2>4. \A i \in 0 .. k - 1 : f[i] = g[i]
    BY <2>3
  <2>5. \A i \in 0 .. k : i # 0 => i - 1 \in 0 .. k - 1
    BY <2>1
  <2>6. f = [i \in 0 .. k |-> IF i = 0 THEN 0 ELSE f[i - 1] + v[i]]
    BY <2>4, <2>5
  <2>7. Summing(f, v, k)
    BY <2>6, Zenon DEF Summing
  <2> QED
    BY <2>7
<1> QED
  BY <1>2, <1>3

-----------------------------------------------------------------------------
(* Folds: f[s] is what the entries at the positions s come to, in their order. *)

LEMMA MaxIs == ASSUME NEW n \in Nat, NEW s \in SUBSET (1 .. n), n \in s PROVE Max(s) = n
<1>1. \A x \in s : x \in 1 .. n
  OBVIOUS
<1>2. \A x \in s : (\A y \in s : x >= y) => x = n
  BY <1>1
<1>3. \A y \in s : n >= y
  BY <1>1
<1> QED
  BY <1>2, <1>3 DEF Max

LEMMA MaxIn == ASSUME NEW n \in Nat, NEW s \in SUBSET (1 .. n), s # {} PROVE Max(s) \in s
<1> DEFINE Above == {m \in Nat : \A i \in s : i <= m}
<1>1. n \in Above
  OBVIOUS
<1>2. PICK m \in Above : \A k \in Above : m <= k
  BY <1>1, LeastNumber
<1>3. m \in s
  <2>1. SUFFICES ASSUME m \notin s PROVE FALSE
    OBVIOUS
  <2>2. m \in Nat /\ \A i \in s : i <= m
    BY <1>2
  <2>5. PICK j : j \in s
    OBVIOUS
  <2>6. \A i \in s : i # m /\ i \in 1 .. n
    BY <2>1
  <2>3. m - 1 \in Nat /\ \A i \in s : i <= m - 1
    BY <2>2, <2>5, <2>6
  <2>4. m - 1 \in Above
    BY <2>3
  <2> QED
    BY <1>2, <2>4
<1>4. \A i \in s : m >= i
  BY <1>2
<1> QED
  BY <1>3, <1>4 DEF Max

Folded(f, G, base, seq, n) ==
    f = [s \in SUBSET (1 .. n) |-> IF s = {} THEN base ELSE G[<<f[s \ {Max(s)}], seq[Max(s)]>>]]
Reached(f, G, base, seq, n, V) ==
    Folded(f, G, base, seq, n) /\ \A s \in SUBSET (1 .. n) : f[s] \in V

LEMMA FoldedNext ==
    ASSUME NEW V, NEW E, NEW G \in [V \X E -> V], NEW base \in V, NEW seq, NEW n \in Nat \ {0},
           seq[n] \in E, NEW m \in Nat, n = m + 1, NEW g, Reached(g, G, base, seq, m, V)
    PROVE  \E f : Reached(f, G, base, seq, n, V)
<1> DEFINE f == [s \in SUBSET (1 .. n) |->
                    IF n \in s THEN G[<<g[s \ {n}], seq[n]>>] ELSE g[s]]
<1>0. \A s \in SUBSET (1 .. n) : s \ {n} \in SUBSET (1 .. m) /\ (n \notin s => s \in SUBSET (1 .. m))
  <2>1. \A i \in 1 .. n : i = n \/ i \in 1 .. m
    OBVIOUS
  <2> QED
    BY <2>1
<1>1. ASSUME NEW s \in SUBSET (1 .. n) PROVE f[s] \in V
  <2>1. g[s \ {n}] \in V /\ (n \notin s => g[s] \in V)
    BY <1>0 DEF Reached
  <2>2. G[<<g[s \ {n}], seq[n]>>] \in V
    BY <2>1
  <2> QED
    BY <2>1, <2>2
<1>2. ASSUME NEW s \in SUBSET (1 .. n)
      PROVE  f[s] = IF s = {} THEN base ELSE G[<<f[s \ {Max(s)}], seq[Max(s)]>>]
  <2>1. CASE n \in s
    <3>1. Max(s) = n /\ s # {}
      BY <2>1, MaxIs
    <3>2. s \ {n} \in SUBSET (1 .. n) /\ n \notin s \ {n}
      OBVIOUS
    <3>3. f[s \ {n}] = g[s \ {n}] /\ f[s] = G[<<g[s \ {n}], seq[n]>>]
      BY <2>1, <3>2
    <3> QED
      BY <3>1, <3>3
  <2>2. CASE n \notin s
    <3>1. s \in SUBSET (1 .. m)
      BY <1>0, <2>2
    <3>2. g[s] = IF s = {} THEN base ELSE G[<<g[s \ {Max(s)}], seq[Max(s)]>>]
      BY <3>1 DEF Reached, Folded
    <3>3. f[s] = g[s] /\ f[s \ {Max(s)}] = g[s \ {Max(s)}]
      BY <2>2
    <3> QED
      BY <3>2, <3>3
  <2> QED
    BY <2>1, <2>2
<1>3. f = [s \in SUBSET (1 .. n) |-> f[s]]
  OBVIOUS
<1> HIDE DEF f
<1>4. f = [s \in SUBSET (1 .. n) |-> IF s = {} THEN base ELSE G[<<f[s \ {Max(s)}], seq[Max(s)]>>]]
  BY <1>2, <1>3
<1>5. Folded(f, G, base, seq, n)
  BY <1>4, Zenon DEF Folded
<1>6. Reached(f, G, base, seq, n, V)
  BY <1>1, <1>5, Zenon DEF Reached
<1> QED
  BY <1>6

LEMMA FoldedIs ==
    ASSUME NEW V, NEW E, NEW G \in [V \X E -> V], NEW base \in V, NEW seq \in Seq(E),
           NEW n \in Nat, n = Len(seq)
    PROVE  \E f : Reached(f, G, base, seq, n, V)
<1> DEFINE Good == {k \in Nat : \E f : Reached(f, G, base, seq, k, V)}
<1>1. 0 \in Good
  <2> DEFINE f == [s \in SUBSET (1 .. 0) |-> base]
  <2>1. \A s \in SUBSET (1 .. 0) : s = {} /\ f[s] \in V
    OBVIOUS
  <2>2. f = [s \in SUBSET (1 .. 0) |-> IF s = {} THEN base ELSE G[<<f[s \ {Max(s)}], seq[Max(s)]>>]]
    BY <2>1
  <2>3. Folded(f, G, base, seq, 0)
    BY <2>2, Zenon DEF Folded
  <2> HIDE DEF f
  <2>4. Reached(f, G, base, seq, 0, V)
    BY <2>1, <2>3 DEF Reached
  <2> QED
    BY <2>4
<1>2. ASSUME NEW k \in 1 .. n, k - 1 \in Good PROVE k \in Good
  <2> DEFINE m == k - 1
  <2>1. PICK g : Reached(g, G, base, seq, m, V)
    BY <1>2
  <2>2. k \in Nat \ {0} /\ seq[k] \in E /\ m \in Nat /\ k = m + 1
    BY ElementOfSeq
  <2> HIDE DEF m
  <2> HIDE DEF Good
  <2>3. \E f : Reached(f, G, base, seq, k, V)
    BY <2>1, <2>2, FoldedNext, Zenon
  <2> QED
    BY <2>2, <2>3 DEF Good
<1> HIDE DEF Good
<1>3. \A k \in 0 + 1 .. n : k - 1 \in Good => k \in Good
  <2>1. 0 + 1 = 1
    OBVIOUS
  <2> QED
    BY <1>2, <2>1, Zenon
<1>4. \A k \in 0 .. n : k \in Good
  BY <1>1, <1>3, UpToLength
<1>5. n \in Good
  BY <1>4
<1> QED
  BY <1>5 DEF Good
=============================================================================
