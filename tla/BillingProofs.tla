---------------------------- MODULE BillingProofs ----------------------------
(***************************************************************************)
(* Theorems about UsageSettlement and about Entitlements, which adds the   *)
(* subscriptions and rebates to it, for every choice of their constants.   *)
(* The module has the facts about sums first, then the inductive           *)
(* invariants of UsageSettlement (types; Balanced; Admitted; Counted;      *)
(* Booked and Remembered; Windowed and Budgeted), each with the theorems   *)
(* that follow from it, and then those of Entitlements (Funded, Metered).  *)
(***************************************************************************)
EXTENDS Entitlements, FiniteSetTheorems, WellFoundedInduction, TLAPS

-----------------------------------------------------------------------------
\* Sums over finite sets of rows.  The fold of SumFunctionOnSet is a recursive
\* function chosen over the subsets of its set; that it exists and is unique,
\* and every fact about sums below, is shown by looking at a smallest set for
\* which the fact would fail.
Pick(s) == CHOOSE x \in s : TRUE
Partial(f, g, s) == IF s = {} THEN 0 ELSE f[Pick(s)] + g[s \ {Pick(s)}]
Sums(f, g, S) == g = [s \in SUBSET S |-> Partial(f, g, s)]
SumsOf(f, S) == CHOOSE g : Sums(f, g, S)

\* Among subsets of a finite set there is a smallest one.
LEMMA Smallest ==
  ASSUME NEW S, IsFiniteSet(S), NEW B \in SUBSET SUBSET S, B # {}
  PROVE  \E s \in B : IsFiniteSet(s) /\ \A t \in B : ~(t \subseteq s /\ t # s)
<1>1. IsWellFoundedOn(StrictSubsetOrdering(S), FiniteSubsetsOf(S))
  BY FS_StrictSubsetOrderingWellFounded
<1>2. B \subseteq FiniteSubsetsOf(S)
  BY FS_Subset DEF FiniteSubsetsOf
<1>3. PICK s \in B : \A t \in B : ~(<<t, s>> \in StrictSubsetOrdering(S))
  BY <1>1, <1>2, WFMin
<1> QED
  BY <1>2, <1>3 DEF StrictSubsetOrdering, FiniteSubsetsOf

\* The element a fold takes first is one of the set.
LEMMA PickFact == ASSUME NEW s, s # {} PROVE Pick(s) \in s
BY DEF Pick

\* A table of partial sums satisfies its recursion.
LEMMA PartialSums ==
  ASSUME NEW f, NEW g, NEW S, Sums(f, g, S), NEW s \in SUBSET S
  PROVE  g[s] = Partial(f, g, s)
BY DEF Sums

\* There is at most one table of partial sums.
LEMMA UniqueSums ==
  ASSUME NEW S, IsFiniteSet(S), NEW f, NEW g, NEW h, Sums(f, g, S), Sums(f, h, S)
  PROVE  g = h
<1> DEFINE B == {s \in SUBSET S : g[s] # h[s]}
<1>1. ASSUME B # {} PROVE FALSE
  <2>1. PICK s \in B : \A t \in B : ~(t \subseteq s /\ t # s)
    <3>1. B \in SUBSET SUBSET S
      OBVIOUS
    <3> HIDE DEF B
    <3> QED
      BY <1>1, <3>1, Smallest
  <2>2. s # {} => g[s \ {Pick(s)}] = h[s \ {Pick(s)}]
    BY <2>1, PickFact
  <2>3. Partial(f, g, s) = Partial(f, h, s)
    BY <2>2 DEF Partial
  <2> QED
    BY <2>1, <2>3, PartialSums
<1>2. \A s \in SUBSET S : g[s] = h[s]
  BY <1>1
<1>3. g = [s \in SUBSET S |-> g[s]] /\ h = [s \in SUBSET S |-> h[s]]
  BY DEF Sums
<1> QED
  BY <1>2, <1>3

\* A table of partial sums serves for every subset.
LEMMA Narrowed ==
  ASSUME NEW S, NEW T \in SUBSET S, NEW f, NEW g, Sums(f, g, S)
  PROVE  Sums(f, [s \in SUBSET T |-> g[s]], T)
<1> DEFINE h == [s \in SUBSET T |-> g[s]]
<1>1. ASSUME NEW s \in SUBSET T PROVE h[s] = Partial(f, h, s)
  <2>1. g[s] = Partial(f, g, s)
    BY PartialSums
  <2> QED
    BY <2>1 DEF Partial
<1> QED
  BY <1>1 DEF Sums

\* Two tables of partial sums agree on what both cover.
LEMMA SameSums ==
  ASSUME NEW S, NEW T \in SUBSET S, IsFiniteSet(T), NEW f, NEW g, NEW h,
         Sums(f, g, S), Sums(f, h, T)
  PROVE  g[T] = h[T]
<1> DEFINE k == [s \in SUBSET T |-> g[s]]
<1>1. Sums(f, k, T)
  BY Narrowed
<1>2. k[T] = g[T]
  OBVIOUS
<1> HIDE DEF k
<1> QED
  BY <1>1, <1>2, UniqueSums

\* There is a table of partial sums.
LEMMA SumsExist ==
  ASSUME NEW S, IsFiniteSet(S), NEW f
  PROVE  \E g : Sums(f, g, S)
<1> DEFINE B == {s \in SUBSET S : ~\E g : Sums(f, g, s)}
<1>1. ASSUME B # {} PROVE FALSE
  <2>1. PICK T \in B : IsFiniteSet(T) /\ \A t \in B : ~(t \subseteq T /\ t # T)
    <3>1. B \in SUBSET SUBSET S
      OBVIOUS
    <3> HIDE DEF B
    <3> QED
      BY <1>1, <3>1, Smallest
  <2> DEFINE G(s) == SumsOf(f, s)
             h == [s \in SUBSET T |-> IF s # T THEN G(s)[s]
                                      ELSE IF T = {} THEN 0
                                      ELSE f[Pick(T)] + G(T \ {Pick(T)})[T \ {Pick(T)}]]
  <2>2. ASSUME NEW s \in SUBSET T, s # T PROVE Sums(f, G(s), s)
    <3>1. \E g : Sums(f, g, s)
      BY <2>1, <2>2
    <3> QED
      BY <3>1 DEF SumsOf
  <2> HIDE DEF G
  <2>3. ASSUME NEW s \in SUBSET T, s # T PROVE h[s] = Partial(f, h, s)
    <3>1. G(s)[s] = Partial(f, G(s), s)
      BY <2>2, <2>3, PartialSums
    <3>2. CASE s = {}
      BY <2>3, <3>1, <3>2 DEF Partial
    <3>3. CASE s # {}
      <4> DEFINE t == s \ {Pick(s)}
      <4>1. t \in SUBSET T /\ t # T /\ t \in SUBSET s
        BY <2>3, <3>3, PickFact
      <4>2. IsFiniteSet(t)
        BY <2>1, <4>1, FS_Subset
      <4>3. Sums(f, G(s), s) /\ Sums(f, G(t), t)
        BY <2>2, <2>3, <4>1
      <4>5. G(t)[t] = G(s)[t]
        <5> HIDE DEF t
        <5> QED
          BY <4>1, <4>2, <4>3, SameSums
      <4>6. h[t] = G(t)[t]
        BY <4>1
      <4>7. h[s] = G(s)[s]
        BY <2>3
      <4> QED
        BY <3>1, <3>3, <4>5, <4>6, <4>7 DEF Partial
    <3> QED
      BY <3>2, <3>3
  <2>4. h[T] = Partial(f, h, T)
    BY PickFact DEF Partial
  <2>5. Sums(f, h, T)
    BY <2>3, <2>4 DEF Sums
  <2> QED
    BY <2>1, <2>5
<1> QED
  BY <1>1

\* SumFunctionOnSet looks its set up in that table.
LEMMA SumIs == ASSUME NEW f, NEW S PROVE SumFunctionOnSet(f, S) = SumsOf(f, S)[S]
BY DEF SumFunctionOnSet, FoldFunctionOnSet, MapThenFoldSet, SumsOf, Sums, Partial, Pick

\* The recursion of a sum.
LEMMA SumStep ==
  ASSUME NEW S, IsFiniteSet(S), NEW f
  PROVE  /\ S = {} => SumFunctionOnSet(f, S) = 0
         /\ S # {} => SumFunctionOnSet(f, S) =
                        f[Pick(S)] + SumFunctionOnSet(f, S \ {Pick(S)})
<1> DEFINE T == S \ {Pick(S)}
<1>1. Sums(f, SumsOf(f, S), S)
  BY SumsExist DEF SumsOf
<1>2. IsFiniteSet(T) /\ T \in SUBSET S
  BY FS_Subset
<1>3. Sums(f, SumsOf(f, T), T)
  BY <1>2, SumsExist DEF SumsOf
<1>5. SumsOf(f, S)[T] = SumsOf(f, T)[T]
  <2> HIDE DEF T
  <2> QED
    BY <1>1, <1>2, <1>3, SameSums
<1>6. SumsOf(f, S)[S] = Partial(f, SumsOf(f, S), S)
  BY <1>1, PartialSums
<1> QED
  BY <1>5, <1>6, SumIs DEF Partial

\* A sum is any of its rows plus the sum of the others: the order does not
\* matter.
LEMMA SumOfOthers ==
  ASSUME NEW S, IsFiniteSet(S), NEW f, \A x \in S : f[x] \in Int
  PROVE  /\ SumFunctionOnSet(f, S) \in Int
         /\ \A x \in S : SumFunctionOnSet(f, S) = f[x] + SumFunctionOnSet(f, S \ {x})
<1> DEFINE Sum(s) == SumFunctionOnSet(f, s)
           Good(s) == Sum(s) \in Int /\ \A x \in s : Sum(s) = f[x] + Sum(s \ {x})
           B == {s \in SUBSET S : ~Good(s)}
<1>1. ASSUME B # {} PROVE FALSE
  <2>1. PICK T \in B : IsFiniteSet(T) /\ \A t \in B : ~(t \subseteq T /\ t # T)
    <3>1. B \in SUBSET SUBSET S
      OBVIOUS
    <3> HIDE DEF B
    <3> QED
      BY <1>1, <3>1, Smallest
  <2>2. T \in SUBSET S /\ ~Good(T) /\ \A x \in T : f[x] \in Int
    BY <2>1
  <2>3. ASSUME NEW t \in SUBSET T, t # T PROVE Good(t)
    BY <2>1, <2>2, <2>3
  <2>4. /\ T = {} => Sum(T) = 0
        /\ T # {} => Sum(T) = f[Pick(T)] + Sum(T \ {Pick(T)})
    BY <2>1, SumStep
  <2> HIDE DEF B, Sum
  <2>5. T # {}
    BY <2>2, <2>4
  <2> DEFINE p == Pick(T)
  <2>6. p \in T
    BY <2>5, PickFact
  <2>7. Sum(T) = f[p] + Sum(T \ {p})
    BY <2>4, <2>5
  <2> HIDE DEF p
  <2>8. Good(T \ {p})
    BY <2>3, <2>6
  <2>9. Sum(T) \in Int
    BY <2>2, <2>6, <2>7, <2>8
  <2>10. ASSUME NEW x \in T PROVE Sum(T) = f[x] + Sum(T \ {x})
    <3>1. CASE x = p
      BY <2>7, <3>1
    <3>2. CASE x # p
      <4>1. Good(T \ {x})
        BY <2>3
      <4>2. Sum(T \ {p}) = f[x] + Sum((T \ {p}) \ {x})
        BY <2>8, <3>2
      <4>3. Sum(T \ {x}) = f[p] + Sum((T \ {x}) \ {p})
        BY <2>6, <3>2, <4>1
      <4>4. (T \ {p}) \ {x} = (T \ {x}) \ {p}
        OBVIOUS
      <4>5. Good((T \ {x}) \ {p})
        BY <2>3, <2>6
      <4>6. f[x] \in Int /\ f[p] \in Int /\ Sum((T \ {x}) \ {p}) \in Int
        BY <2>2, <2>6, <4>5
      <4> DEFINE a == f[x]
                 b == f[p]
                 c == Sum((T \ {x}) \ {p})
      <4>7. a \in Int /\ b \in Int /\ c \in Int
        BY <4>6
      <4>8. Sum(T \ {p}) = a + c /\ Sum(T \ {x}) = b + c
        BY <4>2, <4>3, <4>4
      <4>9. Sum(T) = b + Sum(T \ {p})
        BY <2>7
      <4> HIDE DEF a, b, c
      <4>10. Sum(T) = b + (a + c)
        BY <4>8, <4>9
      <4>11. a + (b + c) = b + (a + c)
        BY <4>7
      <4>12. Sum(T) = a + Sum(T \ {x})
        BY <4>8, <4>10, <4>11
      <4> QED
        BY <4>12 DEF a
    <3> QED
      BY <3>1, <3>2
  <2> QED
    BY <2>2, <2>9, <2>10
<1>2. Good(S)
  BY <1>1
<1> QED
  BY <1>2

\* Equal rows have equal sums.
LEMMA SumOfSame ==
  ASSUME NEW S, IsFiniteSet(S), NEW f, NEW g, \A x \in S : f[x] = g[x]
  PROVE  SumFunctionOnSet(f, S) = SumFunctionOnSet(g, S)
<1> DEFINE F(s) == SumFunctionOnSet(f, s)
           G(s) == SumFunctionOnSet(g, s)
           B == {s \in SUBSET S : F(s) # G(s)}
<1>1. ASSUME B # {} PROVE FALSE
  <2>1. PICK T \in B : IsFiniteSet(T) /\ \A t \in B : ~(t \subseteq T /\ t # T)
    <3>1. B \in SUBSET SUBSET S
      OBVIOUS
    <3> HIDE DEF B
    <3> QED
      BY <1>1, <3>1, Smallest
  <2>2. /\ T = {} => F(T) = 0 /\ G(T) = 0
        /\ T # {} => /\ F(T) = f[Pick(T)] + F(T \ {Pick(T)})
                     /\ G(T) = g[Pick(T)] + G(T \ {Pick(T)})
    BY <2>1, SumStep
  <2> HIDE DEF F, G
  <2>3. T # {} => F(T \ {Pick(T)}) = G(T \ {Pick(T)}) /\ f[Pick(T)] = g[Pick(T)]
    BY <2>1, PickFact
  <2> QED
    BY <2>1, <2>2, <2>3
<1> QED
  BY <1>1

\* One row changes, or joins or leaves.
LEMMA SumOneRow ==
  ASSUME NEW S, IsFiniteSet(S), NEW T, IsFiniteSet(T), NEW x, S \ {x} = T \ {x},
         NEW f, NEW g, \A y \in S : f[y] \in Int, \A y \in T : g[y] \in Int,
         \A y \in S \ {x} : f[y] = g[y]
  PROVE  /\ SumFunctionOnSet(f, S) \in Int /\ SumFunctionOnSet(g, T) \in Int
         /\ SumFunctionOnSet(g, T) = SumFunctionOnSet(f, S)
                                     + (IF x \in T THEN g[x] ELSE 0) - (IF x \in S THEN f[x] ELSE 0)
<1>1. /\ SumFunctionOnSet(f, S) \in Int /\ SumFunctionOnSet(g, T) \in Int
      /\ x \in S => SumFunctionOnSet(f, S) = f[x] + SumFunctionOnSet(f, S \ {x})
      /\ x \in T => SumFunctionOnSet(g, T) = g[x] + SumFunctionOnSet(g, T \ {x})
  BY SumOfOthers
<1>2. IsFiniteSet(S \ {x})
  BY FS_Subset
<1>3. SumFunctionOnSet(f, S \ {x}) = SumFunctionOnSet(g, T \ {x})
  BY <1>2, SumOfSame
<1>4. (x \notin S => S \ {x} = S) /\ (x \notin T => T \ {x} = T)
  OBVIOUS
<1>5. SumFunctionOnSet(f, S \ {x}) \in Int
  BY <1>2, SumOfOthers
<1> DEFINE a == SumFunctionOnSet(f, S)
           b == SumFunctionOnSet(g, T)
           c == SumFunctionOnSet(f, S \ {x})
           u == f[x]
           v == g[x]
<1>6. a \in Int /\ b \in Int /\ c \in Int
  BY <1>1, <1>5
<1>7. (x \in S => u \in Int /\ a = u + c) /\ (x \notin S => a = c)
  BY <1>1, <1>4
<1>8. (x \in T => v \in Int /\ b = v + c) /\ (x \notin T => b = c)
  BY <1>1, <1>3, <1>4
<1> HIDE DEF a, b, c, u, v
<1>9. b = a + (IF x \in T THEN v ELSE 0) - (IF x \in S THEN u ELSE 0)
  <2>1. CASE x \in T /\ x \in S
    BY <1>6, <1>7, <1>8, <2>1
  <2>2. CASE x \in T /\ x \notin S
    BY <1>6, <1>7, <1>8, <2>2
  <2>3. CASE x \notin T /\ x \in S
    BY <1>6, <1>7, <1>8, <2>3
  <2>4. CASE x \notin T /\ x \notin S
    BY <1>6, <1>7, <1>8, <2>4
  <2> QED
    BY <2>1, <2>2, <2>3, <2>4
<1> QED
  BY <1>6, <1>9 DEF a, b, u, v

\* A sum of natural numbers is one, and at least each of them.
LEMMA SumOfNats ==
  ASSUME NEW S, IsFiniteSet(S), NEW f, \A x \in S : f[x] \in Nat
  PROVE  /\ SumFunctionOnSet(f, S) \in Nat
         /\ \A x \in S : f[x] <= SumFunctionOnSet(f, S)
<1> DEFINE Sum(s) == SumFunctionOnSet(f, s)
           B == {s \in SUBSET S : Sum(s) \notin Nat}
<1>1. ASSUME B # {} PROVE FALSE
  <2>1. PICK T \in B : IsFiniteSet(T) /\ \A t \in B : ~(t \subseteq T /\ t # T)
    <3>1. B \in SUBSET SUBSET S
      OBVIOUS
    <3> HIDE DEF B
    <3> QED
      BY <1>1, <3>1, Smallest
  <2>2. /\ T = {} => Sum(T) = 0
        /\ T # {} => Sum(T) = f[Pick(T)] + Sum(T \ {Pick(T)})
    BY <2>1, SumStep
  <2> HIDE DEF Sum
  <2>3. T # {} => Sum(T \ {Pick(T)}) \in Nat /\ f[Pick(T)] \in Nat
    BY <2>1, PickFact
  <2> QED
    BY <2>1, <2>2, <2>3
<1>2. \A s \in SUBSET S : Sum(s) \in Nat
  BY <1>1
<1>3. ASSUME NEW x \in S PROVE f[x] <= Sum(S)
  <2>1. Sum(S) = f[x] + Sum(S \ {x})
    BY SumOfOthers
  <2>2. Sum(S \ {x}) \in Nat /\ f[x] \in Nat
    BY <1>2
  <2> HIDE DEF Sum
  <2> QED
    BY <2>1, <2>2
<1> QED
  BY <1>2, <1>3

\* A sum of zeros.
LEMMA SumOfZeros ==
  ASSUME NEW S, IsFiniteSet(S), NEW f, \A x \in S : f[x] = 0
  PROVE  SumFunctionOnSet(f, S) = 0
<1> DEFINE Sum(s) == SumFunctionOnSet(f, s)
           B == {s \in SUBSET S : Sum(s) # 0}
<1>1. ASSUME B # {} PROVE FALSE
  <2>1. PICK T \in B : IsFiniteSet(T) /\ \A t \in B : ~(t \subseteq T /\ t # T)
    <3>1. B \in SUBSET SUBSET S
      OBVIOUS
    <3> HIDE DEF B
    <3> QED
      BY <1>1, <3>1, Smallest
  <2>2. /\ T = {} => Sum(T) = 0
        /\ T # {} => Sum(T) = f[Pick(T)] + Sum(T \ {Pick(T)})
    BY <2>1, SumStep
  <2> HIDE DEF Sum
  <2>3. T # {} => Sum(T \ {Pick(T)}) = 0 /\ f[Pick(T)] = 0
    BY <2>1, PickFact
  <2> QED
    BY <2>1, <2>2, <2>3
<1> QED
  BY <1>1

\* A sum over rows is the sum over some of them and over the rest.
LEMMA SumSplit ==
  ASSUME NEW S, IsFiniteSet(S), NEW f, \A x \in S : f[x] \in Int, NEW A \in SUBSET S
  PROVE  /\ SumFunctionOnSet(f, A) \in Int /\ SumFunctionOnSet(f, S \ A) \in Int
         /\ SumFunctionOnSet(f, S) = SumFunctionOnSet(f, A) + SumFunctionOnSet(f, S \ A)
<1> DEFINE Sum(s) == SumFunctionOnSet(f, s)
           B == {s \in SUBSET S : Sum(S) # Sum(s) + Sum(S \ s)}
<1>0. \A s \in SUBSET S : IsFiniteSet(s)
  BY FS_Subset
<1>1. ASSUME NEW s \in SUBSET S
      PROVE  Sum(s) \in Int /\ \A x \in s : Sum(s) = f[x] + Sum(s \ {x})
  <2>1. IsFiniteSet(s) /\ \A x \in s : f[x] \in Int
    BY <1>0
  <2> QED
    BY <2>1, SumOfOthers
<1>2. Sum({}) = 0
  BY <1>0, SumStep
<1> HIDE DEF Sum
<1>3. ASSUME B # {} PROVE FALSE
  <2>1. PICK T \in B : IsFiniteSet(T) /\ \A t \in B : ~(t \subseteq T /\ t # T)
    <3>1. B \in SUBSET SUBSET S
      OBVIOUS
    <3> HIDE DEF B
    <3> QED
      BY <1>3, <3>1, Smallest
  <2>2. T # {}
    <3>1. Sum(S) = 0 + Sum(S)
      BY <1>1
    <3>2. S \ {} = S
      OBVIOUS
    <3> QED
      BY <1>2, <2>1, <3>1, <3>2
  <2>3. PICK x \in T : TRUE
    BY <2>2
  <2> DEFINE u == T \ {x}
             a == Sum(u)
             b == Sum(S \ T)
             z == f[x]
  <2>4. Sum(S) = a + Sum(S \ u)
    BY <2>1, <2>3
  <2>5. Sum(T) = z + a
    BY <1>1, <2>1
  <2>6. Sum(S \ u) = z + b
    <3>1. (S \ u) \ {x} = S \ T /\ x \in S \ u /\ S \ u \in SUBSET S
      BY <2>1
    <3> HIDE DEF u
    <3> QED
      BY <1>1, <3>1
  <2>7. a \in Int /\ b \in Int /\ z \in Int
    <3>1. u \in SUBSET S /\ S \ T \in SUBSET S /\ x \in S
      BY <2>1
    <3> HIDE DEF u
    <3> QED
      BY <1>1, <3>1
  <2>8. Sum(S) # Sum(T) + b
    BY <2>1
  <2> HIDE DEF u, a, b, z, B
  <2>9. a + (z + b) = (z + a) + b
    BY <2>7
  <2> QED
    BY <2>4, <2>5, <2>6, <2>8, <2>9
<1>4. Sum(A) \in Int /\ Sum(S \ A) \in Int
  BY <1>1
<1>5. Sum(S) = Sum(A) + Sum(S \ A)
  BY <1>3
<1> QED
  BY <1>4, <1>5 DEF Sum

\* Rows that add nothing may be left out of a sum.
LEMMA SumOfSome ==
  ASSUME NEW S, IsFiniteSet(S), NEW f, \A x \in S : f[x] \in Int,
         NEW A \in SUBSET S, \A x \in S \ A : f[x] = 0
  PROVE  SumFunctionOnSet(f, S) = SumFunctionOnSet(f, A)
<1>1. /\ SumFunctionOnSet(f, A) \in Int
      /\ SumFunctionOnSet(f, S) = SumFunctionOnSet(f, A) + SumFunctionOnSet(f, S \ A)
  BY SumSplit
<1>2. IsFiniteSet(S \ A)
  BY FS_Subset
<1>3. SumFunctionOnSet(f, S \ A) = 0
  BY <1>2, SumOfZeros
<1> DEFINE n == SumFunctionOnSet(f, A)
<1>4. n \in Int /\ SumFunctionOnSet(f, S) = n + 0
  BY <1>1, <1>3
<1> HIDE DEF n
<1>5. SumFunctionOnSet(f, S) = n
  BY <1>4
<1> QED
  BY <1>5 DEF n

\* The rows of S that h puts in group d, or in one of the groups D.
RowsOf(S, h, d) == {x \in S : h[x] = d}
RowsIn(S, h, D) == {x \in S : h[x] \in D}

\* A sum by groups: the totals of the groups add up to the sum over their rows.
LEMMA SumByGroup ==
  ASSUME NEW D, IsFiniteSet(D), NEW S, IsFiniteSet(S), NEW f, \A x \in S : f[x] \in Int,
         NEW h, NEW total,
         \A d \in D : total[d] = SumFunctionOnSet(f, RowsOf(S, h, d))
  PROVE  SumFunctionOnSet(total, D) = SumFunctionOnSet(f, RowsIn(S, h, D))
<1> USE DEF RowsOf, RowsIn
<1> DEFINE Sum(s) == SumFunctionOnSet(f, s)
           Tot(s) == SumFunctionOnSet(total, s)
           In(E) == RowsIn(S, h, E)
           Of(d) == RowsOf(S, h, d)
           B == {E \in SUBSET D : Tot(E) # Sum(In(E))}
<1>1. \A d \in D : total[d] = Sum(Of(d))
  OBVIOUS
<1>2. ASSUME NEW E \in SUBSET D, NEW d \in E
      PROVE  Sum(In(E)) = Sum(Of(d)) + Sum(In(E \ {d})) /\ Sum(Of(d)) \in Int
  <2>1. In(E) \ Of(d) = In(E \ {d}) /\ Of(d) \in SUBSET In(E) /\ In(E) \in SUBSET S
    OBVIOUS
  <2> DEFINE W == In(E)
             V == Of(d)
  <2>2. IsFiniteSet(W) /\ (\A x \in W : f[x] \in Int) /\ V \in SUBSET W
    BY <2>1, FS_Subset
  <2> HIDE DEF W, V
  <2>3. Sum(W) = Sum(V) + Sum(W \ V) /\ Sum(V) \in Int
    BY <2>2, SumSplit
  <2> HIDE DEF Sum
  <2> QED
    BY <2>1, <2>3 DEF W, V
<1>3. In({}) = {} /\ Sum({}) = 0
  BY SumStep, FS_EmptySet
<1>4. ASSUME NEW E \in SUBSET D
      PROVE  /\ E = {} => Tot(E) = 0
             /\ \A d \in E : Tot(E) = total[d] + Tot(E \ {d})
  <2>1. IsFiniteSet(E) /\ \A d \in E : total[d] \in Int
    <3>1. IsFiniteSet(E)
      BY FS_Subset
    <3> QED
      BY <1>1, <1>2, <3>1
  <2>2. /\ E = {} => Tot(E) = 0
        /\ \A d \in E : Tot(E) = total[d] + Tot(E \ {d})
    BY <2>1, SumStep, SumOfOthers
  <2> QED
    BY <2>2
<1> HIDE DEF Sum, Tot, In, Of
<1>5. ASSUME B # {} PROVE FALSE
  <2>1. PICK T \in B : IsFiniteSet(T) /\ \A t \in B : ~(t \subseteq T /\ t # T)
    <3>1. B \in SUBSET SUBSET D
      OBVIOUS
    <3> HIDE DEF B
    <3> QED
      BY <1>5, <3>1, Smallest
  <2>2. T # {}
    BY <1>3, <1>4, <2>1
  <2>3. PICK d \in T : TRUE
    BY <2>2
  <2>4. Tot(T \ {d}) = Sum(In(T \ {d}))
    BY <2>1, <2>3
  <2> QED
    BY <1>1, <1>2, <1>4, <2>1, <2>4
<1>6. Tot(D) = Sum(In(D))
  BY <1>5
<1> QED
  BY <1>6 DEF Tot, Sum, In

\* Adding row by row adds the sums.
LEMMA SumAdds ==
  ASSUME NEW S, IsFiniteSet(S), NEW f, NEW d, NEW g,
         \A x \in S : f[x] \in Int /\ d[x] \in Int /\ g[x] = f[x] + d[x]
  PROVE  /\ SumFunctionOnSet(f, S) \in Int /\ SumFunctionOnSet(d, S) \in Int
         /\ SumFunctionOnSet(g, S) = SumFunctionOnSet(f, S) + SumFunctionOnSet(d, S)
<1> DEFINE F(T) == SumFunctionOnSet(f, T)
           D(T) == SumFunctionOnSet(d, T)
           G(T) == SumFunctionOnSet(g, T)
           B == {T \in SUBSET S : G(T) # F(T) + D(T)}
<1>1. \A T \in SUBSET S : IsFiniteSet(T)
  BY FS_Subset
<1>2. \A T \in SUBSET S : /\ F(T) \in Int /\ D(T) \in Int /\ G(T) \in Int
                          /\ \A x \in T : /\ F(T) = f[x] + F(T \ {x})
                                          /\ D(T) = d[x] + D(T \ {x})
                                          /\ G(T) = g[x] + G(T \ {x})
  <2> SUFFICES ASSUME NEW T \in SUBSET S
               PROVE  /\ F(T) \in Int /\ D(T) \in Int /\ G(T) \in Int
                      /\ \A x \in T : /\ F(T) = f[x] + F(T \ {x})
                                      /\ D(T) = d[x] + D(T \ {x})
                                      /\ G(T) = g[x] + G(T \ {x})
    OBVIOUS
  <2>1. F(T) \in Int /\ \A x \in T : F(T) = f[x] + F(T \ {x})
    BY <1>1, SumOfOthers
  <2>2. D(T) \in Int /\ \A x \in T : D(T) = d[x] + D(T \ {x})
    BY <1>1, SumOfOthers
  <2>3. \A x \in T : g[x] \in Int
    OBVIOUS
  <2>4. G(T) \in Int /\ \A x \in T : G(T) = g[x] + G(T \ {x})
    BY <1>1, <2>3, SumOfOthers
  <2> QED
    BY <2>1, <2>2, <2>4
<1>3. \A T \in SUBSET S : T = {} => F(T) = 0 /\ D(T) = 0 /\ G(T) = 0
  BY <1>1, SumStep
<1> HIDE DEF F, D, G
<1>4. ASSUME B # {} PROVE FALSE
  <2>1. PICK T \in B : \A U \in B : ~(U \subseteq T /\ U # T)
    <3>1. B \in SUBSET SUBSET S
      OBVIOUS
    <3> HIDE DEF B
    <3> QED
      BY <1>4, <3>1, Smallest
  <2>2. T # {}
    <3>1. T \in SUBSET S /\ G(T) # F(T) + D(T)
      BY <2>1
    <3> QED
      BY <1>3, <3>1
  <2>3. PICK x \in T : TRUE
    BY <2>2
  <2>4. G(T \ {x}) = F(T \ {x}) + D(T \ {x})
    BY <2>1, <2>3
  <2>5. x \in S /\ T \ {x} \in SUBSET S /\ T \in SUBSET S /\ G(T) # F(T) + D(T)
    BY <2>1
  <2>6. /\ F(T) = f[x] + F(T \ {x}) /\ D(T) = d[x] + D(T \ {x}) /\ G(T) = g[x] + G(T \ {x})
        /\ F(T \ {x}) \in Int /\ D(T \ {x}) \in Int
        /\ f[x] \in Int /\ d[x] \in Int /\ g[x] = f[x] + d[x]
    BY <1>2, <2>5
  <2> QED
    BY <2>4, <2>5, <2>6
<1>5. G(S) = F(S) + D(S) /\ F(S) \in Int /\ D(S) \in Int
  BY <1>2, <1>4
<1> QED
  BY <1>5 DEF F, D, G

\* A sum over the rows of a part is the sum over all rows of what lies in it.
LEMMA SumOfPart ==
  ASSUME NEW S, IsFiniteSet(S), NEW f, \A x \in S : f[x] \in Int, NEW A \in SUBSET S
  PROVE  SumFunctionOnSet(f, A) =
           SumFunctionOnSet([x \in S |-> IF x \in A THEN f[x] ELSE 0], S)
<1> DEFINE g == [x \in S |-> IF x \in A THEN f[x] ELSE 0]
<1>1. \A x \in S : g[x] \in Int
  OBVIOUS
<1>2. \A x \in S \ A : g[x] = 0
  OBVIOUS
<1>3. \A x \in A : f[x] = g[x]
  OBVIOUS
<1>4. IsFiniteSet(A)
  BY FS_Subset
<1> HIDE DEF g
<1>5. SumFunctionOnSet(g, S) = SumFunctionOnSet(g, A)
  BY <1>1, <1>2, SumOfSome
<1>6. SumFunctionOnSet(f, A) = SumFunctionOnSet(g, A)
  BY <1>3, <1>4, SumOfSame
<1> QED
  BY <1>5, <1>6 DEF g

-----------------------------------------------------------------------------
\* The minute and the day of a moment the clock can show are rows of the tables.
LEMMA DivBound ==
  ASSUME NEW d \in Nat \ {0}, NEW a \in Nat, NEW b \in Nat, a <= b
  PROVE  a \div d \in 0 .. b \div d
<1>1. /\ a \div d \in Nat /\ b \div d \in Nat
      /\ d * (a \div d) <= a
      /\ b < d * (b \div d + 1)
  BY SMT
<1>2. ASSUME a \div d >= b \div d + 1 PROVE FALSE
  <2>1. d * (a \div d) >= d * (b \div d + 1)
    BY <1>1, <1>2, SMT
  <2> QED BY <1>1, <2>1, SMT
<1> QED BY <1>1, <1>2, SMT

\* The clock shows minutes and days of the tables.
LEMMA ClockRows ==
  ASSUME NEW t \in Times
  PROVE  Minute(t) \in Minutes /\ Day(t) \in Days
BY DivBound, TimeAssumption DEF Times, Minute, Minutes, Day, Days

\* Replacing one rate window keeps the table well-typed.
LEMMA RateUpdate ==
  ASSUME NEW table \in [Keys -> [Minutes -> WindowType]],
         NEW k \in Keys, NEW w \in Minutes, NEW new \in WindowType
  PROVE  [table EXCEPT ![k][w] = new] \in [Keys -> [Minutes -> WindowType]]
OBVIOUS

-----------------------------------------------------------------------------
\* The tables start well-typed.
LEMMA TypeInit == Init => TypeOK
<1> SUFFICES ASSUME Init PROVE TypeOK
  OBVIOUS
<1>1. 0 \in Times /\ 0 \in Minutes
  BY TimeAssumption, DivBound DEF Times, Minutes
<1>2. NoRow \in ReservationType
  BY <1>1 DEF NoRow, ReservationType
<1>3. NoWindow \in WindowType
  BY DEF NoWindow, WindowType
<1>4. PICK a \in Accounts : a = CHOOSE b \in Accounts : TRUE
  BY KeysAssumption
<1>5. NoGrant \in GrantType /\ NoCycle \in CycleType
  BY <1>4 DEF NoGrant, GrantType, NoCycle, CycleType
<1> QED BY <1>1, <1>2, <1>3, <1>5 DEF Init, TypeOK

USE DEF Active, Settled, Prepaid, Account

\* Admission and resizing write well-typed rows, holds and windows.
LEMMA TypeReserve ==
  ASSUME TypeOK, NEW r \in Reservations, Reserve(r)
  PROVE  TypeOK'
<1>1. Minute(now) \in Minutes /\ 0 \in Times
  BY ClockRows, TimeAssumption DEF TypeOK, Times
<1>2. CASE \E t \in TokenCounts : ReserveUnlimited(r, t)
  <2>1. PICK t \in TokenCounts : ReserveUnlimited(r, t)
    BY <1>2
  <2>2. [NoRow EXCEPT !.status = "reserved", !.prepaid = FALSE, !.tokens = t,
                      !.window = Minute(now)] \in ReservationType
    BY <1>1, AmountAssumption DEF NoRow, ReservationType
  <2> QED
    BY <2>1, <2>2 DEF ReserveUnlimited, TypeOK, budgetVars, grantVars, cycleVars
<1>3. CASE \E m \in Holds, t \in TokenCounts, tokensCount \in BOOLEAN :
             ReservePrepaid(r, m, t, tokensCount)
  <2>1. PICK m \in Holds, t \in TokenCounts, tokensCount \in BOOLEAN :
               ReservePrepaid(r, m, t, tokensCount)
    BY <1>3
  <2> DEFINE k == KeyOf[r]
             tpm == IF tokensCount THEN admission[r].tpm ELSE NoLimit
             tokens == IF tpm = NoLimit THEN 0 ELSE t
  <2>2. k \in Keys /\ AccountOf[k] \in Accounts /\ m \in Nat /\ t \in Nat
    BY KeysAssumption, AmountAssumption
  <2>3. [NoRow EXCEPT !.status = "reserved", !.micros = m, !.tokens = t,
                      !.window = Minute(now), !.tpmApplied = (tpm # NoLimit)]
          \in ReservationType
    BY <1>1, <2>2 DEF NoRow, ReservationType
  <2>4. res' \in [Reservations -> ReservationType]
    BY <2>1, <2>3 DEF ReservePrepaid, TypeOK
  <2>5. rate' \in [Keys -> [Minutes -> WindowType]]
    <3> DEFINE w == rate[k][Minute(now)]
               new == [live |-> TRUE,
                       requests |-> w.requests + IF admission[r].rpm = NoLimit THEN 0 ELSE 1,
                       tokens |-> w.tokens + tokens]
    <3>1. new \in WindowType
      BY <1>1, <2>2 DEF TypeOK, WindowType
    <3>2. rate' = rate \/ rate' = [rate EXCEPT ![k][Minute(now)] = new]
      BY <2>1 DEF ReservePrepaid
    <3> HIDE DEF w, new
    <3>3. rate \in [Keys -> [Minutes -> WindowType]]
      BY DEF TypeOK
    <3>4. [rate EXCEPT ![k][Minute(now)] = new] \in [Keys -> [Minutes -> WindowType]]
      BY <1>1, <2>2, <3>1, <3>3, RateUpdate
    <3> QED BY <3>2, <3>3, <3>4
  <2>6. /\ available' \in [Accounts -> Int] /\ held' \in [Accounts -> Int]
        /\ keyReserved' \in [Keys -> Nat]
    BY <2>1, <2>2 DEF ReservePrepaid, TypeOK
  <2> QED
    BY <2>1, <2>4, <2>5, <2>6 DEF ReservePrepaid, TypeOK, grantVars, cycleVars
<1> QED BY <1>2, <1>3 DEF Reserve

\* A resize writes well-typed rows, holds and windows.
LEMMA TypeResize ==
  ASSUME TypeOK, NEW r \in Reservations, Resize(r)
  PROVE  TypeOK'
<1>1. CASE \E t \in TokenCounts : ResizeUnlimited(r, t)
  <2>1. PICK t \in TokenCounts : ResizeUnlimited(r, t)
    BY <1>1
  <2>2. [res[r] EXCEPT !.tokens = t] \in ReservationType
    <3>1. res[r] \in ReservationType /\ t \in Nat
      BY AmountAssumption DEF TypeOK
    <3> QED BY <3>1 DEF ReservationType
  <2>3. res' \in [Reservations -> ReservationType]
    BY <2>1, <2>2 DEF ResizeUnlimited, TypeOK
  <2> QED
    BY <2>1, <2>3 DEF ResizeUnlimited, TypeOK, budgetVars, grantVars, cycleVars
<1>2. CASE \E m \in Holds, t \in TokenCounts : ResizePrepaid(r, m, t)
  <2>1. PICK m \in Holds, t \in TokenCounts : ResizePrepaid(r, m, t)
    BY <1>2
  <2> DEFINE k == KeyOf[r]
  <2>2. k \in Keys /\ AccountOf[k] \in Accounts /\ m \in Nat /\ t \in Nat
    BY KeysAssumption, AmountAssumption
  <2>3. res[r] \in ReservationType
    BY DEF TypeOK
  <2>4. res' \in [Reservations -> ReservationType]
    BY <2>1, <2>2, <2>3 DEF ResizePrepaid, TypeOK, ReservationType
  <2>5. rate' \in [Keys -> [Minutes -> WindowType]]
    <3>1. rate[k][res[r].window] \in WindowType /\ res[r].window \in Minutes
      BY <2>2, <2>3 DEF TypeOK, ReservationType
    <3>2. CASE ~res[r].tpmApplied
      BY <2>1, <3>2 DEF ResizePrepaid, TypeOK
    <3>3. CASE res[r].tpmApplied
      <4> DEFINE n == rate[k][res[r].window].tokens + t - res[r].tokens
      <4>1. n \in Nat /\ rate' = [rate EXCEPT ![k][res[r].window].tokens = n]
        BY <2>1, <2>2, <2>3, <3>1, <3>3 DEF ResizePrepaid, ReservationType, WindowType
      <4>2. [rate[k][res[r].window] EXCEPT !.tokens = n] \in WindowType
        BY <4>1, <3>1 DEF WindowType
      <4> HIDE DEF n
      <4> QED BY <4>1, <4>2, <2>2, <3>1 DEF TypeOK
    <3> QED BY <3>2, <3>3 DEF TypeOK, ReservationType
  <2>6. /\ available' \in [Accounts -> Int] /\ held' \in [Accounts -> Int]
        /\ keyReserved' \in [Keys -> Nat]
    BY <2>1, <2>2, <2>3 DEF ResizePrepaid, TypeOK, ReservationType
  <2> QED
    BY <2>1, <2>4, <2>5, <2>6 DEF ResizePrepaid, TypeOK, grantVars, cycleVars
<1> QED BY <1>1, <1>2 DEF Resize

\* Settlement books natural amounts: the charge is between zero and the
\* calculated price, each cycle gives at most what it has left.
LEMMA TypeSettle ==
  ASSUME TypeOK, NEW r \in Reservations, Settle(r)
  PROVE  TypeOK'
<1>1. PICK calculated \in Charges, t \in TokenCounts :
             \/ SettlePrepaid(r, calculated, t)
             \/ SettleUnlimited(r, calculated, t)
  BY DEF Settle
<1> DEFINE k == KeyOf[r]
           a == AccountOf[k]
           row == res[r]
<1>2. /\ k \in Keys /\ a \in Accounts /\ calculated \in Nat /\ t \in Nat
      /\ row \in ReservationType /\ now \in Times /\ Day(now) \in Days
  BY KeysAssumption, AmountAssumption, ClockRows DEF TypeOK
<1>3. CASE SettleUnlimited(r, calculated, t)
  <2>1. [row EXCEPT !.status = "settled", !.actual = calculated, !.used = t,
                    !.settledAt = now] \in ReservationType
    BY <1>2 DEF ReservationType
  <2>2. res' \in [Reservations -> ReservationType]
    BY <1>3, <2>1 DEF SettleUnlimited, TypeOK
  <2>3. /\ usageEntries' \in [Reservations -> Nat]
        /\ outbox' \in [Reservations -> {"none", "pending", "projected"}]
    BY <1>3 DEF SettleUnlimited, TypeOK, Larger
  <2> QED
    BY <1>3, <2>2, <2>3 DEF SettleUnlimited, TypeOK, budgetVars, grantVars, cycleVars
<1>4. CASE SettlePrepaid(r, calculated, t)
  <2>1. PICK actual \in 0 .. calculated :
          /\ BookCharge(r, actual, t)
          /\ \E give \in [LiveCycles(a) -> 0 .. actual] : DrawCycles(r, give)
    BY <1>4 DEF SettlePrepaid
  <2>11. ReleaseHold(r, t)
    BY <1>4 DEF SettlePrepaid
  <2>2. actual \in Nat
    BY <1>2
  <2>3. [row EXCEPT !.status = "settled", !.actual = actual, !.used = t,
                    !.settledAt = now] \in ReservationType
    BY <1>2, <2>2 DEF ReservationType
  <2>4. res' \in [Reservations -> ReservationType]
    BY <2>1, <2>3 DEF BookCharge, TypeOK
  <2>5. /\ keySettled' \in [Keys -> Nat] /\ usage' \in [Accounts -> Nat]
        /\ ledger' \in [Accounts -> Int]
        /\ rollup' \in [Keys -> [Days -> Nat]]
    BY <1>2, <2>1, <2>2 DEF BookCharge, TypeOK
  <2>6. available' \in [Accounts -> Int]
    <3>1. /\ Larger(row.micros - actual, 0) \in Int
          /\ Larger(actual - row.micros, 0) \in Int
      BY <1>2, <2>2 DEF ReservationType, Larger
    <3> QED BY <1>2, <2>1, <3>1 DEF BookCharge, TypeOK
  <2>7. keyReserved' \in [Keys -> Nat] /\ held' \in [Accounts -> Int]
    BY <1>2, <2>11 DEF ReleaseHold, TypeOK, ReservationType
  <2>8. rate' \in [Keys -> [Minutes -> WindowType]]
    <3> DEFINE w == rate[k][row.window]
               n == Larger(w.tokens - row.tokens + t, 0)
    <3>1. w \in WindowType /\ row.window \in Minutes
      BY <1>2 DEF TypeOK, ReservationType
    <3>2. [w EXCEPT !.tokens = n] \in WindowType
      BY <1>2, <3>1 DEF WindowType, ReservationType, Larger
    <3>3. rate' = rate \/ rate' = [rate EXCEPT ![k][row.window].tokens = n]
      BY <2>11 DEF ReleaseHold
    <3>4. [rate EXCEPT ![k][row.window].tokens = n]
            = [rate EXCEPT ![k][row.window] = [w EXCEPT !.tokens = n]]
      BY <1>2, <3>1 DEF TypeOK
    <3> HIDE DEF n, w
    <3>5. rate \in [Keys -> [Minutes -> WindowType]]
      BY DEF TypeOK
    <3>6. [rate EXCEPT ![k][row.window] = [w EXCEPT !.tokens = n]]
            \in [Keys -> [Minutes -> WindowType]]
      BY <1>2, <3>1, <3>2, <3>5, RateUpdate
    <3> QED BY <3>3, <3>4, <3>5, <3>6
  <2>9. cycle' \in [Cycles -> CycleType] /\ alloc' \in [Reservations -> [Cycles -> Nat]]
    <3>1. PICK give \in [LiveCycles(a) -> 0 .. actual] : DrawCycles(r, give)
      BY <2>1
    <3>2. ASSUME NEW c \in Cycles, c \in LiveCycles(a)
          PROVE  give[c] \in Nat /\ [cycle[c] EXCEPT !.consumed = @ + give[c]] \in CycleType
      <4>1. cycle[c] \in CycleType /\ give[c] \in 0 .. actual
        BY <3>2 DEF TypeOK
      <4>2. give[c] \in Nat
        BY <2>2, <4>1
      <4> QED BY <4>1, <4>2 DEF CycleType
    <3> QED BY <3>1, <3>2 DEF DrawCycles, TypeOK
  <2>10. /\ usageEntries' \in [Reservations -> Nat]
         /\ events' \subseteq Reservations
    BY <2>1 DEF BookCharge, TypeOK
  <2> QED
    BY <1>4, <2>4, <2>5, <2>6, <2>7, <2>8, <2>9, <2>10
       DEF SettlePrepaid, TypeOK, grantVars
<1> QED BY <1>1, <1>3, <1>4

\* Credit operations, cleanup and the clock.
LEMMA TypeOther ==
  ASSUME TypeOK,
         \/ \E r \in Reservations : Authenticate(r) \/ ProjectMetered(r)
         \/ \E k \in Keys, p \in Policies : SetPolicy(k, p)
         \/ \E g \in Grants : \/ \E a \in Accounts, m \in GrantAmounts : GrantCredit(a, g, m)
                              \/ ReverseGrant(g)
         \/ PruneBudgets \/ PruneRateWindows \/ Tick
  PROVE  TypeOK'
<1> USE DEF budgetVars, grantVars, cycleVars
<1>1. ASSUME NEW r \in Reservations, Authenticate(r) PROVE TypeOK'
  BY <1>1, KeysAssumption DEF Authenticate, TypeOK
<1>2. ASSUME NEW r \in Reservations, ProjectMetered(r) PROVE TypeOK'
  <2>1. res[r].actual \in Nat /\ AccountOf[KeyOf[r]] \in Accounts
    BY KeysAssumption DEF TypeOK, ReservationType
  <2>2. /\ usage' \in [Accounts -> Nat]
        /\ outbox' \in [Reservations -> {"none", "pending", "projected"}]
    BY <1>2, <2>1 DEF ProjectMetered, TypeOK
  <2> QED BY <1>2, <2>2 DEF ProjectMetered, TypeOK
<1>3. ASSUME NEW k \in Keys, NEW p \in Policies, SetPolicy(k, p) PROVE TypeOK'
  BY <1>3 DEF SetPolicy, TypeOK
<1>4. ASSUME NEW g \in Grants, NEW a \in Accounts, NEW m \in GrantAmounts,
             GrantCredit(a, g, m)
      PROVE  TypeOK'
  <2>1. m \in Nat
    BY AmountAssumption
  <2>2. grant' \in [Grants -> GrantType] /\ DOMAIN snapshot' = Grants
    BY <1>4, <2>1 DEF GrantCredit, TypeOK, GrantType
  <2>3. available' \in [Accounts -> Int] /\ ledger' \in [Accounts -> Int]
    BY <1>4, <2>1 DEF GrantCredit, TypeOK
  <2> QED BY <1>4, <2>2, <2>3 DEF GrantCredit, TypeOK
<1>5. ASSUME NEW g \in Grants, ReverseGrant(g) PROVE TypeOK'
  <2>1. grant[g] \in GrantType
    BY DEF TypeOK
  <2>2. grant' \in [Grants -> GrantType]
    BY <1>5, <2>1 DEF ReverseGrant, TypeOK, GrantType
  <2>3. available' \in [Accounts -> Int] /\ ledger' \in [Accounts -> Int]
    BY <1>5, <2>1 DEF ReverseGrant, TypeOK, GrantType
  <2> QED BY <1>5, <2>2, <2>3 DEF ReverseGrant, TypeOK
<1>6. CASE PruneBudgets
  <2>1. events' \subseteq Reservations /\ rollup' \in [Keys -> [Days -> Nat]]
    BY <1>6 DEF PruneBudgets, TypeOK
  <2> QED BY <1>6, <2>1 DEF PruneBudgets, TypeOK
<1>7. CASE PruneRateWindows
  <2>1. rate' \in [Keys -> [Minutes -> WindowType]]
    BY <1>7 DEF PruneRateWindows, TypeOK, NoWindow, WindowType
  <2> QED BY <1>7, <2>1 DEF PruneRateWindows, TypeOK
<1>8. CASE Tick
  BY <1>8, TimeAssumption DEF Tick, TypeOK, Times
<1> QED BY <1>1, <1>2, <1>3, <1>4, <1>5, <1>6, <1>7, <1>8

\* Every step keeps the tables well-typed.
LEMMA TypeNext == TypeOK /\ [Next]_vars => TypeOK'
<1> SUFFICES ASSUME TypeOK, [Next]_vars PROVE TypeOK'
  OBVIOUS
<1>1. CASE Next
  BY <1>1, TypeReserve, TypeResize, TypeSettle, TypeOther DEF Next
<1>2. CASE UNCHANGED vars
  BY <1>2 DEF vars, TypeOK
<1> QED BY <1>1, <1>2

\* Type correctness: reserve, resize, settle, grant, reverse and cleanup keep
\* every table well-typed; in particular a key's reserved total and a rate
\* window's token count never become negative.
THEOREM TypeCorrect == Spec => []TypeOK
BY TypeInit, TypeNext, PTL DEF Spec

-----------------------------------------------------------------------------
\* The balance.  Its equality with the ledger is inductive with the types alone,
\* so that it holds below zero too, where a rebate may take an account.
Balanced == TypeOK /\ BalanceMatchesLedger

\* Nothing is booked at first.
LEMMA BalancedInit == Init => Balanced
BY TypeInit DEF Init, Balanced, BalanceMatchesLedger

\* A settlement releases the hold, takes the charge out of it and out of the
\* balance, and books the charge in the ledger.
LEMMA BalancedSettle ==
  ASSUME Balanced, NEW r \in Reservations, Settle(r)
  PROVE  BalanceMatchesLedger'
<1>1. PICK calculated \in Charges, t \in TokenCounts :
             \/ SettlePrepaid(r, calculated, t)
             \/ SettleUnlimited(r, calculated, t)
  BY DEF Settle
<1>2. CASE SettleUnlimited(r, calculated, t)
  BY <1>2 DEF SettleUnlimited, Balanced, BalanceMatchesLedger
<1>3. CASE SettlePrepaid(r, calculated, t)
  <2> DEFINE a == AccountOf[KeyOf[r]]
             m == res[r].micros
  <2>1. PICK actual \in 0 .. calculated :
          BookCharge(r, actual, t)
    BY <1>3 DEF SettlePrepaid
  <2>2. /\ a \in Accounts /\ m \in Nat /\ actual \in Nat
        /\ available[a] \in Int /\ held[a] \in Int /\ ledger[a] \in Int
        /\ available[a] + held[a] = ledger[a]
    BY KeysAssumption, AmountAssumption
       DEF Balanced, TypeOK, ReservationType, BalanceMatchesLedger
  <2> DEFINE net == available[a] + Larger(m - actual, 0) - Larger(actual - m, 0)
  <2>4. net = available[a] + m - actual
    BY <2>2 DEF Larger
  <2>5. /\ available' = [available EXCEPT ![a] = net]
        /\ held' = [held EXCEPT ![a] = held[a] - m]
        /\ ledger' = [ledger EXCEPT ![a] = ledger[a] - actual]
    BY <1>3, <2>1, <2>2 DEF BookCharge, SettlePrepaid, ReleaseHold, Balanced, TypeOK
  <2> HIDE DEF net, m, a
  <2>6. net + (held[a] - m) = ledger[a] - actual
    BY <2>2, <2>4
  <2> QED
    BY <2>2, <2>5, <2>6 DEF Balanced, TypeOK, BalanceMatchesLedger
<1> QED BY <1>1, <1>2, <1>3

\* A hold moves credit from available to reserved.
LEMMA BalancedHold ==
  ASSUME Balanced, NEW r \in Reservations, Reserve(r) \/ Resize(r)
  PROVE  BalanceMatchesLedger'
<1> DEFINE a == AccountOf[KeyOf[r]]
<1>1. /\ a \in Accounts /\ available[a] \in Int /\ held[a] \in Int
      /\ res[r].micros \in Nat
  BY KeysAssumption DEF Balanced, TypeOK, ReservationType
<1>2. CASE \E t \in TokenCounts : ReserveUnlimited(r, t) \/ ResizeUnlimited(r, t)
  BY <1>2 DEF ReserveUnlimited, ResizeUnlimited, Balanced, BalanceMatchesLedger
<1>3. ASSUME NEW delta \in Int,
             available' = [available EXCEPT ![a] = available[a] - delta],
             held' = [held EXCEPT ![a] = held[a] + delta],
             ledger' = ledger
      PROVE  BalanceMatchesLedger'
  BY <1>1, <1>3 DEF Balanced, TypeOK, BalanceMatchesLedger
<1>4. CASE \E m \in Holds, t \in TokenCounts, tokensCount \in BOOLEAN :
             ReservePrepaid(r, m, t, tokensCount)
  <2>1. PICK m \in Holds, t \in TokenCounts, tokensCount \in BOOLEAN :
               ReservePrepaid(r, m, t, tokensCount)
    BY <1>4
  <2>2. /\ m \in Int /\ ledger' = ledger
        /\ available' = [available EXCEPT ![a] = available[a] - m]
        /\ held' = [held EXCEPT ![a] = held[a] + m]
    BY <1>1, <2>1, AmountAssumption DEF ReservePrepaid, Balanced, TypeOK
  <2> QED BY <2>2, <1>3
<1>5. CASE \E m \in Holds, t \in TokenCounts : ResizePrepaid(r, m, t)
  <2>1. PICK m \in Holds, t \in TokenCounts : ResizePrepaid(r, m, t)
    BY <1>5
  <2> DEFINE delta == m - res[r].micros
  <2>2. delta \in Int
    BY <1>1, AmountAssumption
  <2>4. /\ ledger' = ledger
        /\ available' = [available EXCEPT ![a] = available[a] - delta]
        /\ held' = [held EXCEPT ![a] = held[a] + delta]
    BY <1>1, <2>1 DEF ResizePrepaid, Balanced, TypeOK
  <2> HIDE DEF delta
  <2> QED BY <2>2, <2>4, <1>3
<1> QED BY <1>2, <1>4, <1>5 DEF Reserve, Resize

\* Every step keeps balances equal to ledgers.
LEMMA BalancedNext == Balanced /\ [Next]_vars => Balanced'
<1> SUFFICES ASSUME Balanced, [Next]_vars PROVE BalanceMatchesLedger'
  BY TypeNext DEF Balanced
<1> USE DEF Balanced, BalanceMatchesLedger
<1>1. ASSUME NEW r \in Reservations, Authenticate(r) \/ ProjectMetered(r)
      PROVE  BalanceMatchesLedger'
  BY <1>1 DEF Authenticate, ProjectMetered
<1>2. ASSUME NEW k \in Keys, NEW p \in Policies, SetPolicy(k, p)
      PROVE  BalanceMatchesLedger'
  BY <1>2 DEF SetPolicy
<1>3. ASSUME NEW g \in Grants, NEW a \in Accounts, NEW m \in GrantAmounts,
             GrantCredit(a, g, m)
      PROVE  BalanceMatchesLedger'
  BY <1>3, AmountAssumption DEF GrantCredit, TypeOK
<1>4. ASSUME NEW g \in Grants, ReverseGrant(g)
      PROVE  BalanceMatchesLedger'
  <2>1. grant[g].account \in Accounts /\ grant[g].amount \in Nat
    BY DEF TypeOK, GrantType
  <2> QED BY <1>4, <2>1 DEF ReverseGrant, TypeOK
<1>5. CASE PruneBudgets \/ PruneRateWindows \/ Tick
  BY <1>5 DEF PruneBudgets, PruneRateWindows, Tick
<1>6. CASE UNCHANGED vars
  BY <1>6 DEF vars
<1> QED
  BY <1>1, <1>2, <1>3, <1>4, <1>5, <1>6, BalancedSettle, BalancedHold DEF Next

\* The balance of every account always equals its ledger.
THEOREM LedgerBalanced == Spec => []BalanceMatchesLedger
<1>1. Balanced => BalanceMatchesLedger
  BY DEF Balanced
<1> QED BY BalancedInit, BalancedNext, <1>1, PTL DEF Spec

\* A step that takes no account below zero, or further below.
Careful == \A a \in Accounts : available'[a] >= 0 \/ available'[a] >= available[a]

\* One account's balance moves by n, and only down to zero.
LEMMA CarefulMove ==
  ASSUME available \in [Accounts -> Int], NEW a \in Accounts, NEW n \in Int, NEW m,
         available' = [available EXCEPT ![a] = m], m = available[a] + n,
         n < 0 => available[a] + n >= 0
  PROVE  Careful
<1>1. available'[a] = m /\ \A b \in Accounts \ {a} : available'[b] = available[b]
  OBVIOUS
<1>2. \A b \in Accounts : available[b] \in Int
  OBVIOUS
<1> QED
  BY <1>1, <1>2 DEF Careful

\* Holds, charges and reversals stay within what is available, although an
\* account may already be below zero.
LEMMA CarefulNext ==
  ASSUME TypeOK, [Next]_vars
  PROVE  Careful
<1> USE DEF Account
<1>1. available \in [Accounts -> Int]
  BY DEF TypeOK
<1>2. ASSUME available' = available PROVE Careful
  BY <1>1, <1>2 DEF Careful
<1>3. ASSUME NEW r \in Reservations, Reserve(r) \/ Resize(r) PROVE Careful
  <2> DEFINE a == AccountOf[KeyOf[r]]
  <2>1. a \in Accounts /\ available[a] \in Int /\ res[r].micros \in Nat
    BY KeysAssumption DEF TypeOK, ReservationType
  <2>2. CASE \E t \in TokenCounts : ReserveUnlimited(r, t) \/ ResizeUnlimited(r, t)
    BY <1>2, <2>2 DEF ReserveUnlimited, ResizeUnlimited
  <2>3. ASSUME NEW m \in Holds, NEW t \in TokenCounts, NEW tokensCount \in BOOLEAN,
               ReservePrepaid(r, m, t, tokensCount)
        PROVE  Careful
    <3>1. /\ m \in Nat /\ available[a] >= m
          /\ available' = [available EXCEPT ![a] = @ - m]
      BY <2>3, AmountAssumption DEF ReservePrepaid
    <3> HIDE DEF a
    <3> DEFINE n == -m
               next == available[a] - m
    <3>2. n \in Int /\ next = available[a] + n /\ available[a] + n >= 0
      BY <2>1, <3>1
    <3>3. available' = [available EXCEPT ![a] = next]
      BY <3>1
    <3> HIDE DEF n, next
    <3> QED
      BY <1>1, <2>1, <3>2, <3>3, CarefulMove
  <2>4. ASSUME NEW m \in Holds, NEW t \in TokenCounts, ResizePrepaid(r, m, t)
        PROVE  Careful
    <3> DEFINE delta == m - res[r].micros
    <3>1. /\ delta \in Int /\ available[a] >= Larger(delta, 0)
          /\ available' = [available EXCEPT ![a] = @ - delta]
      BY <2>1, <2>4, AmountAssumption DEF ResizePrepaid
    <3> HIDE DEF delta
    <3> HIDE DEF a
    <3> DEFINE n == -delta
               next == available[a] - delta
    <3>2. n \in Int /\ next = available[a] + n /\ available[a] + n >= 0
      BY <2>1, <3>1 DEF Larger
    <3>3. available' = [available EXCEPT ![a] = next]
      BY <3>1
    <3> HIDE DEF n, next
    <3> QED
      BY <1>1, <2>1, <3>2, <3>3, CarefulMove
  <2> QED
    BY <1>3, <2>2, <2>3, <2>4, Zenon DEF Reserve, Resize
<1>4. ASSUME NEW r \in Reservations, Settle(r) PROVE Careful
  <2>1. PICK calculated \in Charges, t \in TokenCounts :
             \/ SettlePrepaid(r, calculated, t)
             \/ SettleUnlimited(r, calculated, t)
    BY <1>4 DEF Settle
  <2>2. CASE SettleUnlimited(r, calculated, t)
    BY <1>2, <2>2 DEF SettleUnlimited
  <2>3. CASE SettlePrepaid(r, calculated, t)
    <3> DEFINE a == AccountOf[KeyOf[r]]
               m == res[r].micros
    <3>1. PICK actual \in 0 .. calculated :
            IsCharge(r, calculated, actual) /\ BookCharge(r, actual, t)
      BY <2>3 DEF SettlePrepaid
    <3>2. a \in Accounts /\ m \in Nat /\ actual \in Nat /\ available[a] \in Int
      BY KeysAssumption, AmountAssumption DEF TypeOK, ReservationType
    <3>3. actual <= Larger(available[a], 0) + m
      BY <3>1 DEF IsCharge, Chargeable
    <3>4. available' = [available EXCEPT ![a] = @ + Larger(m - actual, 0) - Larger(actual - m, 0)]
      BY <3>1 DEF BookCharge
    <3> HIDE DEF a, m
    <3> DEFINE n == m - actual
               next == available[a] + Larger(m - actual, 0) - Larger(actual - m, 0)
    <3>5. n \in Int /\ next = available[a] + n /\ (n < 0 => available[a] + n >= 0)
      BY <3>2, <3>3 DEF Larger
    <3>6. available' = [available EXCEPT ![a] = next]
      BY <3>4
    <3> HIDE DEF n, next
    <3> QED
      BY <1>1, <3>2, <3>5, <3>6, CarefulMove
  <2> QED
    BY <2>1, <2>2, <2>3
<1>5. ASSUME NEW a \in Accounts, NEW g \in Grants, NEW m \in GrantAmounts, GrantCredit(a, g, m)
      PROVE  Careful
  <2> DEFINE next == available[a] + m
  <2>1. m \in Nat /\ available' = [available EXCEPT ![a] = next]
    BY <1>5, AmountAssumption DEF GrantCredit
  <2>2. next = available[a] + m /\ m \in Int /\ ~(m < 0)
    BY <2>1
  <2> HIDE DEF next
  <2> QED
    BY <1>1, <2>1, <2>2, CarefulMove
<1>6. ASSUME NEW g \in Grants, ReverseGrant(g) PROVE Careful
  <2> DEFINE a == grant[g].account
             m == grant[g].amount
  <2>1. a \in Accounts /\ m \in Nat
    BY DEF TypeOK, GrantType
  <2>2. available[a] >= m /\ available' = [available EXCEPT ![a] = @ - m]
    BY <1>6 DEF ReverseGrant
  <2> HIDE DEF a, m
  <2> DEFINE n == -m
             next == available[a] - m
  <2>3. n \in Int /\ next = available[a] + n /\ available[a] + n >= 0
    BY <1>1, <2>1, <2>2
  <2>4. available' = [available EXCEPT ![a] = next]
    BY <2>2
  <2> HIDE DEF n, next
  <2> QED
    BY <1>1, <2>1, <2>3, <2>4, CarefulMove
<1>7. ASSUME NEW r \in Reservations, Authenticate(r) \/ ProjectMetered(r) PROVE Careful
  BY <1>2, <1>7 DEF Authenticate, ProjectMetered
<1>8. ASSUME NEW k \in Keys, NEW p \in Policies, SetPolicy(k, p) PROVE Careful
  BY <1>2, <1>8 DEF SetPolicy
<1>9. CASE PruneBudgets \/ PruneRateWindows \/ Tick
  BY <1>2, <1>9 DEF PruneBudgets, PruneRateWindows, Tick
<1>10. CASE UNCHANGED vars
  BY <1>2, <1>10 DEF vars
<1> QED
  BY <1>3, <1>4, <1>5, <1>6, <1>7, <1>8, <1>9, <1>10, Zenon DEF Next

\* No account is ever overdrawn by reserve, resize, settle or reversal.
THEOREM AccountsSolvent == Spec => []NeverOverdrawn
<1> DEFINE Solvent == TypeOK /\ NeverOverdrawn
<1>1. Init => Solvent
  BY TypeInit DEF Init, NeverOverdrawn
<1>2. Solvent /\ [Next]_vars => Solvent'
  <2> SUFFICES ASSUME Solvent, [Next]_vars PROVE Solvent'
    OBVIOUS
  <2>1. TypeOK' /\ Careful
    BY TypeNext, CarefulNext
  <2>2. \A a \in Accounts : available[a] \in Int /\ available'[a] \in Int
    BY <2>1 DEF TypeOK
  <2> QED
    BY <2>1, <2>2 DEF NeverOverdrawn, Careful
<1> QED BY <1>1, <1>2, PTL DEF Spec

-----------------------------------------------------------------------------
\* Lifetime budgets.  A resize checks the copy of the policy its request was
\* admitted with, so the argument needs that every row has such a copy.
RowsAdmitted == \A r \in Reservations : res[r].status # "none" => admission[r] # NoPolicy
Admitted == TypeOK /\ RowsAdmitted

\* There are no rows at first.
LEMMA AdmittedInit == Init => Admitted
BY TypeInit DEF Init, Admitted, RowsAdmitted, NoRow

\* Rows appear only for authenticated requests.
LEMMA AdmittedNext == Admitted /\ [Next]_vars => Admitted'
<1> SUFFICES ASSUME Admitted, [Next]_vars PROVE RowsAdmitted'
  BY TypeNext DEF Admitted
<1> USE DEF Admitted, RowsAdmitted
<1>1. ASSUME NEW r \in Reservations, Authenticate(r) PROVE RowsAdmitted'
  BY <1>1, KeysAssumption, PolicyAssumption DEF Authenticate, TypeOK
<1>2. ASSUME NEW r \in Reservations, Reserve(r) PROVE RowsAdmitted'
  BY <1>2 DEF Reserve, ReserveUnlimited, ReservePrepaid, TypeOK
<1>3. ASSUME NEW r \in Reservations, Resize(r) PROVE RowsAdmitted'
  BY <1>3 DEF Resize, ResizeUnlimited, ResizePrepaid, TypeOK, ReservationType
<1>4. ASSUME NEW r \in Reservations, Settle(r) PROVE RowsAdmitted'
  BY <1>4 DEF Settle, SettleUnlimited, SettlePrepaid, BookCharge, TypeOK
<1>5. ASSUME NEW r \in Reservations, ProjectMetered(r) PROVE RowsAdmitted'
  BY <1>5 DEF ProjectMetered
<1>6. CASE \/ \E k \in Keys, p \in Policies : SetPolicy(k, p)
           \/ \E g \in Grants : \/ \E a \in Accounts, m \in GrantAmounts : GrantCredit(a, g, m)
                                \/ ReverseGrant(g)
           \/ PruneBudgets \/ PruneRateWindows \/ Tick
  BY <1>6 DEF SetPolicy, GrantCredit, ReverseGrant, PruneBudgets, PruneRateWindows, Tick
<1>7. CASE UNCHANGED vars
  BY <1>7 DEF vars
<1> QED BY <1>1, <1>2, <1>3, <1>4, <1>5, <1>6, <1>7 DEF Next

\* What a reserve or a resize does to a key's settled plus reserved total.
LEMMA LifetimeHold ==
  ASSUME Admitted, NEW r \in Reservations, Reserve(r) \/ Resize(r), NEW k \in Keys
  PROVE  LifetimeStep(k)
<1>1. policy[k] \in InForce(k)
  BY DEF InForce
<1>2. ASSUME keySettled'[k] + keyReserved'[k] <= keySettled[k] + keyReserved[k]
      PROVE  LifetimeStep(k)
  BY <1>1, <1>2 DEF LifetimeStep, NoOverrun
<1>3. /\ keySettled[k] \in Nat /\ keyReserved[k] \in Nat
      /\ KeyOf[r] \in Keys /\ res[r].micros \in Nat
  BY KeysAssumption DEF Admitted, TypeOK, ReservationType
<1>4. CASE \E t \in TokenCounts : ReserveUnlimited(r, t) \/ ResizeUnlimited(r, t)
  BY <1>2, <1>3, <1>4 DEF ReserveUnlimited, ResizeUnlimited, budgetVars
<1>5. CASE k # KeyOf[r] /\ ~(\E t \in TokenCounts :
                                ReserveUnlimited(r, t) \/ ResizeUnlimited(r, t))
  <2>1. keyReserved'[k] = keyReserved[k] /\ keySettled' = keySettled
    BY <1>5 DEF Reserve, Resize, ReservePrepaid, ResizePrepaid, Admitted, TypeOK
  <2> QED BY <1>2, <1>3, <2>1
<1>6. ASSUME admission[r] # NoPolicy, k = KeyOf[r], keySettled' = keySettled,
             NEW others \in Int, NEW m \in Nat,
             keyReserved'[k] = others + m,
             FitsBudgets(k, admission[r], others, m)
      PROVE  LifetimeStep(k)
  <2>1. admission[r] \in InForce(k)
    BY <1>6 DEF InForce
  <2>2. Within(keySettled'[k] + keyReserved'[k], admission[r].lifetime)
    <3>1. SUFFICES ASSUME admission[r].lifetime # NoLimit
                   PROVE  keySettled[k] + (others + m) <= admission[r].lifetime
      BY <1>6 DEF Within
    <3>2. keySettled[k] + others + m <= admission[r].lifetime
      BY <1>6, <3>1 DEF FitsBudgets
    <3>3. keySettled[k] + (others + m) = keySettled[k] + others + m
      BY <1>3, <1>6
    <3> QED BY <3>2, <3>3
  <2> QED BY <2>1, <2>2 DEF LifetimeStep, NoOverrun
<1>7. CASE k = KeyOf[r] /\ \E m \in Holds, t \in TokenCounts, tokensCount \in BOOLEAN :
                             ReservePrepaid(r, m, t, tokensCount)
  <2>1. PICK m \in Holds, t \in TokenCounts, tokensCount \in BOOLEAN :
               ReservePrepaid(r, m, t, tokensCount)
    BY <1>7
  <2>2. /\ m \in Nat /\ admission[r] # NoPolicy /\ keySettled' = keySettled
        /\ keyReserved'[k] = keyReserved[k] + m
        /\ FitsBudgets(k, admission[r], keyReserved[k], m)
    BY <1>3, <1>7, <2>1, AmountAssumption DEF ReservePrepaid, Admitted, TypeOK
  <2> QED BY <1>3, <1>6, <1>7, <2>2
<1>8. CASE k = KeyOf[r] /\ \E m \in Holds, t \in TokenCounts : ResizePrepaid(r, m, t)
  <2>1. PICK m \in Holds, t \in TokenCounts : ResizePrepaid(r, m, t)
    BY <1>8
  <2> DEFINE others == keyReserved[k] - res[r].micros
  <2>2. /\ m \in Nat /\ keySettled' = keySettled /\ others \in Int
        /\ keyReserved'[k] = others + m
        /\ FitsBudgets(k, admission[r], others, m)
    BY <1>3, <1>8, <2>1, AmountAssumption DEF ResizePrepaid, Admitted, TypeOK
  <2>3. admission[r] # NoPolicy
    BY <2>1 DEF ResizePrepaid, Admitted, RowsAdmitted
  <2> HIDE DEF others
  <2> QED BY <1>6, <1>8, <2>2, <2>3
<1> QED BY <1>4, <1>5, <1>7, <1>8 DEF Reserve, Resize

\* A settlement moves the hold out and the charge in; the charge is zero or
\* fits beside the key's other holds.
LEMMA LifetimeSettle ==
  ASSUME Admitted, NEW r \in Reservations, Settle(r), NEW k \in Keys
  PROVE  LifetimeStep(k)
<1>1. policy[k] \in InForce(k)
  BY DEF InForce
<1>2. PICK calculated \in Charges, t \in TokenCounts :
             \/ SettlePrepaid(r, calculated, t)
             \/ SettleUnlimited(r, calculated, t)
  BY DEF Settle
<1>3. /\ keySettled[k] \in Nat /\ keyReserved[k] \in Nat
      /\ KeyOf[r] \in Keys /\ res[r].micros \in Nat /\ calculated \in Nat
  BY KeysAssumption, AmountAssumption DEF Admitted, TypeOK, ReservationType
<1>4. ASSUME keySettled'[k] + keyReserved'[k] <= keySettled[k] + keyReserved[k]
      PROVE  LifetimeStep(k)
  BY <1>1, <1>4 DEF LifetimeStep, NoOverrun
<1>5. CASE SettleUnlimited(r, calculated, t)
  BY <1>3, <1>4, <1>5 DEF SettleUnlimited, budgetVars
<1>6. CASE SettlePrepaid(r, calculated, t)
  <2>1. PICK actual \in 0 .. calculated :
          IsCharge(r, calculated, actual) /\ BookCharge(r, actual, t)
    BY <1>6 DEF SettlePrepaid
  <2>2. actual \in Nat /\ ReleaseHold(r, t)
    BY <1>3, <1>6 DEF SettlePrepaid
  <2>3. CASE k # KeyOf[r]
    <3>1. keySettled'[k] = keySettled[k] /\ keyReserved'[k] = keyReserved[k]
      BY <2>1, <2>2, <2>3 DEF BookCharge, ReleaseHold, Admitted, TypeOK
    <3> QED BY <1>3, <1>4, <3>1
  <2>4. CASE k = KeyOf[r]
    <3> DEFINE m == res[r].micros
    <3>1. /\ keySettled'[k] = keySettled[k] + actual
          /\ keyReserved'[k] = keyReserved[k] - m
          /\ keyReserved[k] >= m
      BY <1>3, <2>1, <2>2, <2>4 DEF BookCharge, ReleaseHold, Admitted, TypeOK
    <3>2. CASE actual = 0
      <4>1. keySettled'[k] + keyReserved'[k] <= keySettled[k] + keyReserved[k]
        BY <1>3, <3>1, <3>2
      <4> QED BY <4>1, <1>4
    <3>3. CASE actual # 0
      <4>1. FitsBudgets(k, policy[k], Larger(keyReserved[k] - m, 0), actual)
        BY <2>1, <2>4, <3>3 DEF IsCharge, Chargeable
      <4>2. Larger(keyReserved[k] - m, 0) = keyReserved[k] - m
        BY <1>3, <3>1 DEF Larger
      <4>3. ASSUME policy[k].lifetime # NoLimit
            PROVE  keySettled[k] + (keyReserved[k] - m) + actual <= policy[k].lifetime
        BY <4>1, <4>2, <4>3 DEF FitsBudgets
      <4>4. keySettled'[k] + keyReserved'[k] = keySettled[k] + (keyReserved[k] - m) + actual
        BY <1>3, <2>2, <3>1
      <4> QED BY <1>1, <4>3, <4>4 DEF LifetimeStep, NoOverrun, Within
    <3> QED BY <3>2, <3>3
  <2> QED BY <2>3, <2>4
<1> QED BY <1>2, <1>5, <1>6

\* No step takes a key past its lifetime budget.
LEMMA LifetimeSteps == Admitted /\ [Next]_vars => \A k \in Keys : LifetimeStep(k)
<1> SUFFICES ASSUME Admitted, [Next]_vars, NEW k \in Keys PROVE LifetimeStep(k)
  OBVIOUS
<1>1. policy[k] \in InForce(k) /\ keySettled[k] \in Nat /\ keyReserved[k] \in Nat
  BY DEF InForce, Admitted, TypeOK
<1>2. CASE keySettled' = keySettled /\ keyReserved' = keyReserved
  BY <1>1, <1>2 DEF LifetimeStep, NoOverrun
<1>3. CASE \E r \in Reservations : Reserve(r) \/ Resize(r) \/ Settle(r)
  BY <1>3, LifetimeHold, LifetimeSettle
<1>4. \/ \E r \in Reservations : Reserve(r) \/ Resize(r) \/ Settle(r)
      \/ keySettled' = keySettled /\ keyReserved' = keyReserved
  BY DEF Next, Authenticate, ProjectMetered, SetPolicy, GrantCredit, ReverseGrant,
         PruneBudgets, PruneRateWindows, Tick, budgetVars, vars
<1> QED BY <1>2, <1>3, <1>4

\* Whatever the interleaving of admissions, candidate switches, settlements
\* and policy edits, no step takes a key past its lifetime budget.
THEOREM LifetimeBudgetsHold == Spec => LifetimeBudgetRespected
BY AdmittedInit, AdmittedNext, LifetimeSteps, PTL DEF Spec, LifetimeBudgetRespected

-----------------------------------------------------------------------------
\* The counters.  What a row adds to a counter is a sum over rows, and a step
\* changes one row; the lemmas say what one changed row does to each sum.

KeyRows(k)     == {r \in Reservations : KeyOf[r] = k}
AccountRows(a) == {r \in Reservations : Account(r) = a}
WindowRows(k, w) == {r \in Reservations : /\ KeyOf[r] = k /\ res[r].status # "none"
                                          /\ res[r].tpmApplied /\ res[r].window = w}
Tokens == [r \in Reservations |-> TokensOf(r)]

\* Every set of reservations is finite.
LEMMA RowsAreFinite == \A S \in SUBSET Reservations : IsFiniteSet(S)
BY FS_Subset, FiniteAssumption

\* One row changes what it holds, and the counters of its key and account follow.
LEMMA HoldStep ==
  ASSUME TypeOK, TypeOK', HoldsMatchReservations, NEW r \in Reservations,
         \A q \in Reservations \ {r} : res'[q] = res[q],
         NEW d \in Int, PrepaidHold'[r] = PrepaidHold[r] + d,
         \A k \in Keys : keyReserved'[k] = IF k = KeyOf[r] THEN keyReserved[k] + d
                                                           ELSE keyReserved[k],
         \A a \in Accounts : held'[a] = IF a = Account(r) THEN held[a] + d ELSE held[a]
  PROVE  HoldsMatchReservations'
<1> DEFINE f == PrepaidHold
           g == PrepaidHold'
<1>1. \A q \in Reservations : f[q] \in Int /\ g[q] \in Int
  BY DEF PrepaidHold, TypeOK, ReservationType
<1>2. \A q \in Reservations \ {r} : f[q] = g[q]
  BY DEF PrepaidHold
<1>3. g[r] = f[r] + d
  OBVIOUS
<1> HIDE DEF f, g
<1>4. ASSUME NEW S \in SUBSET Reservations, NEW n, n = SumFunctionOnSet(f, S)
      PROVE  SumFunctionOnSet(g, S) = IF r \in S THEN n + d ELSE n
  <2>1. IsFiniteSet(S)
    BY RowsAreFinite
  <2>2. /\ SumFunctionOnSet(f, S) \in Int
        /\ SumFunctionOnSet(g, S) = SumFunctionOnSet(f, S)
              + (IF r \in S THEN g[r] ELSE 0) - (IF r \in S THEN f[r] ELSE 0)
    BY <1>1, <1>2, <2>1, SumOneRow
  <2> DEFINE m == SumFunctionOnSet(g, S)
             u == g[r]
             v == f[r]
  <2>3. n \in Int /\ m = n + (IF r \in S THEN u ELSE 0) - (IF r \in S THEN v ELSE 0)
    BY <1>4, <2>2
  <2>4. u \in Int /\ v \in Int /\ u = v + d
    BY <1>1, <1>3
  <2> HIDE DEF m, u, v
  <2>5. m = IF r \in S THEN n + d ELSE n
    BY <2>3, <2>4
  <2> QED
    BY <2>5 DEF m
<1>5. ASSUME NEW k \in Keys PROVE keyReserved'[k] = SumFunctionOnSet(g, KeyRows(k))
  <2>1. keyReserved[k] = SumFunctionOnSet(f, KeyRows(k)) /\ KeyRows(k) \in SUBSET Reservations
    BY DEF HoldsMatchReservations, KeyRows, f
  <2>2. r \in KeyRows(k) <=> k = KeyOf[r]
    BY DEF KeyRows
  <2> QED
    BY <1>4, <2>1, <2>2
<1>6. ASSUME NEW a \in Accounts PROVE held'[a] = SumFunctionOnSet(g, AccountRows(a))
  <2>1. held[a] = SumFunctionOnSet(f, AccountRows(a)) /\ AccountRows(a) \in SUBSET Reservations
    BY DEF HoldsMatchReservations, AccountRows, f
  <2>2. r \in AccountRows(a) <=> a = Account(r)
    BY DEF AccountRows
  <2> QED
    BY <1>4, <2>1, <2>2
<1> QED
  BY <1>5, <1>6 DEF HoldsMatchReservations, KeyRows, AccountRows, g

\* RateWindowsExact in these terms.
LEMMA WindowsAreSums ==
  RateWindowsExact <=>
    \A k \in Keys, w \in Minutes : rate[k][w].live =>
      rate[k][w].tokens = SumFunctionOnSet(Tokens, WindowRows(k, w))
BY DEF RateWindowsExact, Tokens, WindowRows

\* What a row counts in its window.
InWindow(r, k, w) == IF r \in WindowRows(k, w) THEN TokensOf(r) ELSE 0

\* One row changes what it counts in a window, and the window follows.
LEMMA WindowStep ==
  ASSUME TypeOK, TypeOK', NEW r \in Reservations,
         \A q \in Reservations \ {r} : res'[q] = res[q],
         NEW k \in Keys, NEW w \in Minutes
  PROVE  /\ SumFunctionOnSet(Tokens, WindowRows(k, w)) \in Int
         /\ InWindow(r, k, w) \in Nat /\ InWindow(r, k, w)' \in Nat
         /\ SumFunctionOnSet(Tokens, WindowRows(k, w))'
              = SumFunctionOnSet(Tokens, WindowRows(k, w))
                + InWindow(r, k, w)' - InWindow(r, k, w)
         /\ InWindow(r, k, w) <= SumFunctionOnSet(Tokens, WindowRows(k, w))
<1> DEFINE f == Tokens
           g == Tokens'
           S == WindowRows(k, w)
           T == WindowRows(k, w)'
<1>1. \A q \in Reservations : f[q] \in Nat /\ g[q] \in Nat
  BY DEF Tokens, TokensOf, TypeOK, ReservationType
<1>2. \A q \in Reservations \ {r} : f[q] = g[q]
  BY DEF Tokens, TokensOf
<1>3. S \in SUBSET Reservations /\ T \in SUBSET Reservations /\ S \ {r} = T \ {r}
  BY DEF WindowRows
<1>4. /\ InWindow(r, k, w) = IF r \in S THEN f[r] ELSE 0
      /\ InWindow(r, k, w)' = IF r \in T THEN g[r] ELSE 0
  BY DEF InWindow, Tokens
<1> HIDE DEF f, g, S, T
<1>5. IsFiniteSet(S) /\ IsFiniteSet(T)
  BY <1>3, RowsAreFinite
<1>6. /\ SumFunctionOnSet(f, S) \in Int /\ SumFunctionOnSet(g, T) \in Int
      /\ SumFunctionOnSet(g, T) = SumFunctionOnSet(f, S)
              + (IF r \in T THEN g[r] ELSE 0) - (IF r \in S THEN f[r] ELSE 0)
  <2>1. /\ \A q \in S : f[q] \in Int
        /\ \A q \in T : g[q] \in Int
        /\ \A q \in S \ {r} : f[q] = g[q]
    BY <1>1, <1>2, <1>3
  <2> QED
    BY <1>3, <1>5, <2>1, SumOneRow
<1>7. SumFunctionOnSet(f, S) \in Nat /\ \A q \in S : f[q] <= SumFunctionOnSet(f, S)
  BY <1>1, <1>3, <1>5, SumOfNats
<1>8. /\ InWindow(r, k, w) \in Nat /\ InWindow(r, k, w)' \in Nat
      /\ InWindow(r, k, w) <= SumFunctionOnSet(f, S)
  BY <1>1, <1>4, <1>7
<1>9. SumFunctionOnSet(g, T) = SumFunctionOnSet(f, S) + InWindow(r, k, w)' - InWindow(r, k, w)
  BY <1>4, <1>6
<1> QED
  BY <1>6, <1>8, <1>9 DEF f, g, S, T

-----------------------------------------------------------------------------
\* What the counters need of the rows: an unlimited reservation counts in no
\* window, and a window that is not there counts nothing and, unless it is over,
\* has no row that would count in it.
RowsAreOrderly ==
  \A r \in Reservations :
    /\ ~res[r].prepaid => ~res[r].tpmApplied
    /\ res[r].status = "none" => res[r] = NoRow
WindowsAreOrderly ==
  \A k \in Keys, w \in Minutes : ~rate[k][w].live =>
    /\ rate[k][w].tokens = 0
    /\ w >= Minute(now) => WindowRows(k, w) = {}
Counted == TypeOK /\ RowsAreOrderly /\ WindowsAreOrderly
           /\ HoldsMatchReservations /\ RateWindowsExact

\* Nothing is held or counted at first.
LEMMA CountedInit == Init => Counted
<1> SUFFICES ASSUME Init PROVE Counted
  OBVIOUS
<1>1. TypeOK
  BY TypeInit
<1>2. RowsAreOrderly
  BY DEF Init, RowsAreOrderly, NoRow
<1>3. WindowsAreOrderly
  BY DEF Init, WindowsAreOrderly, WindowRows, NoRow, NoWindow
<1>4. HoldsMatchReservations
  <2>1. \A r \in Reservations : PrepaidHold[r] = 0
    BY DEF Init, PrepaidHold, NoRow
  <2>2. \A S \in SUBSET Reservations : SumFunctionOnSet(PrepaidHold, S) = 0
    BY <2>1, RowsAreFinite, SumOfZeros
  <2>3. ASSUME NEW k \in Keys
        PROVE  keyReserved[k] = SumFunctionOnSet(PrepaidHold, {r \in Reservations : KeyOf[r] = k})
    <3>1. {r \in Reservations : KeyOf[r] = k} \in SUBSET Reservations
      OBVIOUS
    <3> QED
      BY <2>2, <3>1 DEF Init
  <2>4. ASSUME NEW a \in Accounts
        PROVE  held[a] = SumFunctionOnSet(PrepaidHold, {r \in Reservations : Account(r) = a})
    <3>1. {r \in Reservations : Account(r) = a} \in SUBSET Reservations
      OBVIOUS
    <3> QED
      BY <2>2, <3>1 DEF Init
  <2> QED
    BY <2>3, <2>4 DEF HoldsMatchReservations
<1>5. RateWindowsExact
  BY DEF Init, RateWindowsExact, NoWindow
<1> QED
  BY <1>1, <1>2, <1>3, <1>4, <1>5 DEF Counted

\* The windows stay exact when each counts what the changed row counts in it.
LEMMA WindowsFollow ==
  ASSUME Counted, TypeOK', now' = now, NEW r \in Reservations,
         \A q \in Reservations \ {r} : res'[q] = res[q],
         \A k \in Keys, w \in Minutes : rate'[k][w].live =>
           /\ rate[k][w].live \/ w >= Minute(now)
           /\ rate'[k][w].tokens = rate[k][w].tokens + InWindow(r, k, w)' - InWindow(r, k, w),
         \A k \in Keys, w \in Minutes : ~rate'[k][w].live =>
           /\ ~rate[k][w].live /\ rate'[k][w].tokens = rate[k][w].tokens
           /\ r \in WindowRows(k, w)' => r \in WindowRows(k, w)
  PROVE  RateWindowsExact' /\ WindowsAreOrderly'
<1>0. TypeOK /\ WindowsAreOrderly /\ RateWindowsExact
  BY DEF Counted
<1>1. ASSUME NEW k \in Keys, NEW w \in Minutes, rate'[k][w].live
      PROVE  rate'[k][w].tokens = SumFunctionOnSet(Tokens, WindowRows(k, w))'
  <2> DEFINE s == SumFunctionOnSet(Tokens, WindowRows(k, w))
  <2>1. rate[k][w].tokens = s
    <3>1. CASE rate[k][w].live
      BY <1>0, <3>1, WindowsAreSums
    <3>2. CASE ~rate[k][w].live
      <4>1. rate[k][w].tokens = 0 /\ WindowRows(k, w) = {}
        BY <1>0, <1>1, <3>2 DEF WindowsAreOrderly
      <4>2. SumFunctionOnSet(Tokens, {}) = 0
        BY SumStep, FS_EmptySet
      <4> QED
        BY <4>1, <4>2
    <3> QED
      BY <3>1, <3>2
  <2>2. s' = s + InWindow(r, k, w)' - InWindow(r, k, w)
    BY <1>0, WindowStep
  <2> QED
    BY <1>1, <2>1, <2>2
<1>2. RateWindowsExact'
  <2>1. \A k \in Keys, w \in Minutes : rate'[k][w].live =>
          rate'[k][w].tokens = SumFunctionOnSet(Tokens, WindowRows(k, w))'
    BY <1>1
  <2> QED
    BY <2>1 DEF RateWindowsExact, Tokens, WindowRows
<1>3. ASSUME NEW k \in Keys, NEW w \in Minutes, ~rate'[k][w].live
      PROVE  /\ rate'[k][w].tokens = 0
             /\ w >= Minute(now') => WindowRows(k, w)' = {}
  <2>1. /\ rate[k][w].tokens = 0
        /\ w >= Minute(now) => WindowRows(k, w) = {}
    BY <1>0, <1>3 DEF WindowsAreOrderly
  <2>2. \A q \in Reservations \ {r} : q \in WindowRows(k, w)' => q \in WindowRows(k, w)
    BY DEF WindowRows
  <2>3. WindowRows(k, w)' \subseteq WindowRows(k, w)
    BY <1>3, <2>2 DEF WindowRows
  <2> QED
    BY <1>3, <2>1, <2>3
<1>4. WindowsAreOrderly'
  BY <1>3 DEF WindowsAreOrderly, Minute
<1> QED
  BY <1>2, <1>4

\* An admission adds its hold and its tokens everywhere.
LEMMA CountedReserve ==
  ASSUME Counted, TypeOK', NEW r \in Reservations, Reserve(r)
  PROVE  Counted'
<1>0. TypeOK /\ RowsAreOrderly /\ HoldsMatchReservations
  BY DEF Counted
<1> DEFINE k0 == KeyOf[r]
           w0 == Minute(now)
<1>1. k0 \in Keys /\ w0 \in Minutes /\ AccountOf[k0] \in Accounts
  BY <1>0, ClockRows, KeysAssumption DEF TypeOK
<1>2. CASE \E t \in TokenCounts : ReserveUnlimited(r, t)
  <2>1. PICK t \in TokenCounts : ReserveUnlimited(r, t)
    BY <1>2
  <2>2. /\ \A q \in Reservations \ {r} : res'[q] = res[q]
        /\ res[r].status = "none" /\ res'[r].status = "reserved"
        /\ res'[r].prepaid = FALSE /\ res'[r].tpmApplied = FALSE
        /\ now' = now /\ rate' = rate /\ held' = held /\ keyReserved' = keyReserved
    BY <1>0, <2>1 DEF ReserveUnlimited, TypeOK, NoRow, budgetVars
  <2>3. RowsAreOrderly'
    BY <1>0, <2>2 DEF RowsAreOrderly
  <2>4. HoldsMatchReservations'
    <3>1. PrepaidHold[r] = 0 /\ PrepaidHold'[r] = 0
      BY <2>2 DEF PrepaidHold
    <3>2. /\ \A k \in Keys : keyReserved[k] \in Int
          /\ \A a \in Accounts : held[a] \in Int
      BY <1>0 DEF TypeOK
    <3> QED
      BY <1>0, <2>2, <3>1, <3>2, HoldStep
  <2>5. RateWindowsExact' /\ WindowsAreOrderly'
    <3>1. \A k \in Keys, w \in Minutes :
            r \notin WindowRows(k, w) /\ r \notin WindowRows(k, w)'
      BY <2>2 DEF WindowRows
    <3>2. \A k \in Keys, w \in Minutes : InWindow(r, k, w) = 0 /\ InWindow(r, k, w)' = 0
      BY <3>1 DEF InWindow
    <3>3. \A k \in Keys, w \in Minutes : rate[k][w].tokens \in Int
      BY <1>0 DEF TypeOK, WindowType
    <3> QED
      BY <2>2, <3>1, <3>2, <3>3, WindowsFollow
  <2> QED
    BY <2>3, <2>4, <2>5 DEF Counted
<1>3. CASE \E m \in Holds, t \in TokenCounts, tokensCount \in BOOLEAN :
             ReservePrepaid(r, m, t, tokensCount)
  <2>1. PICK m \in Holds, t \in TokenCounts, tokensCount \in BOOLEAN :
               ReservePrepaid(r, m, t, tokensCount)
    BY <1>3
  <2> DEFINE p == admission[r]
             tpm == IF tokensCount THEN p.tpm ELSE NoLimit
             limits == p.rpm # NoLimit \/ tpm # NoLimit
             tokens == IF tpm = NoLimit THEN 0 ELSE t
  <2>2. /\ \A q \in Reservations \ {r} : res'[q] = res[q]
        /\ res[r].status = "none" /\ now' = now
    BY <1>0, <2>1 DEF ReservePrepaid, TypeOK
  <2>3. /\ res'[r].status = "reserved" /\ res'[r].prepaid = TRUE /\ res'[r].micros = m
        /\ res'[r].tokens = t /\ res'[r].window = w0
        /\ res'[r].tpmApplied = (tpm # NoLimit)
    BY <1>0, <2>1 DEF ReservePrepaid, TypeOK, NoRow
  <2>4. m \in Nat /\ t \in Nat /\ tokens \in Nat
    BY AmountAssumption
  <2>5. /\ \A k \in Keys : keyReserved'[k] = IF k = KeyOf[r] THEN keyReserved[k] + m
                                                             ELSE keyReserved[k]
        /\ \A a \in Accounts : held'[a] = IF a = Account(r) THEN held[a] + m ELSE held[a]
    BY <1>0, <2>1 DEF ReservePrepaid, TypeOK
  <2>6. /\ limits => /\ rate'[k0][w0].live
                     /\ rate'[k0][w0].tokens = rate[k0][w0].tokens + tokens
        /\ ~limits => rate' = rate
        /\ \A k \in Keys, w \in Minutes : k # k0 \/ w # w0 => rate'[k][w] = rate[k][w]
    BY <1>0, <1>1, <2>1 DEF ReservePrepaid, TypeOK
  <2>7. RowsAreOrderly'
    BY <1>0, <2>2, <2>3 DEF RowsAreOrderly
  <2>8. HoldsMatchReservations'
    <3>1. PrepaidHold[r] = 0 /\ PrepaidHold'[r] = m
      BY <2>2, <2>3 DEF PrepaidHold
    <3> QED
      BY <1>0, <2>2, <2>4, <2>5, <3>1, HoldStep
  <2>9. RateWindowsExact' /\ WindowsAreOrderly'
    <3>1. \A k \in Keys, w \in Minutes :
            /\ r \notin WindowRows(k, w)
            /\ r \in WindowRows(k, w)' <=> k = k0 /\ w = w0 /\ tpm # NoLimit
      BY <2>2, <2>3 DEF WindowRows
    <3>2. \A k \in Keys, w \in Minutes :
            /\ InWindow(r, k, w) = 0
            /\ InWindow(r, k, w)' = IF k = k0 /\ w = w0 THEN tokens ELSE 0
      BY <2>3, <3>1 DEF InWindow, TokensOf
    <3>3. \A k \in Keys, w \in Minutes : rate[k][w].tokens \in Int
      BY <1>0 DEF TypeOK, WindowType
    <3>4. tpm # NoLimit => limits
      OBVIOUS
    <3>5. ~limits => tokens = 0
      OBVIOUS
    <3>6. w0 >= Minute(now)
      BY <1>1 DEF Minutes
    <3> HIDE DEF tpm, limits, tokens, k0, w0
    <3>7. ASSUME NEW k \in Keys, NEW w \in Minutes, rate'[k][w].live
          PROVE /\ rate[k][w].live \/ w >= Minute(now)
                /\ rate'[k][w].tokens = rate[k][w].tokens + InWindow(r, k, w)' - InWindow(r, k, w)
      <4>1. CASE k = k0 /\ w = w0
        BY <2>4, <2>6, <3>2, <3>3, <3>5, <3>6, <3>7, <4>1
      <4>2. CASE ~(k = k0 /\ w = w0)
        BY <2>6, <3>2, <3>3, <3>7, <4>2
      <4> QED
        BY <4>1, <4>2
    <3>8. ASSUME NEW k \in Keys, NEW w \in Minutes, ~rate'[k][w].live
          PROVE /\ ~rate[k][w].live /\ rate'[k][w].tokens = rate[k][w].tokens
                /\ r \in WindowRows(k, w)' => r \in WindowRows(k, w)
      <4>1. CASE k = k0 /\ w = w0
        BY <2>6, <3>1, <3>4, <3>8, <4>1
      <4>2. CASE ~(k = k0 /\ w = w0)
        BY <2>6, <3>1, <3>8, <4>2
      <4> QED
        BY <4>1, <4>2
    <3> QED
      BY <2>2, <3>7, <3>8, WindowsFollow
  <2> QED
    BY <2>7, <2>8, <2>9 DEF Counted
<1> QED
  BY <1>2, <1>3 DEF Reserve

\* What setting the tokens of one window does to the table of windows.
LEMMA WindowUpdate ==
  ASSUME NEW table \in [Keys -> [Minutes -> WindowType]], NEW k0 \in Keys,
         NEW w0 \in Minutes, NEW n, NEW new, new = [table EXCEPT ![k0][w0].tokens = n]
  PROVE  /\ new[k0][w0].tokens = n /\ new[k0][w0].live = table[k0][w0].live
         /\ \A k \in Keys, w \in Minutes : k # k0 \/ w # w0 => new[k][w] = table[k][w]
<1>1. table[k0][w0] \in WindowType
  OBVIOUS
<1>2. new[k0][w0] = [table[k0][w0] EXCEPT !.tokens = n]
  OBVIOUS
<1>3. new[k0][w0].tokens = n /\ new[k0][w0].live = table[k0][w0].live
  BY <1>1, <1>2 DEF WindowType
<1>4. \A k \in Keys, w \in Minutes : k # k0 \/ w # w0 => new[k][w] = table[k][w]
  OBVIOUS
<1> QED
  BY <1>3, <1>4

\* A resize moves hold and tokens by the same difference everywhere.
LEMMA CountedResize ==
  ASSUME Counted, TypeOK', NEW r \in Reservations, Resize(r)
  PROVE  Counted'
<1>0. TypeOK /\ RowsAreOrderly /\ HoldsMatchReservations
  BY DEF Counted
<1> DEFINE k0 == KeyOf[r]
           w0 == res[r].window
<1>1. /\ k0 \in Keys /\ AccountOf[k0] \in Accounts /\ w0 \in Minutes
      /\ res[r].tokens \in Nat /\ res[r].micros \in Nat /\ res[r].tpmApplied \in BOOLEAN
  BY <1>0, KeysAssumption DEF TypeOK, ReservationType
<1>2. \A k \in Keys, w \in Minutes : rate[k][w].tokens \in Int
  BY <1>0 DEF TypeOK, WindowType
<1>3. CASE \E t \in TokenCounts : ResizeUnlimited(r, t)
  <2>1. PICK t \in TokenCounts : ResizeUnlimited(r, t)
    BY <1>3
  <2>2. /\ \A q \in Reservations \ {r} : res'[q] = res[q]
        /\ res[r].status = "reserved" /\ res'[r].status = "reserved"
        /\ ~res[r].prepaid /\ res'[r].prepaid = res[r].prepaid
        /\ res'[r].tpmApplied = res[r].tpmApplied
        /\ now' = now /\ rate' = rate /\ held' = held /\ keyReserved' = keyReserved
    BY <1>0, <2>1 DEF ResizeUnlimited, TypeOK, ReservationType, budgetVars
  <2>3. RowsAreOrderly'
    BY <1>0, <2>2 DEF RowsAreOrderly
  <2>4. HoldsMatchReservations'
    <3>1. PrepaidHold[r] = 0 /\ PrepaidHold'[r] = 0
      BY <2>2 DEF PrepaidHold
    <3>2. /\ \A k \in Keys : keyReserved[k] \in Int
          /\ \A a \in Accounts : held[a] \in Int
      BY <1>0 DEF TypeOK
    <3> QED
      BY <1>0, <2>2, <3>1, <3>2, HoldStep
  <2>5. RateWindowsExact' /\ WindowsAreOrderly'
    <3>1. \A k \in Keys, w \in Minutes :
            r \notin WindowRows(k, w) /\ r \notin WindowRows(k, w)'
      BY <1>0, <2>2 DEF WindowRows, RowsAreOrderly
    <3>2. \A k \in Keys, w \in Minutes : InWindow(r, k, w) = 0 /\ InWindow(r, k, w)' = 0
      BY <3>1 DEF InWindow
    <3> QED
      BY <1>2, <2>2, <3>1, <3>2, WindowsFollow
  <2> QED
    BY <2>3, <2>4, <2>5 DEF Counted
<1>4. CASE \E m \in Holds, t \in TokenCounts : ResizePrepaid(r, m, t)
  <2>1. PICK m \in Holds, t \in TokenCounts : ResizePrepaid(r, m, t)
    BY <1>4
  <2> DEFINE d == m - res[r].micros
             n == rate[k0][w0].tokens + t - res[r].tokens
             counts == res[r].tpmApplied
  <2>2. /\ \A q \in Reservations \ {r} : res'[q] = res[q]
        /\ res[r].status = "reserved" /\ res[r].prepaid /\ now' = now
    BY <1>0, <2>1 DEF ResizePrepaid, TypeOK
  <2>3. /\ res'[r].status = "reserved" /\ res'[r].prepaid = res[r].prepaid
        /\ res'[r].micros = m /\ res'[r].tokens = t /\ res'[r].window = w0
        /\ res'[r].tpmApplied = counts
    <3>1. res[r] \in ReservationType /\ res \in [Reservations -> ReservationType]
      BY <1>0 DEF TypeOK
    <3>2. res' = [res EXCEPT ![r].micros = m, ![r].tokens = t]
      BY <2>1 DEF ResizePrepaid
    <3>3. res'[r] = [res[r] EXCEPT !.micros = m, !.tokens = t]
      BY <3>1, <3>2
    <3>4. /\ res'[r].status = res[r].status /\ res'[r].window = res[r].window
          /\ res'[r].micros = m /\ res'[r].tokens = t
      BY <3>1, <3>3 DEF ReservationType
    <3>5. res'[r].prepaid = res[r].prepaid /\ res'[r].tpmApplied = res[r].tpmApplied
      BY <3>1, <3>3 DEF ReservationType
    <3> QED
      BY <2>2, <3>4, <3>5
  <2>4. m \in Nat /\ t \in Nat /\ d \in Int
    BY <1>1, AmountAssumption
  <2>5. /\ \A k \in Keys : keyReserved'[k] = IF k = KeyOf[r] THEN keyReserved[k] + d
                                                             ELSE keyReserved[k]
        /\ \A a \in Accounts : held'[a] = IF a = Account(r) THEN held[a] + d ELSE held[a]
    BY <1>0, <2>1 DEF ResizePrepaid, TypeOK
  <2>6. /\ counts => /\ rate[k0][w0].live /\ rate'[k0][w0].live
                     /\ rate'[k0][w0].tokens = n
        /\ ~counts => rate' = rate
        /\ \A k \in Keys, w \in Minutes : k # k0 \/ w # w0 => rate'[k][w] = rate[k][w]
    <3>1. /\ counts => rate' = [rate EXCEPT ![k0][w0].tokens = n]
          /\ ~counts => rate' = rate
          /\ counts => rate[k0][w0].live
      BY <2>1 DEF ResizePrepaid
    <3>2. rate \in [Keys -> [Minutes -> WindowType]] /\ rate[k0][w0] \in WindowType
      BY <1>0, <1>1 DEF TypeOK
    <3> HIDE DEF n, k0, w0, counts
    <3>3. CASE counts
      <4>1. /\ rate'[k0][w0].tokens = n /\ rate'[k0][w0].live = rate[k0][w0].live
            /\ \A k \in Keys, w \in Minutes : k # k0 \/ w # w0 => rate'[k][w] = rate[k][w]
        <5>1. k0 \in Keys /\ w0 \in Minutes
          BY <1>1
        <5>2. rate' = [rate EXCEPT ![k0][w0].tokens = n]
          BY <3>1, <3>3
        <5> QED
          BY <3>2, <5>1, <5>2, WindowUpdate
      <4> QED
        BY <3>1, <3>3, <4>1
    <3> QED
      BY <3>1, <3>3
  <2>7. RowsAreOrderly'
    BY <1>0, <2>2, <2>3 DEF RowsAreOrderly
  <2>8. HoldsMatchReservations'
    <3>1. PrepaidHold[r] = res[r].micros /\ PrepaidHold'[r] = m
      BY <2>2, <2>3 DEF PrepaidHold
    <3>2. PrepaidHold'[r] = PrepaidHold[r] + d
      BY <1>1, <2>4, <3>1
    <3> HIDE DEF d
    <3> QED
      BY <1>0, <2>2, <2>4, <2>5, <3>2, HoldStep
  <2>9. RateWindowsExact' /\ WindowsAreOrderly'
    <3>1. \A k \in Keys, w \in Minutes :
            /\ r \in WindowRows(k, w) <=> k = k0 /\ w = w0 /\ counts
            /\ r \in WindowRows(k, w)' <=> k = k0 /\ w = w0 /\ counts
      BY <2>2, <2>3 DEF WindowRows
    <3>2. \A k \in Keys, w \in Minutes :
            /\ InWindow(r, k, w) = IF k = k0 /\ w = w0 /\ counts THEN res[r].tokens ELSE 0
            /\ InWindow(r, k, w)' = IF k = k0 /\ w = w0 /\ counts THEN t ELSE 0
      BY <2>2, <2>3, <3>1 DEF InWindow, TokensOf
    <3>3. n = rate[k0][w0].tokens + t - res[r].tokens
      OBVIOUS
    <3> HIDE DEF n, counts, k0, w0
    <3>7. ASSUME NEW k \in Keys, NEW w \in Minutes, rate'[k][w].live
          PROVE /\ rate[k][w].live \/ w >= Minute(now)
                /\ rate'[k][w].tokens = rate[k][w].tokens + InWindow(r, k, w)' - InWindow(r, k, w)
      <4>1. CASE k = k0 /\ w = w0 /\ counts
        BY <1>1, <1>2, <2>4, <2>6, <3>2, <3>3, <4>1
      <4>2. CASE ~(k = k0 /\ w = w0 /\ counts)
        BY <1>2, <2>6, <3>2, <3>7, <4>2
      <4> QED
        BY <4>1, <4>2
    <3>8. ASSUME NEW k \in Keys, NEW w \in Minutes, ~rate'[k][w].live
          PROVE /\ ~rate[k][w].live /\ rate'[k][w].tokens = rate[k][w].tokens
                /\ r \in WindowRows(k, w)' => r \in WindowRows(k, w)
      BY <2>6, <3>1, <3>8
    <3> QED
      BY <2>2, <3>7, <3>8, WindowsFollow
  <2> QED
    BY <2>7, <2>8, <2>9 DEF Counted
<1> QED
  BY <1>3, <1>4 DEF Resize

\* A settlement releases the hold and replaces the reserved tokens by the
\* reported ones.
LEMMA CountedSettle ==
  ASSUME Counted, TypeOK', NEW r \in Reservations, Settle(r)
  PROVE  Counted'
<1>0. TypeOK /\ RowsAreOrderly /\ HoldsMatchReservations
  BY DEF Counted
<1> DEFINE k0 == KeyOf[r]
           w0 == res[r].window
<1>1. /\ k0 \in Keys /\ AccountOf[k0] \in Accounts /\ w0 \in Minutes
      /\ res[r].tokens \in Nat /\ res[r].micros \in Nat /\ res[r].tpmApplied \in BOOLEAN
      /\ res[r] \in ReservationType
  BY <1>0, KeysAssumption DEF TypeOK, ReservationType
<1>2. \A k \in Keys, w \in Minutes : rate[k][w].tokens \in Int
  BY <1>0 DEF TypeOK, WindowType
<1>3. PICK calculated \in Charges, t \in TokenCounts :
             \/ SettlePrepaid(r, calculated, t)
             \/ SettleUnlimited(r, calculated, t)
  BY DEF Settle
<1>4. t \in Nat
  BY AmountAssumption
<1>5. PICK actual :
        res' = [res EXCEPT ![r].status = "settled", ![r].actual = actual,
                           ![r].used = t, ![r].settledAt = now]
  BY <1>3 DEF SettlePrepaid, SettleUnlimited, BookCharge
<1>6. /\ \A q \in Reservations \ {r} : res'[q] = res[q]
      /\ res'[r] = [res[r] EXCEPT !.status = "settled", !.actual = actual,
                                  !.used = t, !.settledAt = now]
  BY <1>0, <1>5 DEF TypeOK
<1>7. /\ res'[r].status = "settled" /\ res'[r].used = t /\ res'[r].window = w0
      /\ res[r].status = "reserved" /\ now' = now
  BY <1>1, <1>3, <1>6 DEF ReservationType, SettlePrepaid, SettleUnlimited
<1>8. res'[r].prepaid = res[r].prepaid /\ res'[r].tpmApplied = res[r].tpmApplied
  BY <1>1, <1>6 DEF ReservationType
<1>9. RowsAreOrderly'
  BY <1>0, <1>6, <1>7, <1>8 DEF RowsAreOrderly
<1>10. CASE SettleUnlimited(r, calculated, t)
  <2>2. /\ ~res[r].prepaid
        /\ rate' = rate /\ held' = held /\ keyReserved' = keyReserved
    BY <1>10 DEF SettleUnlimited, budgetVars
  <2>4. HoldsMatchReservations'
    <3>1. PrepaidHold[r] = 0 /\ PrepaidHold'[r] = 0
      BY <1>8, <2>2 DEF PrepaidHold
    <3>2. /\ \A k \in Keys : keyReserved[k] \in Int
          /\ \A a \in Accounts : held[a] \in Int
      BY <1>0 DEF TypeOK
    <3> QED
      BY <1>0, <1>6, <2>2, <3>1, <3>2, HoldStep
  <2>5. RateWindowsExact' /\ WindowsAreOrderly'
    <3>1. \A k \in Keys, w \in Minutes :
            r \notin WindowRows(k, w) /\ r \notin WindowRows(k, w)'
      BY <1>0, <1>8, <2>2 DEF WindowRows, RowsAreOrderly
    <3>2. \A k \in Keys, w \in Minutes : InWindow(r, k, w) = 0 /\ InWindow(r, k, w)' = 0
      BY <3>1 DEF InWindow
    <3> QED
      BY <1>2, <1>6, <1>7, <2>2, <3>1, <3>2, WindowsFollow
  <2> QED
    BY <1>9, <2>4, <2>5 DEF Counted
<1>11. CASE SettlePrepaid(r, calculated, t)
  <2>1. ReleaseHold(r, t) /\ res[r].prepaid
    BY <1>11 DEF SettlePrepaid
  <2> DEFINE m == res[r].micros
             n == Larger(rate[k0][w0].tokens - res[r].tokens + t, 0)
             counts == res[r].tpmApplied
  <2>5. /\ \A k \in Keys : keyReserved'[k] = IF k = KeyOf[r] THEN keyReserved[k] + (-m)
                                                             ELSE keyReserved[k]
        /\ \A a \in Accounts : held'[a] = IF a = Account(r) THEN held[a] + (-m) ELSE held[a]
    BY <1>0, <1>1, <2>1 DEF ReleaseHold, TypeOK
  <2>6. /\ counts /\ rate[k0][w0].live => rate'[k0][w0].live /\ rate'[k0][w0].tokens = n
        /\ ~(counts /\ rate[k0][w0].live) => rate' = rate
        /\ \A k \in Keys, w \in Minutes : k # k0 \/ w # w0 => rate'[k][w] = rate[k][w]
    <3>1. /\ counts /\ rate[k0][w0].live => rate' = [rate EXCEPT ![k0][w0].tokens = n]
          /\ ~(counts /\ rate[k0][w0].live) => rate' = rate
      BY <1>0, <1>1, <2>1 DEF ReleaseHold, TypeOK
    <3>2. rate \in [Keys -> [Minutes -> WindowType]]
      BY <1>0 DEF TypeOK
    <3> HIDE DEF n, k0, w0, counts
    <3>3. CASE counts /\ rate[k0][w0].live
      <4>1. k0 \in Keys /\ w0 \in Minutes
        BY <1>1
      <4>2. rate' = [rate EXCEPT ![k0][w0].tokens = n]
        BY <3>1, <3>3
      <4>3. /\ rate'[k0][w0].tokens = n /\ rate'[k0][w0].live = rate[k0][w0].live
            /\ \A k \in Keys, w \in Minutes : k # k0 \/ w # w0 => rate'[k][w] = rate[k][w]
        BY <3>2, <4>1, <4>2, WindowUpdate
      <4> QED
        BY <3>3, <4>3
    <3> QED
      BY <3>1, <3>3
  <2>8. HoldsMatchReservations'
    <3>1. PrepaidHold[r] = m /\ PrepaidHold'[r] = 0
      BY <1>7, <2>1 DEF PrepaidHold
    <3> DEFINE d == -m
    <3>2. PrepaidHold'[r] = PrepaidHold[r] + d /\ d \in Int
      BY <1>1, <3>1
    <3>3. /\ \A k \in Keys : keyReserved'[k] = IF k = KeyOf[r] THEN keyReserved[k] + d
                                                               ELSE keyReserved[k]
          /\ \A a \in Accounts : held'[a] = IF a = Account(r) THEN held[a] + d ELSE held[a]
      BY <2>5
    <3> HIDE DEF d
    <3> QED
      BY <1>0, <1>6, <3>2, <3>3, HoldStep
  <2>9. RateWindowsExact' /\ WindowsAreOrderly'
    <3>1. \A k \in Keys, w \in Minutes :
            /\ r \in WindowRows(k, w) <=> k = k0 /\ w = w0 /\ counts
            /\ r \in WindowRows(k, w)' <=> k = k0 /\ w = w0 /\ counts
      BY <1>7, <1>8 DEF WindowRows
    <3>2. \A k \in Keys, w \in Minutes :
            /\ InWindow(r, k, w) = IF k = k0 /\ w = w0 /\ counts THEN res[r].tokens ELSE 0
            /\ InWindow(r, k, w)' = IF k = k0 /\ w = w0 /\ counts THEN t ELSE 0
      BY <1>7, <3>1 DEF InWindow, TokensOf
    <3>3. rate[k0][w0].live /\ counts => n = rate[k0][w0].tokens - res[r].tokens + t
      <4>1. SUFFICES ASSUME rate[k0][w0].live, counts
                     PROVE  n = rate[k0][w0].tokens - res[r].tokens + t
        OBVIOUS
      <4>2. rate[k0][w0].tokens = SumFunctionOnSet(Tokens, WindowRows(k0, w0))
        BY <1>1, <4>1, WindowsAreSums DEF Counted
      <4>3. InWindow(r, k0, w0) <= SumFunctionOnSet(Tokens, WindowRows(k0, w0))
        BY <1>0, <1>1, <1>6, WindowStep
      <4>4. InWindow(r, k0, w0) = res[r].tokens
        BY <1>1, <3>2, <4>1
      <4>5. res[r].tokens <= rate[k0][w0].tokens /\ rate[k0][w0].tokens \in Int
        BY <1>1, <1>2, <4>2, <4>3, <4>4
      <4> QED
        BY <1>1, <1>4, <4>5 DEF Larger
    <3> HIDE DEF n, counts, k0, w0
    <3>7. ASSUME NEW k \in Keys, NEW w \in Minutes, rate'[k][w].live
          PROVE /\ rate[k][w].live \/ w >= Minute(now)
                /\ rate'[k][w].tokens = rate[k][w].tokens + InWindow(r, k, w)' - InWindow(r, k, w)
      <4>1. CASE k = k0 /\ w = w0 /\ counts
        <5>1. rate[k][w].live
          BY <2>6, <3>7, <4>1
        <5>2. rate'[k][w].tokens = rate[k][w].tokens - res[r].tokens + t
          BY <2>6, <3>3, <4>1, <5>1
        <5> QED
          BY <1>1, <1>2, <1>4, <3>2, <4>1, <5>1, <5>2
      <4>2. CASE ~(k = k0 /\ w = w0 /\ counts)
        BY <1>2, <2>6, <3>2, <3>7, <4>2
      <4> QED
        BY <4>1, <4>2
    <3>8. ASSUME NEW k \in Keys, NEW w \in Minutes, ~rate'[k][w].live
          PROVE /\ ~rate[k][w].live /\ rate'[k][w].tokens = rate[k][w].tokens
                /\ r \in WindowRows(k, w)' => r \in WindowRows(k, w)
      BY <2>6, <3>1, <3>8
    <3> QED
      BY <1>6, <1>7, <3>7, <3>8, WindowsFollow
  <2> QED
    BY <1>9, <2>8, <2>9 DEF Counted
<1> QED
  BY <1>3, <1>10, <1>11

\* Later moments are in the same minute or a later one.
LEMMA MinuteGrows ==
  ASSUME NEW t \in Nat
  PROVE  Minute(t) \in Nat /\ Minute(t + 1) \in Nat /\ Minute(t) <= Minute(t + 1)
<1>1. MinuteLen \in Nat \ {0}
  BY TimeAssumption
<1>2. t \div MinuteLen \in 0 .. (t + 1) \div MinuteLen
  BY <1>1, DivBound
<1>3. (t + 1) \div MinuteLen \in Nat
  BY <1>1, SMT
<1> QED
  BY <1>2, <1>3 DEF Minute

\* Steps that leave rows, holds and windows alone, the clock included.
LEMMA CountedFrame ==
  ASSUME Counted, TypeOK', res' = res, held' = held, keyReserved' = keyReserved,
         rate' = rate, now' = now \/ now' = now + 1
  PROVE  Counted'
<1>1. RowsAreOrderly'
  BY DEF Counted, RowsAreOrderly
<1>2. HoldsMatchReservations' /\ RateWindowsExact'
  BY DEF Counted, HoldsMatchReservations, PrepaidHold, RateWindowsExact, TokensOf
<1>3. now \in Nat
  BY DEF Counted, TypeOK, Times
<1>4. Minute(now) \in Nat /\ Minute(now') \in Nat /\ Minute(now) <= Minute(now')
  BY <1>3, MinuteGrows
<1>5. ASSUME NEW k \in Keys, NEW w \in Minutes, ~rate[k][w].live
      PROVE  /\ rate[k][w].tokens = 0
             /\ w >= Minute(now') => WindowRows(k, w) = {}
  <2>1. w \in Nat
    BY DEF Minutes
  <2> QED
    BY <1>4, <1>5, <2>1 DEF Counted, WindowsAreOrderly
<1>6. \A k \in Keys, w \in Minutes : WindowRows(k, w)' = WindowRows(k, w)
  BY DEF WindowRows
<1>7. WindowsAreOrderly'
  BY <1>5, <1>6 DEF WindowsAreOrderly, Minute
<1> QED
  BY <1>1, <1>2, <1>7 DEF Counted

\* A window that may be pruned is over.
LEMMA ExpiredIsOver ==
  ASSUME TypeOK, NEW k \in Keys, NEW w \in Minutes, << k, w >> \in ExpiredWindows
  PROVE  ~(w >= Minute(now))
<1>1. /\ w \in Nat /\ now \in Nat /\ MinuteLen \in Nat \ {0}
      /\ w * MinuteLen < now - RateRetention
      /\ MinuteLen <= RateRetention + 1 /\ RateRetention \in Nat
  <2>1. << k, w >>[2] * MinuteLen < now - RateRetention
    BY DEF ExpiredWindows
  <2> QED
    BY <2>1, TimeAssumption DEF Minutes, TypeOK, Times
<1> DEFINE m == now \div MinuteLen
           p == w * MinuteLen
<1>2. m \in Nat /\ now < MinuteLen * (m + 1)
  BY <1>1, SMT
<1>3. p \in Nat /\ p + MinuteLen = MinuteLen * (w + 1)
  <2>1. ASSUME NEW a \in Nat, NEW b \in Nat
        PROVE  a * b \in Nat /\ a * b + b = b * (a + 1)
    BY <2>1, SMT
  <2> QED
    BY <1>1, <2>1
<1>4. p + MinuteLen <= now
  <2>1. p < now - RateRetention
    BY <1>1
  <2> HIDE DEF p
  <2> QED
    BY <1>1, <1>3, <2>1
<1>5. MinuteLen * (w + 1) < MinuteLen * (m + 1)
  <2> HIDE DEF m, p
  <2>1. MinuteLen * (w + 1) \in Nat /\ MinuteLen * (m + 1) \in Nat
    BY <1>1, <1>2
  <2> QED
    BY <1>1, <1>2, <1>3, <1>4, <2>1
<1>6. w + 1 < m + 1
  <2> HIDE DEF m
  <2>1. ASSUME m + 1 <= w + 1 PROVE FALSE
    <3>1. MinuteLen * (m + 1) <= MinuteLen * (w + 1)
      BY <1>1, <1>2, <2>1, SMT
    <3> QED
      BY <1>1, <1>2, <1>5, <3>1
  <2> QED
    BY <1>1, <1>2, <2>1
<1> QED
  BY <1>1, <1>2, <1>6 DEF Minute

\* A window that is deleted is over: no row can be added to it any more.
LEMMA CountedPrune ==
  ASSUME Counted, TypeOK', PruneRateWindows
  PROVE  Counted'
<1>1. PICK gone \in SUBSET ExpiredWindows :
        rate' = [k \in Keys |-> [w \in Minutes |->
                   IF << k, w >> \in gone THEN NoWindow ELSE rate[k][w]]]
  BY DEF PruneRateWindows
<1>2. res' = res /\ held' = held /\ keyReserved' = keyReserved /\ now' = now
  BY DEF PruneRateWindows, budgetVars
<1>3. RowsAreOrderly' /\ HoldsMatchReservations'
  BY <1>2 DEF Counted, RowsAreOrderly, HoldsMatchReservations, PrepaidHold
<1>4. \A k \in Keys, w \in Minutes :
        /\ WindowRows(k, w)' = WindowRows(k, w)
        /\ << k, w >> \notin gone => rate'[k][w] = rate[k][w]
        /\ << k, w >> \in gone => ~rate'[k][w].live /\ rate'[k][w].tokens = 0
  BY <1>1, <1>2 DEF WindowRows, NoWindow
<1>5. RateWindowsExact'
  <2>1. ASSUME NEW k \in Keys, NEW w \in Minutes, rate'[k][w].live
        PROVE  rate'[k][w].tokens = SumFunctionOnSet(Tokens, WindowRows(k, w))
    <3>1. RateWindowsExact
      BY DEF Counted
    <3>2. rate'[k][w] = rate[k][w]
      BY <1>4, <2>1
    <3> QED
      BY <2>1, <3>1, <3>2, WindowsAreSums
  <2>2. Tokens' = Tokens
    BY <1>2 DEF Tokens, TokensOf
  <2>3. \A k \in Keys, w \in Minutes : rate'[k][w].live =>
          rate'[k][w].tokens = SumFunctionOnSet(Tokens, WindowRows(k, w))'
    <3>1. \A k \in Keys, w \in Minutes : WindowRows(k, w)' = WindowRows(k, w)
      BY <1>4
    <3> QED
      BY <2>1, <2>2, <3>1
  <2> QED
    BY <2>3 DEF RateWindowsExact, Tokens, WindowRows
<1>6. ASSUME NEW k \in Keys, NEW w \in Minutes, << k, w >> \in gone
      PROVE  ~(w >= Minute(now))
  BY <1>6, ExpiredIsOver DEF Counted
<1>7. ASSUME NEW k \in Keys, NEW w \in Minutes, ~rate'[k][w].live
      PROVE  /\ rate'[k][w].tokens = 0
             /\ w >= Minute(now) => WindowRows(k, w)' = {}
  <2>1. CASE << k, w >> \in gone
    BY <1>4, <1>6, <2>1
  <2>2. CASE << k, w >> \notin gone
    <3>1. rate'[k][w] = rate[k][w] /\ WindowRows(k, w)' = WindowRows(k, w)
      BY <1>4, <2>2
    <3>2. WindowsAreOrderly
      BY DEF Counted
    <3> QED
      BY <1>7, <3>1, <3>2 DEF WindowsAreOrderly
  <2> QED
    BY <2>1, <2>2
<1>8. WindowsAreOrderly'
  BY <1>2, <1>7 DEF WindowsAreOrderly, Minute
<1> QED
  BY <1>3, <1>5, <1>8 DEF Counted

\* Every step keeps the counters.
LEMMA CountedNext == Counted /\ [Next]_vars => Counted'
<1> SUFFICES ASSUME Counted, [Next]_vars PROVE Counted'
  OBVIOUS
<1>1. TypeOK'
  BY TypeNext DEF Counted
<1>2. CASE \E r \in Reservations : Reserve(r) \/ Resize(r) \/ Settle(r)
  BY <1>1, <1>2, CountedReserve, CountedResize, CountedSettle
<1>3. CASE PruneRateWindows
  BY <1>1, <1>3, CountedPrune
<1>4. CASE /\ res' = res /\ held' = held /\ keyReserved' = keyReserved /\ rate' = rate
           /\ now' = now \/ now' = now + 1
  BY <1>1, <1>4, CountedFrame
<1>5. \/ \E r \in Reservations : Reserve(r) \/ Resize(r) \/ Settle(r)
      \/ PruneRateWindows
      \/ /\ res' = res /\ held' = held /\ keyReserved' = keyReserved /\ rate' = rate
         /\ now' = now \/ now' = now + 1
  BY DEF Next, Authenticate, ProjectMetered, SetPolicy, GrantCredit, ReverseGrant,
         PruneBudgets, Tick, budgetVars, vars
<1> QED
  BY <1>2, <1>3, <1>4, <1>5

-----------------------------------------------------------------------------
\* Request counts.  A window that is not there counts nothing and, unless it is
\* over, no request was admitted in it.
WindowsCountFromZero ==
  \A k \in Keys, w \in Minutes : ~rate[k][w].live =>
    /\ rate[k][w].requests = 0
    /\ w >= Minute(now) => RequestRows(k, w) = {}
Requested == Admitted /\ WindowsCountFromZero /\ RequestCountsExact

\* No request is counted at first.
LEMMA RequestedInit == Init => Requested
<1> SUFFICES ASSUME Init PROVE Requested
  OBVIOUS
<1>1. \A k \in Keys, w \in Minutes : RequestRows(k, w) = {}
  BY DEF Init, RequestRows, NoRow
<1>2. \A k \in Keys, w \in Minutes : ~rate[k][w].live /\ rate[k][w].requests = 0
  BY DEF Init, NoWindow
<1> QED
  BY <1>1, <1>2, AdmittedInit DEF Requested, WindowsCountFromZero, RequestCountsExact

\* Steps that admit nothing and prune nothing keep the counts, the clock's
\* included.
LEMMA RequestsStay ==
  ASSUME Requested, Admitted', now' = now \/ now' = now + 1,
         \A k \in Keys, w \in Minutes :
           /\ RequestRows(k, w)' = RequestRows(k, w)
           /\ rate'[k][w].live = rate[k][w].live
           /\ rate'[k][w].requests = rate[k][w].requests
  PROVE  Requested'
<1>1. now \in Nat
  BY DEF Requested, Admitted, TypeOK, Times
<1>2. Minute(now) \in Nat /\ Minute(now') \in Nat /\ Minute(now) <= Minute(now')
  BY <1>1, MinuteGrows
<1>3. ASSUME NEW k \in Keys, NEW w \in Minutes, ~rate'[k][w].live
      PROVE  /\ rate'[k][w].requests = 0
             /\ w >= Minute(now') => RequestRows(k, w)' = {}
  <2>1. w \in Nat
    BY DEF Minutes
  <2> QED
    BY <1>2, <1>3, <2>1 DEF Requested, WindowsCountFromZero
<1>4. ASSUME NEW k \in Keys, NEW w \in Minutes, rate'[k][w].live
      PROVE  rate'[k][w].requests = Cardinality(RequestRows(k, w)')
  BY <1>4 DEF Requested, RequestCountsExact
<1>5. WindowsCountFromZero'
  BY <1>3 DEF WindowsCountFromZero, Minute
<1>6. RequestCountsExact'
  BY <1>4 DEF RequestCountsExact
<1> QED
  BY <1>5, <1>6 DEF Requested

\* A row that stays in its window, with the copy of the policy it has, is
\* counted where it was.
LEMMA RequestRowsStay ==
  ASSUME \A q \in Reservations :
           /\ res'[q].status = "none" <=> res[q].status = "none"
           /\ res[q].status # "none" => /\ res'[q].prepaid = res[q].prepaid
                                        /\ res'[q].window = res[q].window
                                        /\ admission'[q] = admission[q]
  PROVE  \A k \in Keys, w \in Minutes : RequestRows(k, w)' = RequestRows(k, w)
BY DEF RequestRows, Prepaid

\* Setting the tokens of one window leaves its requests alone.
LEMMA TokensApart ==
  ASSUME NEW table \in [Keys -> [Minutes -> WindowType]], NEW k0 \in Keys,
         NEW w0 \in Minutes, NEW n, NEW new, new = [table EXCEPT ![k0][w0].tokens = n]
  PROVE  \A k \in Keys, w \in Minutes :
           new[k][w].live = table[k][w].live /\ new[k][w].requests = table[k][w].requests
<1>1. table[k0][w0] \in WindowType
  OBVIOUS
<1>2. new[k0][w0] = [table[k0][w0] EXCEPT !.tokens = n]
  OBVIOUS
<1>3. /\ new[k0][w0].live = table[k0][w0].live
      /\ new[k0][w0].requests = table[k0][w0].requests
  BY <1>1, <1>2 DEF WindowType
<1>4. \A k \in Keys, w \in Minutes : k # k0 \/ w # w0 => new[k][w] = table[k][w]
  OBVIOUS
<1> QED
  BY <1>3, <1>4

\* A resize or a settlement counts no request.
LEMMA RequestedLater ==
  ASSUME Requested, Admitted', NEW r \in Reservations, Resize(r) \/ Settle(r)
  PROVE  Requested'
<1>1. TypeOK /\ res[r] \in ReservationType
  BY DEF Requested, Admitted, TypeOK
<1>2. /\ now' = now /\ admission' = admission /\ res[r].status = "reserved"
      /\ \A q \in Reservations \ {r} : res'[q] = res[q]
  BY <1>1 DEF Resize, ResizeUnlimited, ResizePrepaid, Settle, SettleUnlimited, SettlePrepaid,
              BookCharge, TypeOK
<1>3. /\ res'[r].status # "none" /\ res'[r].window = res[r].window
      /\ res'[r].prepaid = res[r].prepaid
  <2>1. CASE Resize(r)
    <3>1. PICK m, t : \/ res' = [res EXCEPT ![r].tokens = t]
                      \/ res' = [res EXCEPT ![r].micros = m, ![r].tokens = t]
      BY <2>1 DEF Resize, ResizeUnlimited, ResizePrepaid
    <3>2. \/ res'[r] = [res[r] EXCEPT !.tokens = t]
          \/ res'[r] = [res[r] EXCEPT !.micros = m, !.tokens = t]
      BY <1>1, <3>1 DEF TypeOK
    <3> QED
      BY <1>1, <1>2, <3>2 DEF ReservationType
  <2>2. CASE Settle(r)
    <3>0. PICK calculated \in Charges, t \in TokenCounts :
            SettlePrepaid(r, calculated, t) \/ SettleUnlimited(r, calculated, t)
      BY <2>2 DEF Settle
    <3>1. PICK actual :
            res' = [res EXCEPT ![r].status = "settled", ![r].actual = actual,
                               ![r].used = t, ![r].settledAt = now]
      BY <3>0 DEF SettlePrepaid, SettleUnlimited, BookCharge
    <3>2. res'[r] = [res[r] EXCEPT !.status = "settled", !.actual = actual,
                                   !.used = t, !.settledAt = now]
      BY <1>1, <3>1 DEF TypeOK
    <3> QED
      BY <1>1, <3>2 DEF ReservationType
  <2> QED
    BY <2>1, <2>2
<1>4. \A k \in Keys, w \in Minutes : RequestRows(k, w)' = RequestRows(k, w)
  BY <1>2, <1>3, RequestRowsStay
<1>5. PICK n : rate' = rate \/ rate' = [rate EXCEPT ![KeyOf[r]][res[r].window].tokens = n]
  <2>1. CASE Resize(r)
    BY <2>1 DEF Resize, ResizeUnlimited, ResizePrepaid
  <2>2. CASE Settle(r)
    <3>1. \/ rate' = rate
          \/ \E t : ReleaseHold(r, t)
      BY <2>2 DEF Settle, SettlePrepaid, SettleUnlimited
    <3>2. ASSUME NEW t, ReleaseHold(r, t)
          PROVE  \/ rate' = rate
                 \/ rate' = [rate EXCEPT ![KeyOf[r]][res[r].window].tokens =
                               Larger(rate[KeyOf[r]][res[r].window].tokens
                                        - res[r].tokens + t, 0)]
      BY <1>1, <3>2, KeysAssumption DEF ReleaseHold, TypeOK, ReservationType
    <3> QED
      BY <3>1, <3>2
  <2> QED
    BY <2>1, <2>2
<1>6. /\ rate \in [Keys -> [Minutes -> WindowType]]
      /\ KeyOf[r] \in Keys /\ res[r].window \in Minutes
  BY <1>1, KeysAssumption DEF TypeOK, ReservationType
<1>7. \A k \in Keys, w \in Minutes :
        rate'[k][w].live = rate[k][w].live /\ rate'[k][w].requests = rate[k][w].requests
  <2>1. PICK k0 \in Keys, w0 \in Minutes :
          rate' = rate \/ rate' = [rate EXCEPT ![k0][w0].tokens = n]
    BY <1>5, <1>6
  <2>2. CASE rate' = [rate EXCEPT ![k0][w0].tokens = n]
    BY <1>6, <2>2, TokensApart
  <2> QED
    BY <2>1, <2>2
<1> QED
  BY <1>2, <1>4, <1>7, RequestsStay

\* An admission counts its request in the current window, once.
LEMMA RequestedReserve ==
  ASSUME Requested, Admitted', NEW r \in Reservations, Reserve(r)
  PROVE  Requested'
<1>0. TypeOK /\ TypeOK' /\ WindowsCountFromZero /\ RequestCountsExact
  BY DEF Requested, Admitted
<1> DEFINE k0 == KeyOf[r]
           w0 == Minute(now)
           counts == res'[r].prepaid /\ admission[r].rpm # NoLimit
<1>1. k0 \in Keys /\ w0 \in Minutes
  BY <1>0, ClockRows, KeysAssumption DEF TypeOK
<1>2. /\ now' = now /\ admission' = admission /\ res[r].status = "none"
      /\ \A q \in Reservations \ {r} : res'[q] = res[q]
      /\ res'[r].status = "reserved" /\ res'[r].window = w0
  <2>1. CASE \E t \in TokenCounts : ReserveUnlimited(r, t)
    BY <1>0, <2>1 DEF ReserveUnlimited, TypeOK, NoRow
  <2>2. CASE \E m \in Holds, t \in TokenCounts, tokensCount \in BOOLEAN :
               ReservePrepaid(r, m, t, tokensCount)
    <3>1. PICK m \in Holds, t \in TokenCounts, tokensCount \in BOOLEAN :
                 ReservePrepaid(r, m, t, tokensCount)
      BY <2>2
    <3>2. /\ now' = now /\ admission' = admission /\ res[r].status = "none"
          /\ \E b : res' = [res EXCEPT ![r] = [NoRow EXCEPT !.status = "reserved",
                 !.micros = m, !.tokens = t, !.window = Minute(now), !.tpmApplied = b]]
      BY <3>1, Zenon DEF ReservePrepaid
    <3> QED
      BY <1>0, <3>2 DEF TypeOK, NoRow
  <2> QED
    BY <2>1, <2>2 DEF Reserve
<1>3. \A k \in Keys, w \in Minutes :
        /\ r \notin RequestRows(k, w) /\ RequestRows(k, w) \subseteq Reservations
        /\ RequestRows(k, w)' = IF k = k0 /\ w = w0 /\ counts
                                THEN RequestRows(k, w) \cup {r} ELSE RequestRows(k, w)
  BY <1>2 DEF RequestRows, Prepaid
<1>4. /\ \A k \in Keys, w \in Minutes : k # k0 \/ w # w0 => rate'[k][w] = rate[k][w]
      /\ \/ ~counts /\ rate' = rate
         \/ /\ rate'[k0][w0].live
            /\ rate'[k0][w0].requests = rate[k0][w0].requests + IF counts THEN 1 ELSE 0
  <2>1. CASE \E t \in TokenCounts : ReserveUnlimited(r, t)
    <3>1. rate' = rate /\ ~res'[r].prepaid
      BY <1>0, <2>1 DEF ReserveUnlimited, TypeOK, NoRow
    <3> QED
      BY <3>1
  <2>2. CASE \E m \in Holds, t \in TokenCounts, tokensCount \in BOOLEAN :
               ReservePrepaid(r, m, t, tokensCount)
    <3>1. PICK m \in Holds, t \in TokenCounts, tokensCount \in BOOLEAN :
                 ReservePrepaid(r, m, t, tokensCount)
      BY <2>2
    <3>2. res'[r].prepaid = TRUE
      BY <1>0, <3>1 DEF ReservePrepaid, TypeOK, NoRow
    <3>3. \/ rate' = rate /\ admission[r].rpm = NoLimit
          \/ \E n : rate' = [rate EXCEPT ![k0][w0] =
               [live |-> TRUE,
                requests |-> rate[k0][w0].requests +
                               IF admission[r].rpm = NoLimit THEN 0 ELSE 1,
                tokens |-> n]]
      BY <3>1, Zenon DEF ReservePrepaid
    <3>4. rate \in [Keys -> [Minutes -> WindowType]]
      BY <1>0 DEF TypeOK
    <3>5. CASE rate' = rate /\ admission[r].rpm = NoLimit
      BY <3>5
    <3>6. ASSUME NEW n,
                 rate' = [rate EXCEPT ![k0][w0] =
                   [live |-> TRUE,
                    requests |-> rate[k0][w0].requests +
                                   IF admission[r].rpm = NoLimit THEN 0 ELSE 1,
                    tokens |-> n]]
          PROVE  /\ \A k \in Keys, w \in Minutes : k # k0 \/ w # w0 => rate'[k][w] = rate[k][w]
                 /\ rate'[k0][w0].live
                 /\ rate'[k0][w0].requests = rate[k0][w0].requests + IF counts THEN 1 ELSE 0
      <4>1. (IF admission[r].rpm = NoLimit THEN 0 ELSE 1) = IF counts THEN 1 ELSE 0
        BY <3>2
      <4> DEFINE one == IF counts THEN 1 ELSE 0
                 new == [live |-> TRUE, requests |-> rate[k0][w0].requests + one, tokens |-> n]
      <4>2. rate' = [rate EXCEPT ![k0][w0] = new]
        BY <3>6, <4>1
      <4>3. new.live = TRUE /\ new.requests = rate[k0][w0].requests + one
        OBVIOUS
      <4> HIDE DEF new, one, k0, w0
      <4>4. rate'[k0][w0] = new
        BY <1>1, <3>4, <4>2
      <4>5. \A k \in Keys, w \in Minutes : k # k0 \/ w # w0 => rate'[k][w] = rate[k][w]
        BY <3>4, <4>2
      <4> QED
        BY <4>3, <4>4, <4>5 DEF one
    <3> QED
      BY <3>3, <3>5, <3>6
  <2> QED
    BY <2>1, <2>2 DEF Reserve
<1> HIDE DEF k0, w0, counts
<1>5. \A k \in Keys, w \in Minutes : rate[k][w].requests \in Nat
  BY <1>0 DEF TypeOK, WindowType
<1>6. w0 >= Minute(now) /\ Minute(now') = Minute(now)
  BY <1>1, <1>2 DEF Minutes, w0, Minute
<1>7. rate[k0][w0].requests = Cardinality(RequestRows(k0, w0))
  <2>1. CASE rate[k0][w0].live
    BY <1>0, <1>1, <2>1 DEF RequestCountsExact
  <2>2. CASE ~rate[k0][w0].live
    <3>1. rate[k0][w0].requests = 0 /\ RequestRows(k0, w0) = {}
      BY <1>0, <1>1, <1>6, <2>2 DEF WindowsCountFromZero
    <3> QED
      BY <3>1, FS_EmptySet
  <2> QED
    BY <2>1, <2>2
<1>8. Cardinality(RequestRows(k0, w0) \cup {r}) = Cardinality(RequestRows(k0, w0)) + 1
  <2>1. IsFiniteSet(RequestRows(k0, w0)) /\ r \notin RequestRows(k0, w0)
    BY <1>1, <1>3, RowsAreFinite
  <2> QED
    BY <2>1, FS_AddElement
<1>9. ASSUME NEW k \in Keys, NEW w \in Minutes, rate'[k][w].live
      PROVE  rate'[k][w].requests = Cardinality(RequestRows(k, w)')
  <2>1. CASE k = k0 /\ w = w0
    <3>1. CASE counts
      BY <1>3, <1>4, <1>7, <1>8, <1>1, <2>1, <3>1
    <3>2. CASE ~counts
      <4>1. RequestRows(k, w)' = RequestRows(k, w)
        BY <1>3, <3>2
      <4>2. rate'[k][w].requests = rate[k][w].requests
        BY <1>1, <1>4, <1>5, <2>1, <3>2
      <4> QED
        BY <1>7, <2>1, <4>1, <4>2
    <3> QED
      BY <3>1, <3>2
  <2>2. CASE ~(k = k0 /\ w = w0)
    <3>1. rate'[k][w] = rate[k][w] /\ RequestRows(k, w)' = RequestRows(k, w)
      BY <1>3, <1>4, <2>2
    <3> QED
      BY <1>0, <1>9, <3>1 DEF RequestCountsExact
  <2> QED
    BY <2>1, <2>2
<1>10. ASSUME NEW k \in Keys, NEW w \in Minutes, ~rate'[k][w].live
       PROVE  /\ rate'[k][w].requests = 0
              /\ w >= Minute(now') => RequestRows(k, w)' = {}
  <2>1. rate'[k][w] = rate[k][w] /\ RequestRows(k, w)' = RequestRows(k, w)
    BY <1>3, <1>4, <1>10
  <2> QED
    BY <1>0, <1>6, <1>10, <2>1 DEF WindowsCountFromZero
<1>11. RequestCountsExact'
  BY <1>9 DEF RequestCountsExact
<1>12. WindowsCountFromZero'
  BY <1>10 DEF WindowsCountFromZero, Minute
<1> QED
  BY <1>11, <1>12 DEF Requested

\* A window that is pruned is over, so its requests are never counted again.
LEMMA RequestedPrune ==
  ASSUME Requested, Admitted', PruneRateWindows
  PROVE  Requested'
<1>0. TypeOK /\ WindowsCountFromZero /\ RequestCountsExact
  BY DEF Requested, Admitted
<1>1. PICK gone \in SUBSET ExpiredWindows :
        rate' = [k \in Keys |-> [w \in Minutes |->
                   IF << k, w >> \in gone THEN NoWindow ELSE rate[k][w]]]
  BY DEF PruneRateWindows
<1>2. res' = res /\ admission' = admission /\ now' = now
  BY DEF PruneRateWindows
<1>3. \A k \in Keys, w \in Minutes :
        /\ RequestRows(k, w)' = RequestRows(k, w)
        /\ << k, w >> \notin gone => rate'[k][w] = rate[k][w]
        /\ << k, w >> \in gone => ~rate'[k][w].live /\ rate'[k][w].requests = 0
  BY <1>1, <1>2 DEF RequestRows, Prepaid, NoWindow
<1>4. ASSUME NEW k \in Keys, NEW w \in Minutes, ~rate'[k][w].live
      PROVE  /\ rate'[k][w].requests = 0
             /\ w >= Minute(now) => RequestRows(k, w)' = {}
  <2>1. CASE << k, w >> \in gone
    BY <1>0, <1>3, <2>1, ExpiredIsOver
  <2>2. CASE << k, w >> \notin gone
    BY <1>0, <1>3, <1>4, <2>2 DEF WindowsCountFromZero
  <2> QED
    BY <2>1, <2>2
<1>5. WindowsCountFromZero'
  BY <1>2, <1>4 DEF WindowsCountFromZero, Minute
<1>6. ASSUME NEW k \in Keys, NEW w \in Minutes, rate'[k][w].live
      PROVE  rate'[k][w].requests = Cardinality(RequestRows(k, w)')
  <2>1. rate'[k][w] = rate[k][w] /\ RequestRows(k, w)' = RequestRows(k, w)
    BY <1>3, <1>6
  <2> QED
    BY <1>0, <1>6, <2>1 DEF RequestCountsExact
<1>7. RequestCountsExact'
  BY <1>6 DEF RequestCountsExact
<1> QED
  BY <1>5, <1>7 DEF Requested

\* Steps that touch no row and no window; a request that is authenticated has
\* no row yet.
LEMMA RequestedFrame ==
  ASSUME Requested, Admitted', res' = res, rate' = rate, now' = now \/ now' = now + 1,
         \A q \in Reservations : admission[q] # NoPolicy => admission'[q] = admission[q]
  PROVE  Requested'
<1>1. \A k \in Keys, w \in Minutes : RequestRows(k, w)' = RequestRows(k, w)
  BY RequestRowsStay DEF Requested, Admitted, RowsAdmitted
<1> QED
  BY <1>1, RequestsStay

\* Every step keeps the request counts.
LEMMA RequestedNext == Requested /\ [Next]_vars => Requested'
<1> SUFFICES ASSUME Requested, [Next]_vars PROVE Requested'
  OBVIOUS
<1>1. Admitted'
  BY AdmittedNext DEF Requested
<1>2. CASE \E r \in Reservations : Reserve(r) \/ Resize(r) \/ Settle(r)
  BY <1>1, <1>2, RequestedReserve, RequestedLater
<1>3. CASE PruneRateWindows
  BY <1>1, <1>3, RequestedPrune
<1>4. CASE \E r \in Reservations : Authenticate(r)
  <2>1. PICK r \in Reservations : Authenticate(r)
    BY <1>4
  <2>2. \A q \in Reservations : admission[q] # NoPolicy => admission'[q] = admission[q]
    BY <2>1 DEF Authenticate, Requested, Admitted, TypeOK
  <2> QED
    BY <1>1, <2>1, <2>2, RequestedFrame DEF Authenticate
<1>5. CASE res' = res /\ rate' = rate /\ admission' = admission /\ (now' = now \/ now' = now + 1)
  BY <1>1, <1>5, RequestedFrame
<1>6. \/ \E r \in Reservations : Reserve(r) \/ Resize(r) \/ Settle(r)
      \/ PruneRateWindows
      \/ \E r \in Reservations : Authenticate(r)
      \/ res' = res /\ rate' = rate /\ admission' = admission /\ (now' = now \/ now' = now + 1)
  BY DEF Next, ProjectMetered, SetPolicy, GrantCredit, ReverseGrant, PruneBudgets, Tick, vars
<1> QED
  BY <1>2, <1>3, <1>4, <1>5, <1>6

\* Every counter that gates admission is always what the reservation rows add
\* up to: a settlement is never refused because its hold is missing from the
\* key's total, the clamp of a rate window never hides a double release, and a
\* window counts each request admitted under a request limit once.
THEOREM CountersExact == Spec => []CountersMatchReservations
<1>1. Counted /\ Requested => CountersMatchReservations
  BY DEF Counted, Requested, CountersMatchReservations
<1> QED
  BY CountedInit, CountedNext, RequestedInit, RequestedNext, <1>1, PTL DEF Spec

-----------------------------------------------------------------------------
\* Booking.  A charge is in the account's usage or waits in the outbox, and in
\* the key's total if it is prepaid.

Actual == [r \in Reservations |-> res[r].actual]
PendingRows(a) == {r \in Reservations : outbox[r] = "pending" /\ Account(r) = a}
PrepaidRows(k) == {r \in Reservations : KeyOf[r] = k /\ Prepaid(r)}
InPending(r) == IF outbox[r] = "pending" THEN res[r].actual ELSE 0
InTotal(r)   == IF Prepaid(r) THEN Charged[r] ELSE 0

\* UsageBookedOnce in these terms.
LEMMA BookedAreSums ==
  UsageBookedOnce <=>
    /\ \A r \in Reservations : usageEntries[r] = IF Settled(r) THEN 1 ELSE 0
    /\ \A a \in Accounts : usage[a] + SumFunctionOnSet(Actual, PendingRows(a))
                             = SumFunctionOnSet(Charged, AccountRows(a))
    /\ \A k \in Keys : keySettled[k] = SumFunctionOnSet(Charged, PrepaidRows(k))
BY DEF UsageBookedOnce, UsageSnapshot, Actual, PendingRows, AccountRows, PrepaidRows

\* One changed row moves the three sums by what it now adds.
LEMMA BookedSums ==
  ASSUME TypeOK, TypeOK', NEW r \in Reservations,
         \A q \in Reservations \ {r} : res'[q] = res[q] /\ outbox'[q] = outbox[q]
  PROVE  /\ \A a \in Accounts :
              /\ SumFunctionOnSet(Actual, PendingRows(a)) \in Int
              /\ SumFunctionOnSet(Charged, AccountRows(a)) \in Int
              /\ SumFunctionOnSet(Actual, PendingRows(a))'
                   = SumFunctionOnSet(Actual, PendingRows(a))
                     + IF a = Account(r) THEN InPending(r)' - InPending(r) ELSE 0
              /\ SumFunctionOnSet(Charged, AccountRows(a))'
                   = SumFunctionOnSet(Charged, AccountRows(a))
                     + IF a = Account(r) THEN Charged'[r] - Charged[r] ELSE 0
         /\ \A k \in Keys :
              /\ SumFunctionOnSet(Charged, PrepaidRows(k)) \in Int
              /\ SumFunctionOnSet(Charged, PrepaidRows(k))'
                   = SumFunctionOnSet(Charged, PrepaidRows(k))
                     + IF k = KeyOf[r] THEN InTotal(r)' - InTotal(r) ELSE 0
         /\ InPending(r) \in Int /\ InPending(r)' \in Int
         /\ Charged[r] \in Int /\ Charged'[r] \in Int
         /\ InTotal(r) \in Int /\ InTotal(r)' \in Int
<1>1. /\ \A q \in Reservations : Actual[q] \in Int /\ Actual'[q] \in Int
      /\ \A q \in Reservations : Charged[q] \in Int /\ Charged'[q] \in Int
  BY DEF Actual, Charged, TypeOK, ReservationType
<1>2. \A q \in Reservations \ {r} : Actual[q] = Actual'[q] /\ Charged[q] = Charged'[q]
  BY DEF Actual, Charged
<1>3. /\ InPending(r) \in Int /\ InPending(r)' \in Int
      /\ InTotal(r) \in Int /\ InTotal(r)' \in Int
  BY <1>1 DEF InPending, InTotal, TypeOK, ReservationType
<1>5. ASSUME NEW a \in Accounts
      PROVE  /\ SumFunctionOnSet(Actual, PendingRows(a)) \in Int
             /\ SumFunctionOnSet(Actual, PendingRows(a))'
                  = SumFunctionOnSet(Actual, PendingRows(a))
                    + IF a = Account(r) THEN InPending(r)' - InPending(r) ELSE 0
  <2> DEFINE S == PendingRows(a)
             T == PendingRows(a)'
             f == Actual
             g == Actual'
  <2>1. S \in SUBSET Reservations /\ T \in SUBSET Reservations /\ S \ {r} = T \ {r}
    BY DEF PendingRows
  <2>2. /\ (IF r \in S THEN f[r] ELSE 0) = IF a = Account(r) THEN InPending(r) ELSE 0
        /\ (IF r \in T THEN g[r] ELSE 0) = IF a = Account(r) THEN InPending(r)' ELSE 0
    BY DEF PendingRows, InPending, Actual
  <2>3. /\ \A q \in Reservations : f[q] \in Int /\ g[q] \in Int
        /\ \A q \in Reservations \ {r} : f[q] = g[q]
    BY <1>1, <1>2
  <2> HIDE DEF S, T, f, g
  <2>4. /\ SumFunctionOnSet(f, S) \in Int
        /\ SumFunctionOnSet(g, T) = SumFunctionOnSet(f, S)
              + (IF r \in T THEN g[r] ELSE 0) - (IF r \in S THEN f[r] ELSE 0)
    <3>1. IsFiniteSet(S) /\ IsFiniteSet(T)
      BY <2>1, RowsAreFinite
    <3>2. /\ \A q \in S : f[q] \in Int
          /\ \A q \in T : g[q] \in Int
          /\ \A q \in S \ {r} : f[q] = g[q]
      BY <2>1, <2>3
    <3> QED
      BY <2>1, <3>1, <3>2, SumOneRow
  <2>5. SumFunctionOnSet(g, T) = SumFunctionOnSet(f, S)
              + IF a = Account(r) THEN InPending(r)' - InPending(r) ELSE 0
    BY <1>3, <2>2, <2>4
  <2> QED
    BY <2>4, <2>5 DEF S, T, f, g
<1>6. ASSUME NEW a \in Accounts
      PROVE  /\ SumFunctionOnSet(Charged, AccountRows(a)) \in Int
             /\ SumFunctionOnSet(Charged, AccountRows(a))'
                  = SumFunctionOnSet(Charged, AccountRows(a))
                    + IF a = Account(r) THEN Charged'[r] - Charged[r] ELSE 0
  <2> DEFINE S == AccountRows(a)
             f == Charged
             g == Charged'
  <2>1. S \in SUBSET Reservations /\ AccountRows(a)' = S /\ (r \in S <=> a = Account(r))
    BY DEF AccountRows
  <2>2. /\ \A q \in Reservations : f[q] \in Int /\ g[q] \in Int
        /\ \A q \in Reservations \ {r} : f[q] = g[q]
    BY <1>1, <1>2
  <2> HIDE DEF S, f, g
  <2>3. /\ SumFunctionOnSet(f, S) \in Int
        /\ SumFunctionOnSet(g, S) = SumFunctionOnSet(f, S)
              + (IF r \in S THEN g[r] ELSE 0) - (IF r \in S THEN f[r] ELSE 0)
    <3>1. IsFiniteSet(S)
      BY <2>1, RowsAreFinite
    <3>2. /\ \A q \in S : f[q] \in Int /\ g[q] \in Int
          /\ \A q \in S \ {r} : f[q] = g[q]
      BY <2>1, <2>2
    <3> QED
      BY <3>1, <3>2, SumOneRow
  <2>4. SumFunctionOnSet(g, S) = SumFunctionOnSet(f, S)
              + IF a = Account(r) THEN g[r] - f[r] ELSE 0
    BY <2>1, <2>2, <2>3
  <2> QED
    BY <2>1, <2>3, <2>4 DEF S, f, g
<1>7. ASSUME NEW k \in Keys
      PROVE  /\ SumFunctionOnSet(Charged, PrepaidRows(k)) \in Int
             /\ SumFunctionOnSet(Charged, PrepaidRows(k))'
                  = SumFunctionOnSet(Charged, PrepaidRows(k))
                    + IF k = KeyOf[r] THEN InTotal(r)' - InTotal(r) ELSE 0
  <2> DEFINE S == PrepaidRows(k)
             T == PrepaidRows(k)'
             f == Charged
             g == Charged'
  <2>1. S \in SUBSET Reservations /\ T \in SUBSET Reservations /\ S \ {r} = T \ {r}
    BY DEF PrepaidRows
  <2>2. /\ (IF r \in S THEN f[r] ELSE 0) = IF k = KeyOf[r] THEN InTotal(r) ELSE 0
        /\ (IF r \in T THEN g[r] ELSE 0) = IF k = KeyOf[r] THEN InTotal(r)' ELSE 0
    BY DEF PrepaidRows, InTotal
  <2>3. /\ \A q \in Reservations : f[q] \in Int /\ g[q] \in Int
        /\ \A q \in Reservations \ {r} : f[q] = g[q]
    BY <1>1, <1>2
  <2> HIDE DEF S, T, f, g
  <2>4. /\ SumFunctionOnSet(f, S) \in Int
        /\ SumFunctionOnSet(g, T) = SumFunctionOnSet(f, S)
              + (IF r \in T THEN g[r] ELSE 0) - (IF r \in S THEN f[r] ELSE 0)
    <3>1. IsFiniteSet(S) /\ IsFiniteSet(T)
      BY <2>1, RowsAreFinite
    <3>2. /\ \A q \in S : f[q] \in Int
          /\ \A q \in T : g[q] \in Int
          /\ \A q \in S \ {r} : f[q] = g[q]
      BY <2>1, <2>3
    <3> QED
      BY <2>1, <3>1, <3>2, SumOneRow
  <2>5. SumFunctionOnSet(g, T) = SumFunctionOnSet(f, S)
              + IF k = KeyOf[r] THEN InTotal(r)' - InTotal(r) ELSE 0
    BY <1>3, <2>2, <2>4
  <2> QED
    BY <2>4, <2>5 DEF S, T, f, g
<1> QED
  BY <1>1, <1>3, <1>5, <1>6, <1>7

\* Only settled unlimited reservations have queued a projection.
OutboxIsOrderly ==
  \A r \in Reservations : outbox[r] # "none" => Settled(r) /\ ~Prepaid(r)
Booked == TypeOK /\ OutboxIsOrderly /\ UsageBookedOnce

\* One row changes; u joins the account's usage and v the key's total.
LEMMA BookedStep ==
  ASSUME Booked, TypeOK', NEW r \in Reservations,
         \A q \in Reservations \ {r} : /\ res'[q] = res[q] /\ outbox'[q] = outbox[q]
                                       /\ usageEntries'[q] = usageEntries[q],
         NEW u \in Int, NEW v \in Int,
         \A a \in Accounts : usage'[a] = usage[a] + IF a = Account(r) THEN u ELSE 0,
         \A k \in Keys : keySettled'[k] = keySettled[k] + IF k = KeyOf[r] THEN v ELSE 0,
         u + InPending(r)' - InPending(r) = Charged'[r] - Charged[r],
         v = InTotal(r)' - InTotal(r),
         usageEntries'[r] = IF Settled(r)' THEN 1 ELSE 0
  PROVE  UsageBookedOnce'
<1>0. TypeOK /\ UsageBookedOnce
  BY DEF Booked
<1>1. /\ \A q \in Reservations : usageEntries[q] = IF Settled(q) THEN 1 ELSE 0
      /\ \A a \in Accounts : usage[a] + SumFunctionOnSet(Actual, PendingRows(a))
                               = SumFunctionOnSet(Charged, AccountRows(a))
      /\ \A k \in Keys : keySettled[k] = SumFunctionOnSet(Charged, PrepaidRows(k))
  BY <1>0, BookedAreSums
<1>2. /\ \A a \in Accounts : usage[a] \in Int
      /\ \A k \in Keys : keySettled[k] \in Int
  BY <1>0 DEF TypeOK
<1>3. ASSUME NEW a \in Accounts
      PROVE  usage'[a] + SumFunctionOnSet(Actual, PendingRows(a))'
               = SumFunctionOnSet(Charged, AccountRows(a))'
  <2> DEFINE p == SumFunctionOnSet(Actual, PendingRows(a))
             c == SumFunctionOnSet(Charged, AccountRows(a))
             x == InPending(r)
             y == InPending(r)'
             e == Charged[r]
             g == Charged'[r]
  <2>1. /\ p \in Int /\ c \in Int /\ x \in Int /\ y \in Int /\ e \in Int /\ g \in Int
        /\ p' = p + IF a = Account(r) THEN y - x ELSE 0
        /\ c' = c + IF a = Account(r) THEN g - e ELSE 0
    BY <1>0, BookedSums
  <2>2. usage[a] + p = c /\ u + y - x = g - e
    BY <1>1
  <2> DEFINE pp == p'
             cp == c'
  <2>3. /\ pp = p + IF a = Account(r) THEN y - x ELSE 0
        /\ cp = c + IF a = Account(r) THEN g - e ELSE 0
    BY <2>1
  <2> HIDE DEF p, c, x, y, e, g, pp, cp
  <2>4. usage'[a] + pp = cp
    BY <1>2, <2>1, <2>2, <2>3
  <2> QED
    BY <2>4 DEF pp, cp, p, c
<1>4. ASSUME NEW k \in Keys
      PROVE  keySettled'[k] = SumFunctionOnSet(Charged, PrepaidRows(k))'
  <2>1. /\ SumFunctionOnSet(Charged, PrepaidRows(k)) \in Int
        /\ SumFunctionOnSet(Charged, PrepaidRows(k))'
             = SumFunctionOnSet(Charged, PrepaidRows(k))
               + IF k = KeyOf[r] THEN InTotal(r)' - InTotal(r) ELSE 0
    BY <1>0, BookedSums
  <2> QED
    BY <1>1, <2>1
<1>5. \A q \in Reservations : usageEntries'[q] = IF Settled(q)' THEN 1 ELSE 0
  BY <1>1
<1> QED
  BY <1>3, <1>4, <1>5
     DEF UsageBookedOnce, UsageSnapshot, Actual, PendingRows, AccountRows, PrepaidRows

\* Nothing is booked at first.
LEMMA BookedInit == Init => Booked
<1> SUFFICES ASSUME Init PROVE Booked
  OBVIOUS
<1>1. TypeOK
  BY TypeInit
<1>2. OutboxIsOrderly
  BY DEF Init, OutboxIsOrderly
<1>3. \A r \in Reservations : Charged[r] = 0 /\ usageEntries[r] = 0 /\ ~Settled(r)
  BY DEF Init, Charged, NoRow
<1>4. \A S \in SUBSET Reservations : SumFunctionOnSet(Charged, S) = 0
  BY <1>3, RowsAreFinite, SumOfZeros
<1>5. ASSUME NEW a \in Accounts
      PROVE  usage[a] + SumFunctionOnSet(Actual, PendingRows(a))
               = SumFunctionOnSet(Charged, AccountRows(a))
  <2>1. PendingRows(a) = {} /\ AccountRows(a) \in SUBSET Reservations /\ usage[a] = 0
    BY DEF Init, PendingRows, AccountRows
  <2>2. SumFunctionOnSet(Actual, {}) = 0
    BY SumStep, FS_EmptySet
  <2> QED
    BY <1>4, <2>1, <2>2
<1>6. ASSUME NEW k \in Keys PROVE keySettled[k] = SumFunctionOnSet(Charged, PrepaidRows(k))
  <2>1. PrepaidRows(k) \in SUBSET Reservations /\ keySettled[k] = 0
    BY DEF Init, PrepaidRows
  <2> QED
    BY <1>4, <2>1
<1>7. UsageBookedOnce
  BY <1>3, <1>5, <1>6, BookedAreSums
<1> QED
  BY <1>1, <1>2, <1>7 DEF Booked

\* Row r changes and stays unsettled, no total moves.
BooksNothing(r) ==
  /\ \A q \in Reservations \ {r} : res'[q] = res[q]
  /\ usage' = usage /\ keySettled' = keySettled /\ usageEntries' = usageEntries
  /\ outbox' = outbox /\ ~Settled(r) /\ ~Settled(r)'

\* Reserving and resizing book nothing.
LEMMA BookedHold ==
  ASSUME Booked, TypeOK', NEW r \in Reservations, Reserve(r) \/ Resize(r)
  PROVE  Booked'
<1>0. TypeOK /\ OutboxIsOrderly /\ UsageBookedOnce
  BY DEF Booked
<1>1. BooksNothing(r)
  <2> USE DEF BooksNothing
  <2>1. res \in [Reservations -> ReservationType] /\ res[r] \in ReservationType
    BY <1>0 DEF TypeOK
  <2>2. ASSUME NEW t, ReserveUnlimited(r, t) PROVE BooksNothing(r)
    BY <2>1, <2>2 DEF ReserveUnlimited, NoRow, budgetVars
  <2>3. ASSUME NEW m, NEW t, NEW b, ReservePrepaid(r, m, t, b) PROVE BooksNothing(r)
    BY <2>1, <2>3 DEF ReservePrepaid, NoRow
  <2>4. ASSUME NEW t, ResizeUnlimited(r, t) PROVE BooksNothing(r)
    BY <2>1, <2>4 DEF ResizeUnlimited, ReservationType, budgetVars
  <2>5. ASSUME NEW m, NEW t, ResizePrepaid(r, m, t) PROVE BooksNothing(r)
    <3>1. res' = [res EXCEPT ![r].micros = m, ![r].tokens = t] /\ res[r].status = "reserved"
      BY <2>5 DEF ResizePrepaid
    <3>2. res'[r] = [res[r] EXCEPT !.micros = m, !.tokens = t]
      BY <2>1, <3>1
    <3>3. res'[r].status = res[r].status
      BY <2>1, <3>2 DEF ReservationType
    <3>4. \A q \in Reservations \ {r} : res'[q] = res[q]
      BY <2>1, <3>1
    <3> QED
      BY <2>5, <3>1, <3>3, <3>4 DEF ResizePrepaid
  <2> QED
    BY <2>2, <2>3, <2>4, <2>5 DEF Reserve, Resize
<1>2. ~Settled(r) /\ ~Settled(r)'
  BY <1>1 DEF BooksNothing
<1>3. outbox[r] = "none"
  BY <1>0, <1>2 DEF OutboxIsOrderly
<1>4. OutboxIsOrderly'
  BY <1>0, <1>1, <1>2, <1>3 DEF OutboxIsOrderly, BooksNothing
<1>5. /\ Charged[r] = 0 /\ Charged'[r] = 0 /\ InTotal(r) = 0 /\ InTotal(r)' = 0
      /\ InPending(r) = 0 /\ InPending(r)' = 0
  BY <1>1, <1>2, <1>3 DEF BooksNothing, Charged, InTotal, InPending
<1>6. usageEntries[r] = 0
  BY <1>0, <1>2 DEF UsageBookedOnce
<1>7. /\ \A a \in Accounts : usage[a] \in Int
      /\ \A k \in Keys : keySettled[k] \in Int
  BY <1>0 DEF TypeOK
<1>8. UsageBookedOnce'
  BY <1>1, <1>2, <1>5, <1>6, <1>7, BookedStep DEF BooksNothing
<1> QED
  BY <1>4, <1>8 DEF Booked

\* A settlement books its charge once: at once if prepaid, in the outbox if
\* metered.
LEMMA BookedSettle ==
  ASSUME Booked, TypeOK', NEW r \in Reservations, Settle(r)
  PROVE  Booked'
<1>0. TypeOK /\ OutboxIsOrderly /\ UsageBookedOnce
  BY DEF Booked
<1>1. PICK calculated \in Charges, t \in TokenCounts :
             \/ SettlePrepaid(r, calculated, t)
             \/ SettleUnlimited(r, calculated, t)
  BY DEF Settle
<1>2. calculated \in Nat /\ res[r] \in ReservationType /\ res[r].status = "reserved"
  BY <1>0, <1>1, AmountAssumption DEF TypeOK, SettlePrepaid, SettleUnlimited
<1>3. ASSUME NEW actual, res' = [res EXCEPT ![r].status = "settled", ![r].actual = actual,
                                            ![r].used = t, ![r].settledAt = now]
      PROVE  /\ \A q \in Reservations \ {r} : res'[q] = res[q]
             /\ res'[r].status = "settled" /\ res'[r].actual = actual
             /\ res'[r].prepaid = res[r].prepaid
  <2>1. /\ \A q \in Reservations \ {r} : res'[q] = res[q]
        /\ res'[r] = [res[r] EXCEPT !.status = "settled", !.actual = actual,
                                    !.used = t, !.settledAt = now]
    BY <1>0, <1>3 DEF TypeOK
  <2>2. res'[r].status = "settled" /\ res'[r].actual = actual
    BY <1>2, <2>1 DEF ReservationType
  <2>3. res'[r].prepaid = res[r].prepaid
    BY <1>2, <2>1 DEF ReservationType
  <2> QED
    BY <2>1, <2>2, <2>3
<1>4. /\ outbox[r] = "none" /\ usageEntries[r] = 0
      /\ Charged[r] = 0 /\ InTotal(r) = 0 /\ InPending(r) = 0
  BY <1>0, <1>2 DEF OutboxIsOrderly, UsageBookedOnce, Charged, InTotal, InPending
<1>5. /\ \A a \in Accounts : usage[a] \in Int
      /\ \A k \in Keys : keySettled[k] \in Int
  BY <1>0 DEF TypeOK
<1>6. CASE SettleUnlimited(r, calculated, t)
  <2>1. /\ \A q \in Reservations \ {r} : res'[q] = res[q]
        /\ res'[r].status = "settled" /\ res'[r].actual = calculated
        /\ ~res'[r].prepaid
    <3>1. res' = [res EXCEPT ![r].status = "settled", ![r].actual = calculated,
                             ![r].used = t, ![r].settledAt = now]
      BY <1>6 DEF SettleUnlimited
    <3>2. ~res[r].prepaid
      BY <1>6 DEF SettleUnlimited
    <3> QED
      BY <1>3, <3>1, <3>2
  <2>2. /\ outbox'[r] = "pending" /\ usageEntries'[r] = 1
        /\ \A q \in Reservations \ {r} : outbox'[q] = outbox[q] /\ usageEntries'[q] = usageEntries[q]
        /\ usage' = usage /\ keySettled' = keySettled
    BY <1>0, <1>4, <1>6 DEF SettleUnlimited, TypeOK, Larger, budgetVars
  <2>3. OutboxIsOrderly'
    BY <1>0, <2>1, <2>2 DEF OutboxIsOrderly
  <2>4. Charged'[r] = calculated /\ InTotal(r)' = 0 /\ InPending(r)' = calculated
    BY <2>1, <2>2 DEF Charged, InTotal, InPending
  <2>5. UsageBookedOnce'
    BY <1>2, <1>4, <1>5, <2>1, <2>2, <2>4, BookedStep
  <2> QED
    BY <2>3, <2>5 DEF Booked
<1>7. CASE SettlePrepaid(r, calculated, t)
  <2>1. PICK actual \in 0 .. calculated : BookCharge(r, actual, t)
    BY <1>7 DEF SettlePrepaid
  <2>2. actual \in Int /\ res[r].prepaid /\ outbox' = outbox
    BY <1>2, <1>7 DEF SettlePrepaid
  <2>3. /\ \A q \in Reservations \ {r} : res'[q] = res[q]
        /\ res'[r].status = "settled" /\ res'[r].actual = actual
        /\ res'[r].prepaid
    <3>1. res' = [res EXCEPT ![r].status = "settled", ![r].actual = actual,
                             ![r].used = t, ![r].settledAt = now]
      BY <2>1 DEF BookCharge
    <3> QED
      BY <1>3, <2>2, <3>1
  <2>4. /\ usageEntries'[r] = 1
        /\ \A q \in Reservations \ {r} : usageEntries'[q] = usageEntries[q]
    BY <1>0, <1>4, <2>1 DEF BookCharge, TypeOK
  <2>5. /\ \A a \in Accounts : usage'[a] = usage[a] + IF a = Account(r) THEN actual ELSE 0
        /\ \A k \in Keys : keySettled'[k] = keySettled[k] + IF k = KeyOf[r] THEN actual ELSE 0
    BY <1>0, <1>5, <2>1 DEF BookCharge, TypeOK
  <2>6. OutboxIsOrderly'
    BY <1>0, <1>4, <2>2, <2>3 DEF OutboxIsOrderly
  <2>7. Charged'[r] = actual /\ InTotal(r)' = actual /\ InPending(r)' = 0
    BY <1>4, <2>2, <2>3 DEF Charged, InTotal, InPending
  <2>8. UsageBookedOnce'
    BY <1>4, <2>2, <2>3, <2>4, <2>5, <2>7, BookedStep
  <2> QED
    BY <2>6, <2>8 DEF Booked
<1> QED
  BY <1>1, <1>6, <1>7

\* The projector moves a charge from the queue to the usage.
LEMMA BookedProject ==
  ASSUME Booked, TypeOK', NEW r \in Reservations, ProjectMetered(r)
  PROVE  Booked'
<1>0. TypeOK /\ OutboxIsOrderly /\ UsageBookedOnce
  BY DEF Booked
<1>1. /\ res' = res /\ usageEntries' = usageEntries /\ keySettled' = keySettled
      /\ outbox[r] = "pending" /\ outbox'[r] = "projected"
      /\ \A q \in Reservations \ {r} : outbox'[q] = outbox[q]
  BY <1>0 DEF ProjectMetered, TypeOK, budgetVars
<1> DEFINE x == res[r].actual
<1>2. x \in Int /\ KeyOf[r] \in Keys
  BY <1>0, KeysAssumption DEF TypeOK, ReservationType
<1>3. \A a \in Accounts : usage'[a] = usage[a] + IF a = Account(r) THEN x ELSE 0
  BY <1>0, <1>2 DEF ProjectMetered, TypeOK
<1>4. /\ InPending(r) = x /\ InPending(r)' = 0 /\ Charged'[r] = Charged[r]
      /\ InTotal(r)' = InTotal(r) /\ Charged[r] \in Int /\ InTotal(r) \in Int
  BY <1>0, <1>1 DEF InPending, InTotal, Charged, TypeOK, ReservationType
<1>5. \A k \in Keys : keySettled[k] \in Int
  BY <1>0 DEF TypeOK
<1>6. usageEntries'[r] = IF Settled(r)' THEN 1 ELSE 0
  BY <1>0, <1>1 DEF UsageBookedOnce
<1> HIDE DEF x
<1>7. /\ x + InPending(r)' - InPending(r) = Charged'[r] - Charged[r]
      /\ 0 = InTotal(r)' - InTotal(r)
      /\ \A k \in Keys : keySettled'[k] = keySettled[k] + IF k = KeyOf[r] THEN 0 ELSE 0
  BY <1>1, <1>2, <1>4, <1>5
<1>8. UsageBookedOnce'
  BY <1>1, <1>2, <1>3, <1>6, <1>7, BookedStep
<1>9. OutboxIsOrderly'
  BY <1>0, <1>1 DEF OutboxIsOrderly
<1> QED
  BY <1>8, <1>9 DEF Booked

\* Every step books each charge once.
LEMMA BookedNext == Booked /\ [Next]_vars => Booked'
<1> SUFFICES ASSUME Booked, [Next]_vars PROVE Booked'
  OBVIOUS
<1>1. TypeOK'
  BY TypeNext DEF Booked
<1>2. CASE \E r \in Reservations : Reserve(r) \/ Resize(r) \/ Settle(r) \/ ProjectMetered(r)
  BY <1>1, <1>2, BookedHold, BookedSettle, BookedProject
<1>3. CASE /\ res' = res /\ usage' = usage /\ keySettled' = keySettled
           /\ usageEntries' = usageEntries /\ outbox' = outbox
  <2>1. OutboxIsOrderly' /\ UsageBookedOnce'
    BY <1>3 DEF Booked, OutboxIsOrderly, UsageBookedOnce, UsageSnapshot, Charged
  <2> QED
    BY <1>1, <2>1 DEF Booked
<1>4. \/ \E r \in Reservations : Reserve(r) \/ Resize(r) \/ Settle(r) \/ ProjectMetered(r)
      \/ /\ res' = res /\ usage' = usage /\ keySettled' = keySettled
         /\ usageEntries' = usageEntries /\ outbox' = outbox
  BY DEF Next, Authenticate, SetPolicy, GrantCredit, ReverseGrant, PruneBudgets,
         PruneRateWindows, Tick, budgetVars, vars
<1> QED
  BY <1>2, <1>3, <1>4

\* Every settled reservation is booked exactly once, whether its charge is in
\* the account's usage already or still waits for the projector.
THEOREM ChargesBookedOnce == Spec => []UsageBookedOnce
<1>1. Booked => UsageBookedOnce
  BY DEF Booked
<1> QED
  BY BookedInit, BookedNext, <1>1, PTL DEF Spec

-----------------------------------------------------------------------------
\* Reversals.  The usage a grant remembers is the sum of the charges that were
\* taken before it, and those charges never change.

ChargedBefore(g) == {r \in grant[g].charged : Account(r) = grant[g].account}
GrantsRemember ==
  \A g \in Grants : grant[g].status = "granted" =>
    /\ \A r \in grant[g].charged : Settled(r)
    /\ snapshot[g] = SumFunctionOnSet(Charged, ChargedBefore(g))
Remembered == Booked /\ GrantsRemember

\* A settled row is never written again.
LEMMA SettledStays ==
  ASSUME TypeOK, [Next]_vars, NEW r \in Reservations, Settled(r)
  PROVE  res'[r] = res[r]
<1>1. ASSUME NEW q \in Reservations, Reserve(q) PROVE res'[r] = res[r]
  BY <1>1 DEF Reserve, ReserveUnlimited, ReservePrepaid, TypeOK
<1>2. ASSUME NEW q \in Reservations, Resize(q) PROVE res'[r] = res[r]
  BY <1>2 DEF Resize, ResizeUnlimited, ResizePrepaid, TypeOK
<1>3. ASSUME NEW q \in Reservations, Settle(q) PROVE res'[r] = res[r]
  <2>1. res[q].status = "reserved" /\ \E actual, t :
          res' = [res EXCEPT ![q].status = "settled", ![q].actual = actual,
                             ![q].used = t, ![q].settledAt = now]
    <3>1. PICK calculated \in Charges, t \in TokenCounts :
                 SettlePrepaid(q, calculated, t) \/ SettleUnlimited(q, calculated, t)
      BY <1>3 DEF Settle
    <3>2. res[q].status = "reserved"
      BY <3>1 DEF SettlePrepaid, SettleUnlimited
    <3>3. PICK actual : res' = [res EXCEPT ![q].status = "settled", ![q].actual = actual,
                                           ![q].used = t, ![q].settledAt = now]
      BY <3>1 DEF SettlePrepaid, SettleUnlimited, BookCharge
    <3> QED
      BY <3>2, <3>3
  <2>2. q # r
    BY <2>1
  <2> QED
    BY <2>1, <2>2 DEF TypeOK
<1>4. CASE res' = res
  BY <1>4
<1>5. (\E q \in Reservations : Reserve(q) \/ Resize(q) \/ Settle(q)) \/ res' = res
  BY DEF Next, Authenticate, ProjectMetered, SetPolicy, GrantCredit, ReverseGrant,
         PruneBudgets, PruneRateWindows, Tick, vars
<1> QED
  BY <1>1, <1>2, <1>3, <1>4, <1>5

\* So what a grant remembers stays true of the rows.
LEMMA MemoryStays ==
  ASSUME TypeOK, TypeOK', [Next]_vars, NEW g \in Grants, grant'[g] = grant[g],
         snapshot'[g] = snapshot[g], \A r \in grant[g].charged : Settled(r),
         snapshot[g] = SumFunctionOnSet(Charged, ChargedBefore(g))
  PROVE  /\ \A r \in grant'[g].charged : Settled(r)'
         /\ snapshot'[g] = SumFunctionOnSet(Charged, ChargedBefore(g))'
<1> DEFINE S == ChargedBefore(g)
           f == Charged
           h == Charged'
<1>1. grant[g].charged \in SUBSET Reservations
  BY DEF TypeOK, GrantType
<1>2. \A r \in grant[g].charged : res'[r] = res[r]
  BY <1>1, SettledStays
<1>3. S \in SUBSET Reservations /\ ChargedBefore(g)' = S /\ S \subseteq grant[g].charged
  BY <1>1 DEF ChargedBefore
<1>4. \A r \in S : f[r] = h[r]
  BY <1>2, <1>3 DEF Charged
<1>5. IsFiniteSet(S)
  BY <1>3, RowsAreFinite
<1>6. snapshot[g] = SumFunctionOnSet(f, S)
  OBVIOUS
<1> HIDE DEF S, f, h
<1>7. SumFunctionOnSet(f, S) = SumFunctionOnSet(h, S)
  BY <1>4, <1>5, SumOfSame
<1>8. snapshot'[g] = SumFunctionOnSet(h, ChargedBefore(g)')
  BY <1>3, <1>6, <1>7
<1>9. \A r \in grant'[g].charged : Settled(r)'
  BY <1>1, <1>2
<1> QED
  BY <1>8, <1>9 DEF h

\* A new grant remembers the account's usage, queued charges included.
LEMMA GrantRemembers ==
  ASSUME Booked, NEW g \in Grants, NEW a \in Accounts, NEW m \in GrantAmounts,
         GrantCredit(a, g, m)
  PROVE  /\ \A r \in grant'[g].charged : Settled(r)'
         /\ snapshot'[g] = SumFunctionOnSet(Charged, ChargedBefore(g))'
<1>0. TypeOK /\ UsageBookedOnce
  BY DEF Booked
<1>1. /\ res' = res /\ snapshot'[g] = UsageSnapshot(a)
      /\ grant'[g].account = a /\ grant'[g].charged = {r \in Reservations : Settled(r)}
  BY <1>0 DEF GrantCredit, TypeOK
<1> DEFINE S == AccountRows(a)
           A == {r \in S : Settled(r)}
           f == Charged
<1>2. /\ ChargedBefore(g)' = A /\ Charged' = f
      /\ S \in SUBSET Reservations /\ A \in SUBSET S
  BY <1>1 DEF ChargedBefore, AccountRows, Charged
<1>3. /\ \A r \in S : f[r] \in Int
      /\ \A r \in S \ A : f[r] = 0
  BY <1>0 DEF Charged, AccountRows, TypeOK, ReservationType
<1>4. IsFiniteSet(S)
  BY <1>2, RowsAreFinite
<1>5. UsageSnapshot(a) = SumFunctionOnSet(f, S)
  BY <1>0 DEF UsageBookedOnce, AccountRows
<1> HIDE DEF S, A, f
<1>6. SumFunctionOnSet(f, S) = SumFunctionOnSet(f, A)
  BY <1>2, <1>3, <1>4, SumOfSome
<1>7. snapshot'[g] = SumFunctionOnSet(Charged', ChargedBefore(g)')
  BY <1>1, <1>2, <1>5, <1>6
<1>8. \A r \in grant'[g].charged : Settled(r)'
  BY <1>1
<1> QED
  BY <1>7, <1>8

\* Only the credit operations write grants.
LEMMA GrantsMove ==
  ASSUME [Next]_vars
  PROVE  \/ \E g \in Grants : \/ \E a \in Accounts, m \in GrantAmounts : GrantCredit(a, g, m)
                              \/ ReverseGrant(g)
         \/ grant' = grant /\ snapshot' = snapshot
<1> DEFINE Still == grant' = grant /\ snapshot' = snapshot
<1>1. ASSUME NEW r \in Reservations, Reserve(r) PROVE Still
  BY <1>1 DEF Reserve, ReserveUnlimited, ReservePrepaid, grantVars
<1>2. ASSUME NEW r \in Reservations, Resize(r) PROVE Still
  BY <1>2 DEF Resize, ResizeUnlimited, ResizePrepaid, grantVars
<1>3. ASSUME NEW r \in Reservations, Settle(r) PROVE Still
  BY <1>3 DEF Settle, SettlePrepaid, SettleUnlimited, grantVars
<1>4. ASSUME NEW r \in Reservations, Authenticate(r) \/ ProjectMetered(r) PROVE Still
  BY <1>4 DEF Authenticate, ProjectMetered, grantVars
<1>5. ASSUME NEW k \in Keys, NEW p \in Policies, SetPolicy(k, p) PROVE Still
  BY <1>5 DEF SetPolicy, grantVars
<1>6. CASE PruneBudgets \/ PruneRateWindows \/ Tick
  BY <1>6 DEF PruneBudgets, PruneRateWindows, Tick, grantVars
<1>7. CASE UNCHANGED vars
  BY <1>7 DEF vars
<1> QED
  BY <1>1, <1>2, <1>3, <1>4, <1>5, <1>6, <1>7 DEF Next

\* There are no grants at first.
LEMMA RememberedInit == Init => Remembered
BY BookedInit DEF Init, Remembered, GrantsRemember, NoGrant

\* Every step keeps what grants remember.
LEMMA RememberedNext == Remembered /\ [Next]_vars => Remembered'
<1> SUFFICES ASSUME Remembered, [Next]_vars PROVE GrantsRemember'
  BY BookedNext DEF Remembered
<1>0. Booked /\ GrantsRemember /\ TypeOK /\ TypeOK'
  BY TypeNext DEF Remembered, Booked
<1>1. ASSUME NEW g \in Grants, grant'[g] = grant[g], snapshot'[g] = snapshot[g],
             grant'[g].status = "granted"
      PROVE  /\ \A r \in grant'[g].charged : Settled(r)'
             /\ snapshot'[g] = SumFunctionOnSet(Charged, ChargedBefore(g))'
  <2>1. /\ \A r \in grant[g].charged : Settled(r)
        /\ snapshot[g] = SumFunctionOnSet(Charged, ChargedBefore(g))
    BY <1>0, <1>1 DEF GrantsRemember
  <2> QED
    BY <1>0, <1>1, <2>1, MemoryStays
<1>2. ASSUME NEW g \in Grants, NEW a \in Accounts, NEW m \in GrantAmounts, GrantCredit(a, g, m)
      PROVE  GrantsRemember'
  <2>1. \A h \in Grants \ {g} : grant'[h] = grant[h] /\ snapshot'[h] = snapshot[h]
    BY <1>0, <1>2 DEF GrantCredit, TypeOK
  <2>2. /\ \A r \in grant'[g].charged : Settled(r)'
        /\ snapshot'[g] = SumFunctionOnSet(Charged, ChargedBefore(g))'
    BY <1>0, <1>2, GrantRemembers
  <2> QED
    BY <1>1, <2>1, <2>2 DEF GrantsRemember
<1>3. ASSUME NEW g \in Grants, ReverseGrant(g) PROVE GrantsRemember'
  <2>1. \A h \in Grants \ {g} : grant'[h] = grant[h] /\ snapshot'[h] = snapshot[h]
    BY <1>0, <1>3 DEF ReverseGrant, TypeOK
  <2>2. grant[g] \in GrantType /\ grant'[g] = [grant[g] EXCEPT !.status = "reversed"]
    BY <1>0, <1>3 DEF ReverseGrant, TypeOK
  <2>3. grant'[g].status # "granted"
    BY <2>2 DEF GrantType
  <2> QED
    BY <1>1, <2>1, <2>3 DEF GrantsRemember
<1>4. CASE grant' = grant /\ snapshot' = snapshot
  BY <1>1, <1>4 DEF GrantsRemember
<1>5. \/ \E g \in Grants : \/ \E a \in Accounts, m \in GrantAmounts : GrantCredit(a, g, m)
                           \/ ReverseGrant(g)
      \/ grant' = grant /\ snapshot' = snapshot
  BY GrantsMove
<1> QED
  BY <1>2, <1>3, <1>4, <1>5

\* If the usage of an account is what it was when credit was granted, the charges
\* taken since are all zero.
LEMMA UnchangedUsageIsUnused ==
  ASSUME Remembered, NEW g \in Grants, grant[g].status = "granted",
         UsageSnapshot(grant[g].account) = snapshot[g],
         NEW r \in Reservations, Settled(r), Account(r) = grant[g].account,
         res[r].actual > 0
  PROVE  r \in grant[g].charged
<1>0. TypeOK /\ UsageBookedOnce /\ GrantsRemember /\ grant[g] \in GrantType
  BY DEF Remembered, Booked, TypeOK
<1> DEFINE a == grant[g].account
           S == AccountRows(a)
           A == ChargedBefore(g)
           f == Charged
<1>1. /\ a \in Accounts /\ S \in SUBSET Reservations /\ r \in S
      /\ A \in SUBSET S
      /\ \A q \in S : f[q] \in Nat
      /\ f[r] > 0
  BY <1>0 DEF AccountRows, ChargedBefore, Charged, TypeOK, ReservationType, GrantType
<1>2. SumFunctionOnSet(f, S) = SumFunctionOnSet(f, A)
  BY <1>0, <1>1 DEF UsageBookedOnce, AccountRows, GrantsRemember
<1>3. r \in A => r \in grant[g].charged
  BY DEF ChargedBefore
<1> HIDE DEF S, A, f
<1>4. IsFiniteSet(S)
  BY <1>1, RowsAreFinite
<1>5. /\ SumFunctionOnSet(f, A) \in Int
      /\ SumFunctionOnSet(f, S) = SumFunctionOnSet(f, A) + SumFunctionOnSet(f, S \ A)
  <2>1. \A q \in S : f[q] \in Int
    BY <1>1
  <2> QED
    BY <1>1, <1>4, <2>1, SumSplit
<1>6. /\ SumFunctionOnSet(f, S \ A) \in Nat
      /\ \A q \in S \ A : f[q] <= SumFunctionOnSet(f, S \ A)
  <2>1. IsFiniteSet(S \ A)
    BY <1>4, FS_Subset
  <2>2. \A q \in S \ A : f[q] \in Nat
    BY <1>1
  <2> QED
    BY <2>1, <2>2, SumOfNats
<1> DEFINE x == SumFunctionOnSet(f, A)
           y == SumFunctionOnSet(f, S \ A)
<1>7. x \in Int /\ y \in Nat /\ x = x + y
  BY <1>2, <1>5, <1>6
<1> HIDE DEF x, y
<1>8. y = 0
  BY <1>7
<1>9. \A q \in S \ A : f[q] <= 0
  BY <1>6, <1>8 DEF y
<1>10. r \in A
  BY <1>1, <1>9
<1> QED
  BY <1>3, <1>10

\* What a step does that reverses only unused grants.
ReversesUnused ==
  \A g \in Grants :
    grant[g].status = "granted" /\ grant'[g].status = "reversed" =>
      \A r \in Reservations :
        Settled(r) /\ Account(r) = grant[g].account /\ res[r].actual > 0
          => r \in grant[g].charged

\* A step reverses only unused grants.
LEMMA ReversalSteps == Remembered /\ [Next]_vars => ReversesUnused
<1> SUFFICES ASSUME Remembered, [Next]_vars, NEW g \in Grants, grant[g].status = "granted",
                    grant'[g].status = "reversed", NEW r \in Reservations, Settled(r),
                    Account(r) = grant[g].account, res[r].actual > 0
             PROVE  r \in grant[g].charged
  BY DEF ReversesUnused
<1>0. TypeOK
  BY DEF Remembered, Booked
<1>1. ASSUME NEW h \in Grants, NEW a \in Accounts, NEW m \in GrantAmounts, GrantCredit(a, h, m)
      PROVE  FALSE
  BY <1>0, <1>1 DEF GrantCredit, TypeOK
<1>2. ASSUME grant' = grant PROVE FALSE
  BY <1>2
<1>3. ASSUME NEW h \in Grants, ReverseGrant(h) PROVE UsageSnapshot(grant[g].account) = snapshot[g]
  <2>1. h = g
    BY <1>0, <1>3 DEF ReverseGrant, TypeOK
  <2> QED
    BY <1>3, <2>1 DEF ReverseGrant
<1>4. \/ \E h \in Grants : \/ \E a \in Accounts, m \in GrantAmounts : GrantCredit(a, h, m)
                           \/ ReverseGrant(h)
      \/ grant' = grant
  BY GrantsMove
<1>5. UsageSnapshot(grant[g].account) = snapshot[g]
  BY <1>1, <1>2, <1>3, <1>4
<1> QED
  BY <1>5, UnchangedUsageIsUnused

\* Credit is taken back only if nothing was charged to its account since it was
\* granted, metered charges that the projector has not yet applied included.
THEOREM ReversedIsUnused == Spec => ReversalsUnused
<1>1. Spec => [][ReversesUnused]_vars
  BY RememberedInit, RememberedNext, ReversalSteps, PTL DEF Spec
<1> QED
  BY <1>1 DEF ReversalsUnused, ReversesUnused

-----------------------------------------------------------------------------
\* Budget windows.

\* A moment is on day n or later exactly if it is past the start of day n.
LEMMA DayAtLeast ==
  ASSUME NEW t \in Nat, NEW n \in Nat
  PROVE  Day(t) \in Nat /\ n * DayLen \in Nat /\ (Day(t) >= n <=> t >= n * DayLen)
<1> DEFINE L == DayLen
           q == t \div L
<1>1. L \in Nat \ {0}
  BY TimeAssumption
<1>2. q \in Nat /\ L * q <= t /\ t < L * (q + 1)
  BY <1>1, SMT
<1>3. n * L \in Nat /\ n * L = L * n
  BY <1>1, SMT
<1> HIDE DEF q, L
<1>4. ASSUME q >= n PROVE t >= n * L
  <2>1. L * n <= L * q
    BY <1>1, <1>2, <1>4, SMT
  <2>2. L * n \in Nat /\ L * q \in Nat
    BY <1>1, <1>2, SMT
  <2> QED
    BY <1>2, <1>3, <2>1, <2>2
<1>5. ASSUME ~(q >= n) PROVE ~(t >= n * L)
  <2>1. L * (q + 1) <= L * n
    BY <1>1, <1>2, <1>5, SMT
  <2>2. L * n \in Nat /\ L * (q + 1) \in Nat
    BY <1>1, <1>2, SMT
  <2> QED
    BY <1>2, <1>3, <2>1, <2>2
<1> QED
  BY <1>2, <1>3, <1>4, <1>5 DEF Day, q, L

\* Later moments are on the same day or a later one.
LEMMA DayGrows ==
  ASSUME NEW s \in Nat, NEW t \in Nat, s <= t
  PROVE  Day(s) <= Day(t)
<1>1. Day(s) \in Nat /\ Day(t) \in Nat
  BY DayAtLeast
<1>2. s >= Day(s) * DayLen /\ Day(s) * DayLen \in Nat
  BY <1>1, DayAtLeast
<1>3. t >= Day(s) * DayLen
  BY <1>2
<1>4. Day(t) >= Day(s)
  BY <1>1, <1>3, DayAtLeast
<1> QED
  BY <1>1, <1>4

\* The week's cutoff is a moment of the past that moves forward.
LEMMA CutoffFacts ==
  ASSUME now \in Nat
  PROVE  /\ WeekCutoff \in Nat /\ WeekCutoff <= now
         /\ PruneDay = Day(WeekCutoff) /\ PruneDay \in Nat /\ PruneDay <= Day(now)
         /\ PruneDay * DayLen <= WeekCutoff
         /\ FirstFullDay = PruneDay + 1
<1>1. WeekDays * DayLen \in Nat
  BY TimeAssumption, SMT
<1>2. WeekCutoff \in Nat /\ WeekCutoff <= now
  BY <1>1 DEF WeekCutoff, Larger
<1>3. PruneDay = Day(WeekCutoff) /\ FirstFullDay = PruneDay + 1
  BY DEF PruneDay, WeekCutoff, FirstFullDay
<1>4. PruneDay \in Nat /\ PruneDay <= Day(now)
  BY <1>2, <1>3, DayAtLeast, DayGrows
<1>5. PruneDay * DayLen <= WeekCutoff
  BY <1>2, <1>3, <1>4, DayAtLeast
<1> QED
  BY <1>2, <1>3, <1>4, <1>5

\* The week moves on with the clock.
LEMMA CutoffGrows ==
  ASSUME now \in Nat, now' = now + 1
  PROVE  WeekCutoff <= WeekCutoff' /\ PruneDay <= PruneDay'
<1>1. WeekDays * DayLen \in Nat
  BY TimeAssumption, SMT
<1> DEFINE W == WeekDays * DayLen
<1>2. WeekCutoff = Larger(now - W, 0) /\ WeekCutoff' = Larger(now' - W, 0)
  BY DEF WeekCutoff, Larger
<1>3. W \in Nat
  BY <1>1
<1> HIDE DEF W
<1>4. WeekCutoff \in Nat /\ WeekCutoff' \in Nat /\ WeekCutoff <= WeekCutoff'
  BY <1>2, <1>3 DEF Larger
<1>5. PruneDay = Day(WeekCutoff) /\ PruneDay' = Day(WeekCutoff')
  BY DEF PruneDay, WeekCutoff, Day, Larger
<1> QED
  BY <1>4, <1>5, DayGrows

\* What the windows need: rows are settled in the past, usage events are charges
\* of prepaid rows and complete since the oldest day of the week, and the rollups
\* of that day and later ones are sums of charges.
DayRows(k, d) == {r \in Reservations : KeyOf[r] = k /\ Prepaid(r) /\ Day(res[r].settledAt) = d}
SettledInPast == \A r \in Reservations : res[r].settledAt <= now
EventsAreCharges ==
  /\ \A e \in events : Settled(e) /\ Prepaid(e)
  /\ \A r \in Reservations :
       Settled(r) /\ Prepaid(r) /\ res[r].settledAt >= PruneDay * DayLen => r \in events
RollupsAreSums ==
  \A k \in Keys, d \in Days :
    d >= PruneDay => rollup[k][d] = SumFunctionOnSet(Charged, DayRows(k, d))
Windowed == TypeOK /\ SettledInPast /\ EventsAreCharges /\ RollupsAreSums

\* The rows that SpentSince adds up.
RowsSince(k, t) == {r \in Reservations : KeyOf[r] = k /\ Prepaid(r) /\ res[r].settledAt >= t}

\* Types and finiteness that the sums below need.
LEMMA RowFacts ==
  ASSUME TypeOK
  PROVE  /\ now \in Nat
         /\ \A r \in Reservations : /\ res[r].settledAt \in Nat /\ Charged[r] \in Nat
                                    /\ Actual[r] = res[r].actual /\ Actual[r] \in Nat
                                    /\ Settled(r) => Charged[r] = Actual[r]
                                    /\ ~Settled(r) => Charged[r] = 0
                                    /\ Day(res[r].settledAt) \in Days
<1>1. \A r \in Reservations : res[r].settledAt \in Times /\ res[r].actual \in Nat
  BY DEF TypeOK, ReservationType
<1>2. \A r \in Reservations : Day(res[r].settledAt) \in Days
  BY <1>1, ClockRows
<1> QED
  BY <1>1, <1>2 DEF Charged, Actual, TypeOK, Times

\* Since a moment the events cover, the events of a key are its charged rows.
LEMMA EventsAddUp ==
  ASSUME Windowed, NEW k \in Keys, NEW S \in SUBSET RowsSince(k, WeekCutoff)
  PROVE  SumFunctionOnSet(Actual, S \cap events) = SumFunctionOnSet(Charged, S)
<1>0. TypeOK /\ EventsAreCharges
  BY DEF Windowed
<1>1. now \in Nat
  BY <1>0, RowFacts
<1> DEFINE A == S \cap events
           f == Charged
           h == Actual
<1>2. S \in SUBSET Reservations /\ A \in SUBSET S
  BY DEF RowsSince
<1>3. ASSUME NEW r \in S \ A PROVE f[r] = 0
  <2>1. /\ r \in Reservations /\ res[r].prepaid /\ r \notin events
        /\ res[r].settledAt >= WeekCutoff /\ res[r].settledAt \in Nat
    BY <1>0, <1>2, <1>3, RowFacts DEF RowsSince
  <2>2. PruneDay * DayLen <= WeekCutoff /\ WeekCutoff \in Nat /\ PruneDay \in Nat
    BY <1>1, CutoffFacts
  <2>3. PruneDay * DayLen \in Nat
    BY <1>1, <2>2, DayAtLeast
  <2>4. res[r].settledAt >= PruneDay * DayLen
    BY <2>1, <2>2, <2>3
  <2>5. ~Settled(r)
    BY <1>0, <2>1, <2>4 DEF EventsAreCharges
  <2> QED
    BY <1>0, <2>1, <2>5, RowFacts
<1>4. \A r \in A : h[r] = f[r]
  BY <1>0, <1>2, RowFacts DEF EventsAreCharges
<1>5. \A r \in S : f[r] \in Int
  BY <1>0, <1>2, RowFacts
<1>6. IsFiniteSet(S) /\ IsFiniteSet(A)
  BY <1>2, RowsAreFinite
<1> HIDE DEF A, f, h
<1>7. SumFunctionOnSet(h, A) = SumFunctionOnSet(f, A)
  BY <1>4, <1>6, SumOfSame
<1>8. SumFunctionOnSet(f, S) = SumFunctionOnSet(f, A)
  BY <1>2, <1>3, <1>5, <1>6, SumOfSome
<1> QED
  BY <1>7, <1>8 DEF A, f, h

\* The day's rollup is what was charged since the day began.
LEMMA DailyIsExact ==
  ASSUME Windowed, NEW k \in Keys
  PROVE  DailySettled(k) = SpentSince(k, Day(now) * DayLen)
<1>0. TypeOK /\ RollupsAreSums /\ SettledInPast /\ now \in Times
  BY DEF Windowed, TypeOK
<1>1. now \in Nat /\ Day(now) \in Days /\ Day(now) \in Nat
  BY <1>0, RowFacts, ClockRows, DayAtLeast
<1>2. PruneDay <= Day(now) /\ PruneDay \in Nat
  BY <1>1, CutoffFacts
<1>3. rollup[k][Day(now)] = SumFunctionOnSet(Charged, DayRows(k, Day(now)))
  BY <1>0, <1>1, <1>2 DEF RollupsAreSums
<1>4. ASSUME NEW r \in Reservations
      PROVE  Day(res[r].settledAt) = Day(now) <=> res[r].settledAt >= Day(now) * DayLen
  <2> DEFINE s == res[r].settledAt
  <2>1. s \in Nat /\ s <= now
    BY <1>0, RowFacts DEF SettledInPast
  <2> HIDE DEF s
  <2>2. Day(s) <= Day(now) /\ Day(s) \in Nat
    BY <1>1, <2>1, DayGrows, DayAtLeast
  <2>3. Day(s) >= Day(now) <=> s >= Day(now) * DayLen
    BY <1>1, <2>1, DayAtLeast
  <2>4. Day(s) = Day(now) <=> s >= Day(now) * DayLen
    BY <1>1, <2>2, <2>3
  <2> QED
    BY <2>4 DEF s
<1>5. DayRows(k, Day(now)) = RowsSince(k, Day(now) * DayLen)
  BY <1>4 DEF DayRows, RowsSince
<1> QED
  BY <1>3, <1>5 DEF DailySettled, SpentSince, RowsSince

\* The weekly figure from rollups and events, and the one from events alone.
LEMMA WeeklyIsExact ==
  ASSUME Windowed, NEW k \in Keys
  PROVE  /\ WeeklySettled(k) = SpentSince(k, WeekCutoff)
         /\ SnapshotWeekly(k) = SpentSince(k, WeekCutoff)
<1>0. TypeOK /\ RollupsAreSums /\ EventsAreCharges
  BY DEF Windowed
<1>1. now \in Nat
  BY <1>0, RowFacts
<1> DEFINE f == Charged
           S == RowsSince(k, WeekCutoff)
           full == FirstFullDay * DayLen
           A == {r \in S : res[r].settledAt >= full}
           D == {d \in Days : d >= FirstFullDay}
<1>2. /\ WeekCutoff \in Nat /\ PruneDay \in Nat /\ FirstFullDay = PruneDay + 1
      /\ PruneDay = Day(WeekCutoff) /\ PruneDay * DayLen <= WeekCutoff
  BY <1>1, CutoffFacts
<1>3. FirstFullDay \in Nat /\ full \in Nat
  BY <1>2, DayAtLeast
<1>4. WeekCutoff < full
  <2>1. ~(Day(WeekCutoff) >= FirstFullDay)
    BY <1>2
  <2>2. ~(WeekCutoff >= full)
    BY <1>2, <1>3, <2>1, DayAtLeast
  <2> QED
    BY <1>2, <1>3, <2>2
<1>5. S \in SUBSET Reservations /\ A \in SUBSET S /\ IsFiniteSet(S)
  BY RowsAreFinite DEF RowsSince
<1>6. \A r \in Reservations : f[r] \in Int /\ res[r].settledAt \in Nat
  BY <1>0, RowFacts
<1>7. SumFunctionOnSet(rollup[k], D) = SumFunctionOnSet(f, A)
  <2> DEFINE R == {r \in Reservations : KeyOf[r] = k /\ Prepaid(r)}
             day == [r \in Reservations |-> Day(res[r].settledAt)]
             table == rollup[k]
  <2>1. IsFiniteSet(D)
    <3>1. IsFiniteSet(Days)
      <4>1. MaxTime \div DayLen \in Int
        BY TimeAssumption, SMT
      <4> QED
        BY <4>1, FS_Interval DEF Days
    <3>2. D \subseteq Days
      OBVIOUS
    <3> HIDE DEF D
    <3> QED
      BY <3>1, <3>2, FS_Subset
  <2>2. R \in SUBSET Reservations
    OBVIOUS
  <2>3. IsFiniteSet(R) /\ \A r \in R : f[r] \in Int
    BY <1>6, <2>2, RowsAreFinite
  <2>4. ASSUME NEW d \in D
        PROVE  table[d] = SumFunctionOnSet(f, RowsOf(R, day, d))
    <3>1. d \in Days /\ d >= PruneDay
      BY <1>2, <2>4 DEF Days
    <3>2. rollup[k][d] = SumFunctionOnSet(Charged, DayRows(k, d))
      BY <1>0, <3>1 DEF RollupsAreSums
    <3>3. DayRows(k, d) = RowsOf(R, day, d)
      BY DEF DayRows, RowsOf
    <3> QED
      BY <3>2, <3>3
  <2>5. RowsIn(R, day, D) = A
    <3>1. ASSUME NEW r \in Reservations
          PROVE  Day(res[r].settledAt) \in D <=> res[r].settledAt >= full
      <4> DEFINE s == res[r].settledAt
      <4>1. s \in Nat /\ Day(s) \in Days
        BY <1>0, RowFacts
      <4>2. Day(s) \in D <=> Day(s) >= FirstFullDay
        BY <4>1
      <4>3. Day(s) >= FirstFullDay <=> s >= full
        BY <1>3, <4>1, DayAtLeast
      <4> QED
        BY <4>2, <4>3
    <3>2. \A r \in Reservations : res[r].settledAt >= full => res[r].settledAt >= WeekCutoff
      BY <1>2, <1>3, <1>4, <1>6
    <3> HIDE DEF D, full
    <3> QED
      BY <3>1, <3>2 DEF RowsSince, RowsIn
  <2> HIDE DEF R, day, table, D, f, A
  <2>6. SumFunctionOnSet(table, D) = SumFunctionOnSet(f, RowsIn(R, day, D))
    BY <2>1, <2>3, <2>4, SumByGroup
  <2> QED
    BY <2>5, <2>6 DEF table
<1>8. ASSUME NEW T \in SUBSET S
      PROVE  SumFunctionOnSet(Actual, T \cap events) = SumFunctionOnSet(f, T)
  BY EventsAddUp
<1>9. /\ SumFunctionOnSet(f, A) \in Int /\ SumFunctionOnSet(f, S \ A) \in Int
      /\ SumFunctionOnSet(f, S) = SumFunctionOnSet(f, A) + SumFunctionOnSet(f, S \ A)
  <2>1. \A r \in S : f[r] \in Int
    BY <1>5, <1>6
  <2> HIDE DEF S, A, f
  <2> QED
    BY <1>5, <2>1, SumSplit
<1>10. SpentSince(k, WeekCutoff) = SumFunctionOnSet(f, S)
  BY DEF SpentSince, RowsSince
<1>11. SnapshotWeekly(k) = SumFunctionOnSet(f, S)
  <2>1. {e \in events : KeyOf[e] = k /\ res[e].settledAt >= WeekCutoff} = S \cap events
    BY <1>0 DEF RowsSince, EventsAreCharges, TypeOK
  <2> HIDE DEF S, f
  <2> QED
    BY <1>8, <2>1 DEF SnapshotWeekly, Actual
<1>12. WeeklySettled(k) = SumFunctionOnSet(rollup[k], D) + SumFunctionOnSet(f, S \ A)
  <2>1. {e \in events : /\ KeyOf[e] = k /\ res[e].settledAt >= WeekCutoff
                        /\ res[e].settledAt < FirstFullDay * DayLen} = (S \ A) \cap events
    <3>1. \A r \in Reservations : res[r].settledAt < full <=> ~(res[r].settledAt >= full)
      <4> HIDE DEF full
      <4> QED
        BY <1>3, <1>6
    <3>2. FirstFullDay * DayLen = full
      OBVIOUS
    <3>3. events \subseteq Reservations /\ \A e \in events : Prepaid(e)
      BY <1>0 DEF EventsAreCharges, TypeOK
    <3> HIDE DEF full
    <3> QED
      BY <3>1, <3>2, <3>3 DEF RowsSince
  <2>2. S \ A \in SUBSET S
    OBVIOUS
  <2> HIDE DEF S, f, A
  <2>3. SumFunctionOnSet(Actual, (S \ A) \cap events) = SumFunctionOnSet(f, S \ A)
    BY <1>8, <2>2
  <2> QED
    BY <2>1, <2>3 DEF WeeklySettled, Actual
<1> HIDE DEF S, A, f, D
<1> QED
  BY <1>7, <1>9, <1>10, <1>11, <1>12

\* What a row adds to a day of a key.
InDay(r, k, d) == IF r \in DayRows(k, d) THEN Charged[r] ELSE 0

\* The rollups stay exact when each takes what the changed row adds to it.
LEMMA RollupsFollow ==
  ASSUME Windowed, TypeOK', now' = now, NEW r \in Reservations,
         \A q \in Reservations \ {r} : res'[q] = res[q],
         \A k \in Keys, d \in Days :
           rollup'[k][d] = rollup[k][d] + InDay(r, k, d)' - InDay(r, k, d)
  PROVE  RollupsAreSums'
<1>0. TypeOK /\ RollupsAreSums
  BY DEF Windowed
<1>1. PruneDay' = PruneDay
  BY DEF PruneDay, Day, Larger
<1>2. ASSUME NEW k \in Keys, NEW d \in Days, d >= PruneDay
      PROVE  rollup'[k][d] = SumFunctionOnSet(Charged, DayRows(k, d))'
  <2> DEFINE f == Charged
             g == Charged'
             S == DayRows(k, d)
             T == DayRows(k, d)'
  <2>1. \A q \in Reservations : f[q] \in Int /\ g[q] \in Int
    BY <1>0 DEF Charged, TypeOK, ReservationType
  <2>2. \A q \in Reservations \ {r} : f[q] = g[q]
    BY DEF Charged
  <2>3. S \in SUBSET Reservations /\ T \in SUBSET Reservations /\ S \ {r} = T \ {r}
    BY DEF DayRows, Day
  <2>4. /\ InDay(r, k, d) = IF r \in S THEN f[r] ELSE 0
        /\ InDay(r, k, d)' = IF r \in T THEN g[r] ELSE 0
    BY DEF InDay
  <2>5. rollup[k][d] = SumFunctionOnSet(f, S)
    BY <1>0, <1>2 DEF RollupsAreSums
  <2> HIDE DEF f, g, S, T
  <2>6. IsFiniteSet(S) /\ IsFiniteSet(T)
    BY <2>3, RowsAreFinite
  <2>7. SumFunctionOnSet(g, T) = SumFunctionOnSet(f, S)
              + (IF r \in T THEN g[r] ELSE 0) - (IF r \in S THEN f[r] ELSE 0)
    <3>1. /\ \A q \in S : f[q] \in Int
          /\ \A q \in T : g[q] \in Int
          /\ \A q \in S \ {r} : f[q] = g[q]
      BY <2>1, <2>2, <2>3
    <3> QED
      BY <2>3, <2>6, <3>1, SumOneRow
  <2>8. rollup'[k][d] = rollup[k][d] + (IF r \in T THEN g[r] ELSE 0) - (IF r \in S THEN f[r] ELSE 0)
    BY <2>4
  <2>9. rollup'[k][d] = SumFunctionOnSet(g, T)
    BY <2>5, <2>7, <2>8
  <2> QED
    BY <2>9 DEF g, T
<1> QED
  BY <1>1, <1>2 DEF RollupsAreSums

\* There are no rollups or events at first.
LEMMA WindowedInit == Init => Windowed
<1> SUFFICES ASSUME Init PROVE Windowed
  OBVIOUS
<1>1. TypeOK
  BY TypeInit
<1>2. SettledInPast /\ EventsAreCharges
  BY DEF Init, SettledInPast, EventsAreCharges, NoRow
<1>3. \A r \in Reservations : Charged[r] = 0
  BY DEF Init, Charged, NoRow
<1>4. \A S \in SUBSET Reservations : SumFunctionOnSet(Charged, S) = 0
  BY <1>3, RowsAreFinite, SumOfZeros
<1>5. ASSUME NEW k \in Keys, NEW d \in Days
      PROVE  rollup[k][d] = SumFunctionOnSet(Charged, DayRows(k, d))
  <2>1. DayRows(k, d) \in SUBSET Reservations
    BY DEF DayRows
  <2> QED
    BY <1>4, <2>1 DEF Init
<1>6. RollupsAreSums
  BY <1>5 DEF RollupsAreSums
<1> QED
  BY <1>1, <1>2, <1>6 DEF Windowed

\* What a reserve or a resize leaves alone.
LEMMA HoldIsUnbooked ==
  ASSUME TypeOK, NEW r \in Reservations, Reserve(r) \/ Resize(r)
  PROVE  /\ BooksNothing(r) /\ rollup' = rollup /\ events' = events /\ now' = now
         /\ res[r].settledAt \in Nat
         /\ res'[r].settledAt = res[r].settledAt \/ res'[r].settledAt = 0
<1> USE DEF BooksNothing
<1>1. res \in [Reservations -> ReservationType] /\ res[r] \in ReservationType
  BY DEF TypeOK
<1>2. res[r].settledAt \in Nat
  BY <1>1 DEF ReservationType, Times
<1> DEFINE Effect == /\ BooksNothing(r) /\ rollup' = rollup /\ events' = events /\ now' = now
                     /\ res'[r].settledAt = res[r].settledAt \/ res'[r].settledAt = 0
<1>3. ASSUME NEW t, ReserveUnlimited(r, t) PROVE Effect
  BY <1>1, <1>3 DEF ReserveUnlimited, NoRow, budgetVars
<1>4. ASSUME NEW m, NEW t, NEW b, ReservePrepaid(r, m, t, b) PROVE Effect
  BY <1>1, <1>4 DEF ReservePrepaid, NoRow
<1>5. ASSUME NEW t, ResizeUnlimited(r, t) PROVE Effect
  BY <1>1, <1>5 DEF ResizeUnlimited, ReservationType, budgetVars
<1>6. ASSUME NEW m, NEW t, ResizePrepaid(r, m, t) PROVE Effect
  <2>1. res' = [res EXCEPT ![r].micros = m, ![r].tokens = t] /\ res[r].status = "reserved"
    BY <1>6 DEF ResizePrepaid
  <2>2. res'[r] = [res[r] EXCEPT !.micros = m, !.tokens = t]
    BY <1>1, <2>1
  <2>3. res'[r].status = res[r].status /\ res'[r].settledAt = res[r].settledAt
    BY <1>1, <2>2 DEF ReservationType
  <2>4. \A q \in Reservations \ {r} : res'[q] = res[q]
    BY <1>1, <2>1
  <2>5. BooksNothing(r)
    BY <1>6, <2>1, <2>3, <2>4 DEF ResizePrepaid
  <2> QED
    BY <1>6, <2>3, <2>5 DEF ResizePrepaid
<1> QED
  BY <1>2, <1>3, <1>4, <1>5, <1>6 DEF Reserve, Resize

\* Reserve and resize touch no rollup.
LEMMA WindowedHold ==
  ASSUME Windowed, TypeOK', NEW r \in Reservations, Reserve(r) \/ Resize(r)
  PROVE  Windowed'
<1>0. TypeOK /\ SettledInPast /\ EventsAreCharges
  BY DEF Windowed
<1>1. /\ BooksNothing(r) /\ rollup' = rollup /\ events' = events /\ now' = now
      /\ res[r].settledAt \in Nat
      /\ res'[r].settledAt = res[r].settledAt \/ res'[r].settledAt = 0
  BY <1>0, HoldIsUnbooked
<1>2. ~Settled(r) /\ ~Settled(r)' /\ \A q \in Reservations \ {r} : res'[q] = res[q]
  BY <1>1 DEF BooksNothing
<1>3. SettledInPast'
  <2>1. now \in Nat
    BY <1>0, RowFacts
  <2> QED
    BY <1>0, <1>1, <1>2, <2>1 DEF SettledInPast
<1>4. PruneDay' = PruneDay
  BY <1>1 DEF PruneDay, Day, Larger
<1>5. EventsAreCharges'
  <2>1. r \notin events /\ events \subseteq Reservations
    BY <1>0, <1>2 DEF EventsAreCharges, TypeOK
  <2> QED
    BY <1>0, <1>1, <1>2, <1>4, <2>1 DEF EventsAreCharges
<1>6. RollupsAreSums'
  <2>1. Charged[r] = 0 /\ Charged'[r] = 0
    BY <1>2 DEF Charged
  <2>2. \A k \in Keys, d \in Days : InDay(r, k, d) = 0 /\ InDay(r, k, d)' = 0
    BY <2>1 DEF InDay
  <2>3. \A k \in Keys, d \in Days : rollup[k][d] \in Int
    BY <1>0 DEF TypeOK
  <2> QED
    BY <1>1, <1>2, <2>2, <2>3, RollupsFollow
<1> QED
  BY <1>3, <1>5, <1>6 DEF Windowed

\* A charge joins the rollup of its day and the events; an unlimited one neither.
LEMMA WindowedSettle ==
  ASSUME Windowed, TypeOK', NEW r \in Reservations, Settle(r)
  PROVE  Windowed'
<1>0. TypeOK /\ SettledInPast /\ EventsAreCharges
  BY DEF Windowed
<1>1. PICK calculated \in Charges, t \in TokenCounts :
             \/ SettlePrepaid(r, calculated, t)
             \/ SettleUnlimited(r, calculated, t)
  BY DEF Settle
<1>2. calculated \in Nat /\ res[r] \in ReservationType /\ res[r].status = "reserved"
      /\ now' = now /\ now \in Nat /\ Day(now) \in Days /\ KeyOf[r] \in Keys
  BY <1>0, <1>1, AmountAssumption, RowFacts, ClockRows, KeysAssumption
     DEF TypeOK, SettlePrepaid, SettleUnlimited
<1>3. ASSUME NEW actual, res' = [res EXCEPT ![r].status = "settled", ![r].actual = actual,
                                            ![r].used = t, ![r].settledAt = now]
      PROVE  /\ \A q \in Reservations \ {r} : res'[q] = res[q]
             /\ res'[r].status = "settled" /\ res'[r].actual = actual
             /\ res'[r].prepaid = res[r].prepaid /\ res'[r].settledAt = now
  <2>1. /\ \A q \in Reservations \ {r} : res'[q] = res[q]
        /\ res'[r] = [res[r] EXCEPT !.status = "settled", !.actual = actual,
                                    !.used = t, !.settledAt = now]
    BY <1>0, <1>3 DEF TypeOK
  <2>2. res'[r].status = "settled" /\ res'[r].actual = actual /\ res'[r].settledAt = now
    BY <1>2, <2>1 DEF ReservationType
  <2>3. res'[r].prepaid = res[r].prepaid
    BY <1>2, <2>1 DEF ReservationType
  <2> QED
    BY <2>1, <2>2, <2>3
<1>4. PruneDay' = PruneDay
  BY <1>2 DEF PruneDay, Day, Larger
<1>5. Charged[r] = 0 /\ r \notin events /\ events \subseteq Reservations
  BY <1>0, <1>2 DEF Charged, EventsAreCharges, TypeOK
<1>6. \A k \in Keys, d \in Days : InDay(r, k, d) = 0 /\ rollup[k][d] \in Int
  BY <1>0, <1>5 DEF InDay, TypeOK
<1>7. CASE SettleUnlimited(r, calculated, t)
  <2>1. /\ \A q \in Reservations \ {r} : res'[q] = res[q]
        /\ ~res'[r].prepaid /\ res'[r].settledAt = now
    <3>1. /\ res' = [res EXCEPT ![r].status = "settled", ![r].actual = calculated,
                                ![r].used = t, ![r].settledAt = now]
          /\ ~res[r].prepaid
      BY <1>7 DEF SettleUnlimited
    <3> QED
      BY <1>3, <3>1
  <2>2. rollup' = rollup /\ events' = events
    BY <1>7 DEF SettleUnlimited, budgetVars
  <2>3. SettledInPast'
    BY <1>0, <1>2, <2>1 DEF SettledInPast
  <2>4. EventsAreCharges'
    BY <1>0, <1>4, <1>5, <2>1, <2>2 DEF EventsAreCharges
  <2>5. \A k \in Keys, d \in Days : InDay(r, k, d)' = 0
    BY <2>1 DEF InDay, DayRows
  <2>6. RollupsAreSums'
    BY <1>2, <1>6, <2>1, <2>2, <2>5, RollupsFollow
  <2> QED
    BY <2>3, <2>4, <2>6 DEF Windowed
<1>8. CASE SettlePrepaid(r, calculated, t)
  <2>1. PICK actual \in 0 .. calculated : BookCharge(r, actual, t)
    BY <1>8 DEF SettlePrepaid
  <2>2. actual \in Int /\ res[r].prepaid
    BY <1>2, <1>8 DEF SettlePrepaid
  <2>3. /\ \A q \in Reservations \ {r} : res'[q] = res[q]
        /\ res'[r].status = "settled" /\ res'[r].actual = actual
        /\ res'[r].prepaid /\ res'[r].settledAt = now
    <3>1. res' = [res EXCEPT ![r].status = "settled", ![r].actual = actual,
                             ![r].used = t, ![r].settledAt = now]
      BY <2>1 DEF BookCharge
    <3> QED
      BY <1>3, <2>2, <3>1
  <2>4. events' = events \cup {r}
    BY <2>1 DEF BookCharge
  <2>5. \A k \in Keys, d \in Days :
          rollup'[k][d] = rollup[k][d] + IF k = KeyOf[r] /\ d = Day(now) THEN actual ELSE 0
    <3>1. rollup' = [rollup EXCEPT ![KeyOf[r]][Day(now)] = rollup[KeyOf[r]][Day(now)] + actual]
      BY <1>0, <1>2, <2>1 DEF BookCharge, TypeOK
    <3> QED
      BY <1>0, <1>2, <1>6, <3>1 DEF TypeOK
  <2>6. SettledInPast'
    BY <1>0, <1>2, <2>3 DEF SettledInPast
  <2>7. EventsAreCharges'
    BY <1>0, <1>4, <1>5, <2>3, <2>4 DEF EventsAreCharges
  <2>8. \A k \in Keys, d \in Days :
          InDay(r, k, d)' = IF k = KeyOf[r] /\ d = Day(now) THEN actual ELSE 0
    <3>1. Charged'[r] = actual
      BY <2>3 DEF Charged
    <3>2. \A k \in Keys, d \in Days : r \in DayRows(k, d)' <=> k = KeyOf[r] /\ d = Day(now)
      BY <2>3 DEF DayRows, Day
    <3> QED
      BY <3>1, <3>2 DEF InDay
  <2>9. \A k \in Keys, d \in Days :
          rollup'[k][d] = rollup[k][d] + InDay(r, k, d)' - InDay(r, k, d)
    BY <1>6, <2>2, <2>5, <2>8
  <2>10. RollupsAreSums'
    BY <1>2, <2>3, <2>9, RollupsFollow
  <2> QED
    BY <2>6, <2>7, <2>10 DEF Windowed
<1> QED
  BY <1>1, <1>7, <1>8

\* Cleanup deletes only what no window reads any more.
LEMMA WindowedPrune ==
  ASSUME Windowed, TypeOK', PruneBudgets
  PROVE  Windowed'
<1>0. TypeOK /\ SettledInPast /\ EventsAreCharges /\ RollupsAreSums
  BY DEF Windowed
<1>1. PICK goneEvents \in SUBSET ExpiredEvents, goneDays \in SUBSET ExpiredRollups :
        /\ events' = events \ goneEvents
        /\ rollup' = [k \in Keys |-> [d \in Days |->
                        IF << k, d >> \in goneDays THEN 0 ELSE rollup[k][d]]]
  BY DEF PruneBudgets
<1>2. res' = res /\ now' = now
  BY DEF PruneBudgets
<1>3. PruneDay' = PruneDay
  BY <1>2 DEF PruneDay, Day, Larger
<1>4. SettledInPast'
  BY <1>0, <1>2 DEF SettledInPast
<1>5. EventsAreCharges'
  <2>1. \A e \in goneEvents : e \in Reservations /\ res[e].settledAt < PruneDay * DayLen
    BY <1>0 DEF ExpiredEvents, TypeOK
  <2>2. PruneDay * DayLen \in Nat /\ \A r \in Reservations : res[r].settledAt \in Nat
    BY <1>0, RowFacts, CutoffFacts, DayAtLeast
  <2>3. \A r \in Reservations : res[r].settledAt >= PruneDay * DayLen => r \notin goneEvents
    <3> DEFINE p == PruneDay * DayLen
    <3>1. p \in Nat /\ \A e \in goneEvents : res[e].settledAt < p
      BY <2>1, <2>2
    <3> HIDE DEF p
    <3>2. \A r \in Reservations : res[r].settledAt >= p => r \notin goneEvents
      BY <2>2, <3>1
    <3> QED
      BY <3>2 DEF p
  <2> QED
    BY <1>0, <1>1, <1>2, <1>3, <2>3 DEF EventsAreCharges
<1>6. ASSUME NEW k \in Keys, NEW d \in Days, d >= PruneDay
      PROVE  rollup'[k][d] = rollup[k][d]
  <2>1. d \in Nat /\ PruneDay \in Nat
    BY <1>0, RowFacts, CutoffFacts DEF Days
  <2>2. << k, d >> \in goneDays => << k, d >>[2] < PruneDay
    BY DEF ExpiredRollups
  <2>3. << k, d >> \notin goneDays
    BY <1>6, <2>1, <2>2
  <2> QED
    BY <1>1, <2>3
<1>7. /\ Charged' = Charged
      /\ \A k \in Keys, d \in Days : DayRows(k, d)' = DayRows(k, d)
  BY <1>2 DEF Charged, DayRows, Day
<1>8. RollupsAreSums'
  <2>1. \A k \in Keys, d \in Days : d >= PruneDay =>
          rollup'[k][d] = SumFunctionOnSet(Charged', DayRows(k, d)')
    BY <1>0, <1>6, <1>7 DEF RollupsAreSums
  <2> QED
    BY <1>3, <2>1 DEF RollupsAreSums
<1> QED
  BY <1>4, <1>5, <1>8 DEF Windowed

\* Other steps and the clock: the oldest day of the week only moves forward.
LEMMA WindowedFrame ==
  ASSUME Windowed, TypeOK', res' = res, rollup' = rollup, events' = events,
         now' = now \/ now' = now + 1
  PROVE  Windowed'
<1>0. TypeOK /\ SettledInPast /\ EventsAreCharges /\ RollupsAreSums
  BY DEF Windowed
<1>1. now \in Nat /\ \A r \in Reservations : res[r].settledAt \in Nat
  BY <1>0, RowFacts
<1>2. now' \in Nat /\ PruneDay \in Nat /\ PruneDay' \in Nat /\ PruneDay <= PruneDay'
  <2>1. CASE now' = now
    <3>1. PruneDay' = PruneDay
      BY <2>1 DEF PruneDay, Day, Larger
    <3> QED
      BY <1>1, <2>1, <3>1, CutoffFacts
  <2>2. CASE now' = now + 1
    <3>1. PruneDay <= PruneDay' /\ PruneDay \in Nat /\ now' \in Nat
      BY <1>1, <2>2, CutoffFacts, CutoffGrows
    <3>2. PruneDay' \in Nat
      <4>1. WeekDays * DayLen \in Nat
        BY TimeAssumption, SMT
      <4>2. Larger(now' - WeekDays * DayLen, 0) \in Nat
        BY <3>1, <4>1 DEF Larger
      <4>3. PruneDay' = Day(Larger(now' - WeekDays * DayLen, 0))
        BY DEF PruneDay, Day, Larger
      <4> QED
        BY <4>2, <4>3, DayAtLeast
    <3> QED
      BY <3>1, <3>2
  <2> QED
    BY <2>1, <2>2
<1>3. SettledInPast'
  BY <1>0, <1>1 DEF SettledInPast
<1>4. EventsAreCharges'
  <2> DEFINE p == PruneDay * DayLen
             q == PruneDay' * DayLen
  <2>1. p \in Nat /\ q \in Nat
    BY <1>1, <1>2, DayAtLeast
  <2>2. p <= q
    <3>1. DayLen \in Nat
      BY TimeAssumption
    <3>2. ASSUME NEW i \in Nat, NEW j \in Nat, NEW n \in Nat, i <= j PROVE i * n <= j * n
      BY <3>2, SMT
    <3> QED
      BY <1>2, <3>1, <3>2
  <2>3. \A r \in Reservations : Settled(r) /\ Prepaid(r) /\ res[r].settledAt >= p => r \in events
    BY <1>0 DEF EventsAreCharges
  <2>4. \A r \in Reservations : Settled(r) /\ Prepaid(r) /\ res[r].settledAt >= q => r \in events
    <3> HIDE DEF p, q
    <3> QED
      BY <1>1, <2>1, <2>2, <2>3
  <2>5. \A e \in events : Settled(e) /\ Prepaid(e)
    BY <1>0 DEF EventsAreCharges
  <2> QED
    BY <2>4, <2>5 DEF EventsAreCharges
<1>5. /\ Charged' = Charged
      /\ \A k \in Keys, d \in Days : DayRows(k, d)' = DayRows(k, d)
  BY DEF Charged, DayRows, Day
<1>6. RollupsAreSums'
  <2>1. \A k \in Keys, d \in Days : d >= PruneDay' => d >= PruneDay
    BY <1>2 DEF Days
  <2>2. \A k \in Keys, d \in Days : d >= PruneDay' =>
          rollup'[k][d] = SumFunctionOnSet(Charged', DayRows(k, d)')
    BY <1>0, <1>5, <2>1 DEF RollupsAreSums
  <2> QED
    BY <2>2 DEF RollupsAreSums
<1> QED
  BY <1>3, <1>4, <1>6 DEF Windowed

\* Every step keeps rollups and events exact.
LEMMA WindowedNext == Windowed /\ [Next]_vars => Windowed'
<1> SUFFICES ASSUME Windowed, [Next]_vars PROVE Windowed'
  OBVIOUS
<1>1. TypeOK'
  BY TypeNext DEF Windowed
<1>2. CASE \E r \in Reservations : Reserve(r) \/ Resize(r) \/ Settle(r)
  BY <1>1, <1>2, WindowedHold, WindowedSettle
<1>3. CASE PruneBudgets
  BY <1>1, <1>3, WindowedPrune
<1>4. CASE /\ res' = res /\ rollup' = rollup /\ events' = events
           /\ now' = now \/ now' = now + 1
  BY <1>1, <1>4, WindowedFrame
<1>5. \/ \E r \in Reservations : Reserve(r) \/ Resize(r) \/ Settle(r)
      \/ PruneBudgets
      \/ /\ res' = res /\ rollup' = rollup /\ events' = events
         /\ now' = now \/ now' = now + 1
  BY DEF Next, Authenticate, ProjectMetered, SetPolicy, GrantCredit, ReverseGrant,
         PruneRateWindows, Tick, budgetVars, vars
<1> QED
  BY <1>2, <1>3, <1>4, <1>5

\* The daily and weekly figures of the gates and of the limit report are exact at
\* every moment, whatever cleanup has deleted and wherever the week's boundary is.
THEOREM BudgetFiguresExact == Spec => []BudgetWindowsExact
<1>1. Windowed => BudgetWindowsExact
  BY DailyIsExact, WeeklyIsExact DEF BudgetWindowsExact
<1> QED
  BY WindowedInit, WindowedNext, <1>1, PTL DEF Spec

-----------------------------------------------------------------------------
\* Daily and weekly budgets.  The gates read figures that are exact, so what they
\* admit is within the limit; rows that were admitted keep a policy to check.
Budgeted == Windowed /\ RowsAdmitted

\* There are no rows at first.
LEMMA BudgetedInit == Init => Budgeted
BY WindowedInit, AdmittedInit DEF Budgeted, Admitted

\* Every step keeps the invariant of the budgets.
LEMMA BudgetedNext == Budgeted /\ [Next]_vars => Budgeted'
BY WindowedNext, AdmittedNext DEF Budgeted, Admitted, Windowed

WeekSpent(k) == SumFunctionOnSet(Charged, RowsSince(k, WeekCutoff))
DaySpent(k)  == SumFunctionOnSet(Charged, RowsSince(k, Day(now) * DayLen))

\* BudgetStep in these terms.
LEMMA BudgetStepIs ==
  ASSUME NEW k \in Keys, NEW p \in InForce(k),
         NoOverrun(WeekSpent(k) + keyReserved[k], WeekSpent(k)' + keyReserved'[k], p.weekly),
         NoOverrun(DaySpent(k) + keyReserved[k], DaySpent(k)' + keyReserved'[k], p.daily)
  PROVE  BudgetStep(k)
BY DEF BudgetStep, WeekSpent, DaySpent, SpentSince, RowsSince

\* What a key has spent is a natural number.
LEMMA SpentIsNat ==
  ASSUME TypeOK, NEW k \in Keys
  PROVE  WeekSpent(k) \in Nat /\ DaySpent(k) \in Nat
<1>1. \A r \in Reservations : Charged[r] \in Nat
  BY RowFacts
<1>2. ASSUME NEW S \in SUBSET Reservations PROVE SumFunctionOnSet(Charged, S) \in Nat
  <2>1. IsFiniteSet(S) /\ \A r \in S : Charged[r] \in Nat
    BY <1>1, RowsAreFinite
  <2> QED
    BY <2>1, SumOfNats
<1>3. /\ RowsSince(k, WeekCutoff) \in SUBSET Reservations
      /\ RowsSince(k, Day(now) * DayLen) \in SUBSET Reservations
  BY DEF RowsSince
<1> QED
  BY <1>2, <1>3 DEF WeekSpent, DaySpent

\* What one changed row adds to the figures of its key while the clock stands still.
LEMMA SpentStep ==
  ASSUME TypeOK, TypeOK', now' = now, NEW r \in Reservations,
         \A q \in Reservations \ {r} : res'[q] = res[q], ~Settled(r), NEW k \in Keys,
         NEW x \in Nat, x = IF Settled(r)' /\ Prepaid(r)' /\ KeyOf[r] = k THEN res'[r].actual ELSE 0,
         Settled(r)' => res'[r].settledAt = now
  PROVE  WeekSpent(k)' = WeekSpent(k) + x /\ DaySpent(k)' = DaySpent(k) + x
<1> DEFINE f == Charged
           g == Charged'
<1>1. \A q \in Reservations : f[q] \in Int /\ g[q] \in Int
  BY DEF Charged, TypeOK, ReservationType
<1>2. \A q \in Reservations \ {r} : f[q] = g[q]
  BY DEF Charged
<1>3. f[r] = 0 /\ g[r] = IF Settled(r)' THEN res'[r].actual ELSE 0
  BY DEF Charged
<1>4. ASSUME NEW S \in SUBSET Reservations, NEW T \in SUBSET Reservations,
             \A q \in Reservations \ {r} : q \in S <=> q \in T,
             r \in T /\ Settled(r)' <=> Settled(r)' /\ Prepaid(r)' /\ KeyOf[r] = k
      PROVE  SumFunctionOnSet(g, T) = SumFunctionOnSet(f, S) + x
  <2> HIDE DEF f, g
  <2>1. IsFiniteSet(S) /\ IsFiniteSet(T) /\ S \ {r} = T \ {r}
    BY <1>4, RowsAreFinite
  <2>2. /\ \A q \in S : f[q] \in Int
        /\ \A q \in T : g[q] \in Int
        /\ \A q \in S \ {r} : f[q] = g[q]
    BY <1>1, <1>2
  <2>3. /\ SumFunctionOnSet(f, S) \in Int
        /\ SumFunctionOnSet(g, T) = SumFunctionOnSet(f, S)
              + (IF r \in T THEN g[r] ELSE 0) - (IF r \in S THEN f[r] ELSE 0)
    BY <2>1, <2>2, SumOneRow
  <2>4. (IF r \in T THEN g[r] ELSE 0) = x /\ (IF r \in S THEN f[r] ELSE 0) = 0
    BY <1>3, <1>4
  <2> DEFINE n == SumFunctionOnSet(f, S)
  <2>5. n \in Int /\ SumFunctionOnSet(g, T) = n + x - 0
    BY <2>3, <2>4
  <2> HIDE DEF n
  <2>6. SumFunctionOnSet(g, T) = n + x
    BY <2>5
  <2> QED
    BY <2>6 DEF n
<1>5. now \in Nat
  BY RowFacts
<1>6. WeekCutoff' = WeekCutoff /\ WeekCutoff \in Nat /\ WeekCutoff <= now
  BY <1>5, CutoffFacts DEF WeekCutoff, Larger
<1>7. Day(now)' = Day(now) /\ Day(now) * DayLen \in Nat /\ Day(now) * DayLen <= now
  BY <1>5, DayAtLeast DEF Day
<1>8. WeekSpent(k)' = WeekSpent(k) + x
  <2> DEFINE S == RowsSince(k, WeekCutoff)
             T == RowsSince(k, WeekCutoff)'
  <2>1. /\ S \in SUBSET Reservations /\ T \in SUBSET Reservations
        /\ \A q \in Reservations \ {r} : q \in S <=> q \in T
        /\ r \in T /\ Settled(r)' <=> Settled(r)' /\ Prepaid(r)' /\ KeyOf[r] = k
    BY <1>5, <1>6 DEF RowsSince
  <2> HIDE DEF S, T, f, g
  <2>2. SumFunctionOnSet(g, T) = SumFunctionOnSet(f, S) + x
    BY <1>4, <2>1
  <2> QED
    BY <2>2 DEF WeekSpent, S, T, f, g
<1>9. DaySpent(k)' = DaySpent(k) + x
  <2> DEFINE S == RowsSince(k, Day(now) * DayLen)
             T == RowsSince(k, Day(now) * DayLen)'
  <2>1. /\ S \in SUBSET Reservations /\ T \in SUBSET Reservations
        /\ \A q \in Reservations \ {r} : q \in S <=> q \in T
        /\ r \in T /\ Settled(r)' <=> Settled(r)' /\ Prepaid(r)' /\ KeyOf[r] = k
    BY <1>5, <1>7 DEF RowsSince
  <2> HIDE DEF S, T, f, g
  <2>2. SumFunctionOnSet(g, T) = SumFunctionOnSet(f, S) + x
    BY <1>4, <2>1
  <2> QED
    BY <2>2 DEF DaySpent, S, T, f, g
<1> QED
  BY <1>8, <1>9

\* A step that adds nothing to a key needs no limit.
LEMMA BudgetIdle ==
  ASSUME TypeOK, TypeOK', NEW k \in Keys, WeekSpent(k)' <= WeekSpent(k),
         DaySpent(k)' <= DaySpent(k), keyReserved'[k] <= keyReserved[k],
         WeekSpent(k)' \in Nat, DaySpent(k)' \in Nat
  PROVE  BudgetStep(k)
<1>1. policy[k] \in InForce(k)
  BY DEF InForce
<1>2. WeekSpent(k) \in Nat /\ DaySpent(k) \in Nat /\ keyReserved[k] \in Nat /\ keyReserved'[k] \in Nat
  BY SpentIsNat DEF TypeOK
<1>3. /\ WeekSpent(k)' + keyReserved'[k] <= WeekSpent(k) + keyReserved[k]
      /\ DaySpent(k)' + keyReserved'[k] <= DaySpent(k) + keyReserved[k]
  BY <1>2
<1> QED
  BY <1>1, <1>3, BudgetStepIs DEF NoOverrun

\* A step that passed the gates with x beside the other holds.
LEMMA BudgetFits ==
  ASSUME Windowed, NEW k \in Keys, NEW p \in InForce(k), NEW others \in Int, NEW x \in Nat,
         FitsBudgets(k, p, others, x),
         WeekSpent(k)' + keyReserved'[k] = WeekSpent(k) + others + x,
         DaySpent(k)' + keyReserved'[k] = DaySpent(k) + others + x
  PROVE  BudgetStep(k)
<1>1. DailySettled(k) = DaySpent(k) /\ WeeklySettled(k) = WeekSpent(k)
  BY DailyIsExact, WeeklyIsExact DEF SpentSince, RowsSince, WeekSpent, DaySpent
<1>2. Within(WeekSpent(k)' + keyReserved'[k], p.weekly)
  BY <1>1 DEF FitsBudgets, Within
<1>3. Within(DaySpent(k)' + keyReserved'[k], p.daily)
  BY <1>1 DEF FitsBudgets, Within
<1> QED
  BY <1>2, <1>3, BudgetStepIs DEF NoOverrun

\* Reserve and resize fit the budgets of the admission copy.
LEMMA BudgetHold ==
  ASSUME Budgeted, TypeOK', NEW r \in Reservations, Reserve(r) \/ Resize(r), NEW k \in Keys
  PROVE  BudgetStep(k)
<1>0. Windowed /\ TypeOK /\ RowsAdmitted
  BY DEF Budgeted, Windowed
<1>1. BooksNothing(r) /\ now' = now
  BY <1>0, HoldIsUnbooked
<1>2. WeekSpent(k)' = WeekSpent(k) /\ DaySpent(k)' = DaySpent(k)
  <2>1. WeekSpent(k)' = WeekSpent(k) + 0 /\ DaySpent(k)' = DaySpent(k) + 0
    BY <1>0, <1>1, SpentStep DEF BooksNothing
  <2>2. WeekSpent(k) \in Nat /\ DaySpent(k) \in Nat
    BY <1>0, SpentIsNat
  <2> QED
    BY <2>1, <2>2
<1>3. /\ keyReserved[k] \in Nat /\ res[r].micros \in Nat /\ KeyOf[r] \in Keys
      /\ WeekSpent(k) \in Nat /\ DaySpent(k) \in Nat
  BY <1>0, SpentIsNat, KeysAssumption DEF TypeOK, ReservationType
<1>4. ASSUME keyReserved'[k] = keyReserved[k] PROVE BudgetStep(k)
  BY <1>0, <1>2, <1>3, <1>4, BudgetIdle
<1>5. ASSUME k = KeyOf[r], admission[r] # NoPolicy, NEW others \in Int, NEW m \in Nat,
             keyReserved'[k] = others + m, FitsBudgets(k, admission[r], others, m)
      PROVE  BudgetStep(k)
  <2>1. admission[r] \in InForce(k)
    BY <1>5 DEF InForce
  <2>2. /\ WeekSpent(k)' + keyReserved'[k] = WeekSpent(k) + others + m
        /\ DaySpent(k)' + keyReserved'[k] = DaySpent(k) + others + m
    BY <1>2, <1>3, <1>5
  <2> QED
    BY <1>0, <1>5, <2>1, <2>2, BudgetFits
<1>6. CASE \E t \in TokenCounts : ReserveUnlimited(r, t) \/ ResizeUnlimited(r, t)
  BY <1>4, <1>6 DEF ReserveUnlimited, ResizeUnlimited, budgetVars
<1>7. ASSUME NEW m \in Holds, NEW t \in TokenCounts, NEW b \in BOOLEAN, ReservePrepaid(r, m, t, b)
      PROVE  BudgetStep(k)
  <2>1. m \in Nat
    BY AmountAssumption
  <2>2. CASE k # KeyOf[r]
    BY <1>0, <1>4, <1>7, <2>2 DEF ReservePrepaid, TypeOK
  <2>3. CASE k = KeyOf[r]
    <3>1. /\ admission[r] # NoPolicy /\ keyReserved'[k] = keyReserved[k] + m
          /\ FitsBudgets(k, admission[r], keyReserved[k], m)
      BY <1>0, <1>3, <1>7, <2>3 DEF ReservePrepaid, TypeOK
    <3> QED
      BY <1>3, <1>5, <2>1, <2>3, <3>1
  <2> QED
    BY <2>2, <2>3
<1>8. ASSUME NEW m \in Holds, NEW t \in TokenCounts, ResizePrepaid(r, m, t)
      PROVE  BudgetStep(k)
  <2>1. m \in Nat
    BY AmountAssumption
  <2>2. CASE k # KeyOf[r]
    BY <1>0, <1>4, <1>8, <2>2 DEF ResizePrepaid, TypeOK
  <2>3. CASE k = KeyOf[r]
    <3> DEFINE others == keyReserved[k] - res[r].micros
    <3>1. /\ others \in Int /\ keyReserved'[k] = others + m
          /\ FitsBudgets(k, admission[r], others, m)
      BY <1>0, <1>3, <1>8, <2>1, <2>3 DEF ResizePrepaid, TypeOK
    <3>2. admission[r] # NoPolicy
      BY <1>0, <1>8 DEF ResizePrepaid, RowsAdmitted
    <3> HIDE DEF others
    <3> QED
      BY <1>5, <2>1, <2>3, <3>1, <3>2
  <2> QED
    BY <2>2, <2>3
<1> QED
  BY <1>6, <1>7, <1>8 DEF Reserve, Resize

\* A charge above its hold fits the current budgets.
LEMMA BudgetSettle ==
  ASSUME Budgeted, TypeOK', NEW r \in Reservations, Settle(r), NEW k \in Keys
  PROVE  BudgetStep(k)
<1>0. Windowed /\ TypeOK
  BY DEF Budgeted, Windowed
<1>1. PICK calculated \in Charges, t \in TokenCounts :
             \/ SettlePrepaid(r, calculated, t)
             \/ SettleUnlimited(r, calculated, t)
  BY DEF Settle
<1>2. /\ keyReserved[k] \in Nat /\ res[r].micros \in Nat /\ KeyOf[r] \in Keys
      /\ WeekSpent(k) \in Nat /\ DaySpent(k) \in Nat /\ calculated \in Nat
      /\ res[r] \in ReservationType /\ now' = now /\ ~Settled(r)
  BY <1>0, <1>1, SpentIsNat, KeysAssumption, AmountAssumption
     DEF TypeOK, ReservationType, SettlePrepaid, SettleUnlimited
<1>3. ASSUME NEW actual, res' = [res EXCEPT ![r].status = "settled", ![r].actual = actual,
                                            ![r].used = t, ![r].settledAt = now]
      PROVE  /\ \A q \in Reservations \ {r} : res'[q] = res[q]
             /\ res'[r].status = "settled" /\ res'[r].actual = actual
             /\ res'[r].prepaid = res[r].prepaid /\ res'[r].settledAt = now
  <2>1. /\ \A q \in Reservations \ {r} : res'[q] = res[q]
        /\ res'[r] = [res[r] EXCEPT !.status = "settled", !.actual = actual,
                                    !.used = t, !.settledAt = now]
    BY <1>0, <1>3 DEF TypeOK
  <2>2. res'[r].status = "settled" /\ res'[r].actual = actual /\ res'[r].settledAt = now
    BY <1>2, <2>1 DEF ReservationType
  <2>3. res'[r].prepaid = res[r].prepaid
    BY <1>2, <2>1 DEF ReservationType
  <2> QED
    BY <2>1, <2>2, <2>3
<1>4. ASSUME NEW x \in Nat, x = 0, WeekSpent(k)' = WeekSpent(k) + x, DaySpent(k)' = DaySpent(k) + x,
             keyReserved'[k] <= keyReserved[k]
      PROVE  BudgetStep(k)
  <2>1. /\ WeekSpent(k)' <= WeekSpent(k) /\ DaySpent(k)' <= DaySpent(k)
        /\ WeekSpent(k)' \in Nat /\ DaySpent(k)' \in Nat
    BY <1>2, <1>4
  <2> QED
    BY <1>0, <1>4, <2>1, BudgetIdle
<1>5. CASE SettleUnlimited(r, calculated, t)
  <2>1. /\ res' = [res EXCEPT ![r].status = "settled", ![r].actual = calculated,
                              ![r].used = t, ![r].settledAt = now]
        /\ ~res[r].prepaid /\ keyReserved' = keyReserved
    BY <1>5 DEF SettleUnlimited, budgetVars
  <2>2. /\ \A q \in Reservations \ {r} : res'[q] = res[q]
        /\ ~res'[r].prepaid /\ res'[r].settledAt = now
    BY <1>3, <2>1
  <2>3. WeekSpent(k)' = WeekSpent(k) + 0 /\ DaySpent(k)' = DaySpent(k) + 0
    BY <1>0, <1>2, <2>2, SpentStep
  <2> QED
    BY <1>2, <1>4, <2>1, <2>3
<1>6. CASE SettlePrepaid(r, calculated, t)
  <2>1. PICK actual \in 0 .. calculated :
          IsCharge(r, calculated, actual) /\ BookCharge(r, actual, t)
    BY <1>6 DEF SettlePrepaid
  <2>2. actual \in Nat /\ res[r].prepaid /\ ReleaseHold(r, t)
    BY <1>2, <1>6 DEF SettlePrepaid
  <2>3. /\ \A q \in Reservations \ {r} : res'[q] = res[q]
        /\ res'[r].status = "settled" /\ res'[r].actual = actual
        /\ res'[r].prepaid /\ res'[r].settledAt = now
    <3>1. res' = [res EXCEPT ![r].status = "settled", ![r].actual = actual,
                             ![r].used = t, ![r].settledAt = now]
      BY <2>1 DEF BookCharge
    <3> QED
      BY <1>3, <2>2, <3>1
  <2>4. CASE k # KeyOf[r]
    <3>1. keyReserved'[k] = keyReserved[k]
      BY <1>0, <2>2, <2>4 DEF ReleaseHold, TypeOK
    <3>2. WeekSpent(k)' = WeekSpent(k) + 0 /\ DaySpent(k)' = DaySpent(k) + 0
      BY <1>0, <1>2, <2>3, <2>4, SpentStep
    <3> QED
      BY <1>2, <1>4, <3>1, <3>2
  <2>5. CASE k = KeyOf[r]
    <3> DEFINE m == res[r].micros
               others == keyReserved[k] - m
    <3>1. keyReserved'[k] = others /\ keyReserved[k] >= m
      BY <1>0, <1>2, <2>2, <2>5 DEF ReleaseHold, TypeOK
    <3>2. WeekSpent(k)' = WeekSpent(k) + actual /\ DaySpent(k)' = DaySpent(k) + actual
      BY <1>0, <1>2, <2>2, <2>3, <2>5, SpentStep
    <3>3. others \in Nat /\ others <= keyReserved[k]
      BY <1>2, <3>1
    <3>4. CASE actual = 0
      <4> HIDE DEF others
      <4> QED
        BY <1>4, <2>2, <3>1, <3>2, <3>3, <3>4
    <3>5. CASE actual # 0
      <4>1. FitsBudgets(k, policy[k], Larger(keyReserved[k] - m, 0), actual)
        BY <2>1, <2>5, <3>5 DEF IsCharge, Chargeable
      <4>2. Larger(keyReserved[k] - m, 0) = others
        BY <1>2, <3>1 DEF Larger
      <4>3. policy[k] \in InForce(k)
        BY DEF InForce
      <4>4. FitsBudgets(k, policy[k], others, actual)
        BY <4>1, <4>2
      <4> HIDE DEF others
      <4>5. /\ WeekSpent(k)' + keyReserved'[k] = WeekSpent(k) + others + actual
            /\ DaySpent(k)' + keyReserved'[k] = DaySpent(k) + others + actual
        BY <1>2, <2>2, <3>1, <3>2, <3>3
      <4> QED
        BY <1>0, <2>2, <3>3, <4>3, <4>4, <4>5, BudgetFits
    <3> QED
      BY <3>4, <3>5
  <2> QED
    BY <2>4, <2>5
<1> QED
  BY <1>1, <1>5, <1>6

\* Time takes charges out of the windows, never into them.
LEMMA BudgetTick ==
  ASSUME Budgeted, TypeOK', Tick, NEW k \in Keys
  PROVE  BudgetStep(k)
<1>0. TypeOK /\ now \in Nat /\ now' = now + 1 /\ res' = res /\ keyReserved' = keyReserved
      /\ keyReserved[k] \in Nat /\ now' \in Nat
  BY DEF Budgeted, Windowed, TypeOK, Times, Tick, budgetVars
<1> DEFINE f == Charged
<1>1. Charged' = f /\ \A r \in Reservations : f[r] \in Nat /\ res[r].settledAt \in Nat
  BY <1>0, RowFacts DEF Charged
<1>2. ASSUME NEW s \in Nat, NEW t \in Nat, s <= t
      PROVE  /\ SumFunctionOnSet(f, RowsSince(k, t)) <= SumFunctionOnSet(f, RowsSince(k, s))
             /\ SumFunctionOnSet(f, RowsSince(k, t)) \in Nat
  <2> DEFINE S == RowsSince(k, s)
             A == RowsSince(k, t)
  <2>1. S \in SUBSET Reservations /\ A \in SUBSET S
    BY <1>1, <1>2 DEF RowsSince
  <2>2. IsFiniteSet(S) /\ IsFiniteSet(A) /\ IsFiniteSet(S \ A)
    <3> HIDE DEF S, A
    <3> QED
      BY <2>1, RowsAreFinite
  <2> HIDE DEF S, A, f
  <2>3. /\ \A r \in S : f[r] \in Int
        /\ \A r \in A : f[r] \in Nat
        /\ \A r \in S \ A : f[r] \in Nat
    BY <1>1, <2>1
  <2>4. SumFunctionOnSet(f, S) = SumFunctionOnSet(f, A) + SumFunctionOnSet(f, S \ A)
    BY <2>1, <2>2, <2>3, SumSplit
  <2>5. SumFunctionOnSet(f, A) \in Nat /\ SumFunctionOnSet(f, S \ A) \in Nat
    BY <2>2, <2>3, SumOfNats
  <2>6. SumFunctionOnSet(f, A) <= SumFunctionOnSet(f, S)
    BY <2>4, <2>5
  <2> QED
    BY <2>5, <2>6 DEF S, A
<1>3. WeekCutoff \in Nat /\ WeekCutoff' \in Nat /\ WeekCutoff <= WeekCutoff'
  <2>1. WeekDays * DayLen \in Nat
    BY TimeAssumption, SMT
  <2>2. WeekCutoff' \in Nat
    BY <1>0, <2>1 DEF WeekCutoff, Larger
  <2> QED
    BY <1>0, <2>2, CutoffFacts, CutoffGrows
<1> DEFINE p == Day(now) * DayLen
           q == Day(now') * DayLen
<1>4. p \in Nat /\ q \in Nat /\ p <= q
  <2>1. /\ Day(now) \in Nat /\ Day(now') \in Nat /\ Day(now) <= Day(now') /\ DayLen \in Nat
    BY <1>0, DayAtLeast, DayGrows, TimeAssumption
  <2>2. ASSUME NEW i \in Nat, NEW j \in Nat, NEW n \in Nat, i <= j
        PROVE  i * n <= j * n /\ i * n \in Nat /\ j * n \in Nat
    BY <2>2, SMT
  <2> QED
    BY <2>1, <2>2
<1>5. /\ WeekSpent(k)' = SumFunctionOnSet(f, RowsSince(k, WeekCutoff'))
      /\ DaySpent(k)' = SumFunctionOnSet(f, RowsSince(k, q))
  <2>1. RowsSince(k, WeekCutoff)' = RowsSince(k, WeekCutoff')
    BY <1>0 DEF RowsSince
  <2>2. RowsSince(k, Day(now) * DayLen)' = RowsSince(k, q)
    BY <1>0 DEF RowsSince, Day
  <2> QED
    BY <1>1, <2>1, <2>2 DEF WeekSpent, DaySpent
<1>6. /\ WeekSpent(k)' <= WeekSpent(k) /\ WeekSpent(k)' \in Nat
      /\ DaySpent(k)' <= DaySpent(k) /\ DaySpent(k)' \in Nat
  <2>1. WeekSpent(k) = SumFunctionOnSet(f, RowsSince(k, WeekCutoff))
        /\ DaySpent(k) = SumFunctionOnSet(f, RowsSince(k, p))
    BY DEF WeekSpent, DaySpent
  <2> HIDE DEF f, p, q
  <2> QED
    BY <1>2, <1>3, <1>4, <1>5, <2>1
<1> QED
  BY <1>0, <1>6, BudgetIdle

\* A step that leaves rows, holds and the clock alone spends nothing.
LEMMA BudgetStill ==
  ASSUME TypeOK, TypeOK', res' = res, keyReserved' = keyReserved, now' = now, NEW k \in Keys
  PROVE  BudgetStep(k)
<1>1. WeekSpent(k)' = WeekSpent(k) /\ DaySpent(k)' = DaySpent(k)
  BY DEF WeekSpent, DaySpent, RowsSince, Charged, WeekCutoff, Larger, Day
<1>2. WeekSpent(k) \in Nat /\ DaySpent(k) \in Nat /\ keyReserved[k] \in Nat
  BY SpentIsNat DEF TypeOK
<1> QED
  BY <1>1, <1>2, BudgetIdle

\* No step takes a key past its daily or weekly budget.
LEMMA BudgetSteps == Budgeted /\ [Next]_vars => \A k \in Keys : BudgetStep(k)
<1> SUFFICES ASSUME Budgeted, [Next]_vars, NEW k \in Keys PROVE BudgetStep(k)
  OBVIOUS
<1>0. TypeOK /\ TypeOK'
  BY TypeNext DEF Budgeted, Windowed
<1>1. CASE \E r \in Reservations : Reserve(r) \/ Resize(r) \/ Settle(r)
  BY <1>0, <1>1, BudgetHold, BudgetSettle
<1>2. CASE Tick
  BY <1>0, <1>2, BudgetTick
<1>3. CASE res' = res /\ keyReserved' = keyReserved /\ now' = now
  BY <1>0, <1>3, BudgetStill
<1>4. \/ \E r \in Reservations : Reserve(r) \/ Resize(r) \/ Settle(r)
      \/ Tick
      \/ res' = res /\ keyReserved' = keyReserved /\ now' = now
  BY DEF Next, Authenticate, ProjectMetered, SetPolicy, GrantCredit, ReverseGrant,
         PruneBudgets, PruneRateWindows, budgetVars, vars
<1> QED
  BY <1>1, <1>2, <1>3, <1>4

\* No interleaving of admissions, candidate switches, settlements, policy edits,
\* cleanup and time takes a key past its daily or weekly budget.
THEOREM WindowBudgetsHold == Spec => WindowBudgetsRespected
BY BudgetedInit, BudgetedNext, BudgetSteps, PTL DEF Spec, WindowBudgetsRespected

-----------------------------------------------------------------------------
(* Subscriptions and rebates.                                              *)

\* The rows that subscriptions and rebates add to the tables.
SubType     == [status : {"none", "active", "cancelled", "replaced"}, version : Nat,
                cycle : Int]
RebateType  == [desired : Nat, version : Nat]
EntitlementTypes ==
  /\ TypeOK
  /\ sub \in [Subscriptions -> SubType]
  /\ rebate \in [Reservations -> [Namespaces -> RebateType]]
  /\ baseline \in [Reservations -> Nat \cup {NoBaseline}]

\* A subscription row names one of its own cycles, a cycle that exists belongs
\* to its subscription's account, and one that does not has given nothing.
CyclesAreOwned ==
  /\ \A s \in Subscriptions : sub[s].status # "none" =>
       sub[s].cycle \in Cycles /\ CycleSub[sub[s].cycle] = s
  /\ \A c \in Cycles :
       /\ cycle[c].status = "none" => cycle[c].consumed = 0
       /\ cycle[c].status # "none" => cycle[c].account = SubAccount[CycleSub[c]]

\* Only settlements of the feed are drawn from cycles or rebated, and a
\* settlement draws from the cycles of its own account.
DrawsAreCharges ==
  \A r \in Reservations :
    /\ ~InFeed(r) => /\ baseline[r] = NoBaseline
                     /\ \A n \in Namespaces : rebate[r][n].desired = 0
                     /\ \A c \in Cycles : alloc[r][c] = 0
    /\ \A c \in Cycles : alloc[r][c] > 0 => /\ cycle[c].status # "none"
                                            /\ cycle[c].account = Account(r)

Funded == /\ EntitlementTypes /\ CyclesAreOwned /\ FundingCoversConsumption
          /\ DrawsAreCharges /\ ConsumptionIsAllocated /\ CreditConserved

\* What adjust_entitlement_cycle makes of a cycle row.
LEMMA AdjustedFacts ==
  ASSUME TypeOK, NEW c \in Cycles, NEW d \in Nat, NEW revoke \in BOOLEAN,
         NEW st \in {"active", "expired", "cancelled", "replaced"}
  PROVE  /\ Adjusted(c, d, st, revoke) \in CycleType
         /\ Adjusted(c, d, st, revoke).status = st
         /\ Adjusted(c, d, st, revoke).desired = d
         /\ Adjusted(c, d, st, revoke).funded = Funding(c, d, revoke)
         /\ Adjusted(c, d, st, revoke).consumed = cycle[c].consumed
         /\ Adjusted(c, d, st, revoke).account = cycle[c].account
         /\ Adjusted(c, d, st, revoke).end = cycle[c].end
         /\ Funding(c, d, revoke) \in Nat /\ Delta(c, d, revoke) \in Int
<1>1. cycle[c] \in CycleType
  BY DEF TypeOK
<1>2. /\ cycle[c].consumed \in Nat /\ cycle[c].funded \in Nat
  BY <1>1 DEF CycleType
<1>3. Funding(c, d, revoke) \in Nat /\ Delta(c, d, revoke) \in Int
  BY <1>2 DEF Funding, Delta, Larger
<1> DEFINE n == Funding(c, d, revoke)
<1>4. Adjusted(c, d, st, revoke) = [cycle[c] EXCEPT !.desired = d, !.status = st, !.funded = n]
  BY DEF Adjusted
<1> HIDE DEF n
<1>5. n \in Nat
  BY <1>3 DEF n
<1>6. LET row == [cycle[c] EXCEPT !.desired = d, !.status = st, !.funded = n] IN
      /\ row \in CycleType
      /\ row.status = st /\ row.desired = d /\ row.funded = n
      /\ row.consumed = cycle[c].consumed /\ row.account = cycle[c].account
      /\ row.start = cycle[c].start /\ row.end = cycle[c].end
  BY <1>1, <1>5 DEF CycleType
<1> QED
  BY <1>3, <1>4, <1>6 DEF n

\* A cycle that a reconciliation reports takes the reported period.
LEMMA OpenedFacts ==
  ASSUME TypeOK, NEW c \in Cycles, NEW s \in Subscriptions, NEW d \in Nat
  PROVE  /\ Opened(c, s, d) \in CycleType
         /\ Opened(c, s, d).status = "active"
         /\ Opened(c, s, d).desired = d
         /\ Opened(c, s, d).funded = Funding(c, d, FALSE)
         /\ Opened(c, s, d).consumed = cycle[c].consumed
         /\ Opened(c, s, d).account = SubAccount[s]
         /\ Opened(c, s, d).end = Period[c].end
<1> DEFINE row == Adjusted(c, d, "active", FALSE)
<1>1. /\ row \in CycleType /\ row.status = "active" /\ row.desired = d
      /\ row.funded = Funding(c, d, FALSE) /\ row.consumed = cycle[c].consumed
  <2>1. FALSE \in BOOLEAN /\ "active" \in {"active", "expired", "cancelled", "replaced"}
    OBVIOUS
  <2>2. \A revoke \in BOOLEAN, st \in {"active", "expired", "cancelled", "replaced"} :
          /\ Adjusted(c, d, st, revoke) \in CycleType
          /\ Adjusted(c, d, st, revoke).status = st
          /\ Adjusted(c, d, st, revoke).desired = d
          /\ Adjusted(c, d, st, revoke).funded = Funding(c, d, revoke)
          /\ Adjusted(c, d, st, revoke).consumed = cycle[c].consumed
    BY AdjustedFacts
  <2> QED
    BY <2>1, <2>2, Zenon
<1>2. SubAccount[s] \in Accounts /\ Period[c].start \in Nat /\ Period[c].end \in Nat
  BY SubscriptionAssumption
<1> DEFINE a == SubAccount[s]
           from == Period[c].start
           to == Period[c].end
           n == Funding(c, d, FALSE)
<1>3. Opened(c, s, d) = [row EXCEPT !.account = a, !.start = from, !.end = to]
  BY DEF Opened
<1>4. /\ row \in CycleType /\ row.status = "active" /\ row.desired = d
      /\ row.funded = n /\ row.consumed = cycle[c].consumed
      /\ a \in Accounts /\ from \in Nat /\ to \in Nat
  BY <1>1, <1>2
<1> HIDE DEF row, a, from, to, n
<1>5. LET new == [row EXCEPT !.account = a, !.start = from, !.end = to] IN
      /\ new \in CycleType
      /\ new.status = "active" /\ new.desired = d /\ new.funded = n
      /\ new.consumed = cycle[c].consumed /\ new.account = a /\ new.end = to
  BY <1>4 DEF CycleType
<1> QED
  BY <1>3, <1>5 DEF a, to, n

\* The rows that an event writes, apart from which cycle is current.
LEMMA WrittenCycles ==
  ASSUME TypeOK, NEW changed, WriteCycles(changed),
         \A c \in Cycles : c \in DOMAIN changed => changed[c] \in CycleType
  PROVE  /\ cycle' \in [Cycles -> CycleType]
         /\ \A c \in Cycles :
              LET row == IF c \in DOMAIN changed THEN changed[c] ELSE cycle[c] IN
              /\ cycle'[c].status = row.status /\ cycle'[c].account = row.account
              /\ cycle'[c].end = row.end /\ cycle'[c].desired = row.desired
              /\ cycle'[c].funded = row.funded /\ cycle'[c].consumed = row.consumed
<1> DEFINE row(c) == IF c \in DOMAIN changed THEN changed[c] ELSE cycle[c]
           now1(c) == /\ sub'[CycleSub[c]].status = "active"
                      /\ sub'[CycleSub[c]].cycle = c
<1>1. cycle' = [c \in Cycles |-> [row(c) EXCEPT !.current = now1(c)]]
  BY DEF WriteCycles
<1>2. \A c \in Cycles : row(c) \in CycleType /\ now1(c) \in BOOLEAN
  BY DEF TypeOK
<1> HIDE DEF row, now1
<1>3. \A c \in Cycles : /\ cycle'[c] = [row(c) EXCEPT !.current = now1(c)]
  BY <1>1
<1>4. ASSUME NEW c \in Cycles
      PROVE  /\ [row(c) EXCEPT !.current = now1(c)] \in CycleType
             /\ cycle'[c].status = row(c).status /\ cycle'[c].account = row(c).account
             /\ cycle'[c].end = row(c).end /\ cycle'[c].desired = row(c).desired
             /\ cycle'[c].funded = row(c).funded /\ cycle'[c].consumed = row(c).consumed
  BY <1>2, <1>3 DEF CycleType
<1>5. cycle' \in [Cycles -> CycleType]
  BY <1>1, <1>4
<1> QED
  BY <1>4, <1>5 DEF row

\* What is left of a revoked cycle is what it has given, and a reported cycle
\* is funded with what is asked for or with what it has given, if more.
LEMMA RevokedFacts ==
  ASSUME TypeOK, NEW c \in Cycles, NEW st \in {"expired", "cancelled", "replaced"}
  PROVE  /\ Adjusted(c, cycle[c].desired, st, TRUE) \in CycleType
         /\ Adjusted(c, cycle[c].desired, st, TRUE).status = st
         /\ Adjusted(c, cycle[c].desired, st, TRUE).funded = cycle[c].consumed
         /\ Adjusted(c, cycle[c].desired, st, TRUE).consumed = cycle[c].consumed
         /\ Adjusted(c, cycle[c].desired, st, TRUE).account = cycle[c].account
         /\ Delta(c, cycle[c].desired, TRUE) = cycle[c].consumed - cycle[c].funded
<1> DEFINE d == cycle[c].desired
<1>1. cycle[c] \in CycleType
  BY DEF TypeOK
<1>2. d \in Nat
  BY <1>1 DEF CycleType
<1> HIDE DEF d
<1>3. \A revoke \in BOOLEAN, t \in {"active", "expired", "cancelled", "replaced"} :
          /\ Adjusted(c, d, t, revoke) \in CycleType
          /\ Adjusted(c, d, t, revoke).status = t
          /\ Adjusted(c, d, t, revoke).funded = Funding(c, d, revoke)
          /\ Adjusted(c, d, t, revoke).consumed = cycle[c].consumed
          /\ Adjusted(c, d, t, revoke).account = cycle[c].account
  BY <1>2, AdjustedFacts
<1>4. TRUE \in BOOLEAN /\ st \in {"active", "expired", "cancelled", "replaced"}
  OBVIOUS
<1>5. /\ Adjusted(c, d, st, TRUE) \in CycleType
      /\ Adjusted(c, d, st, TRUE).status = st
      /\ Adjusted(c, d, st, TRUE).funded = Funding(c, d, TRUE)
      /\ Adjusted(c, d, st, TRUE).consumed = cycle[c].consumed
      /\ Adjusted(c, d, st, TRUE).account = cycle[c].account
  BY <1>3, <1>4, Zenon
<1>6. Funding(c, d, TRUE) = cycle[c].consumed
  BY DEF Funding
<1>7. Delta(c, d, TRUE) = cycle[c].consumed - cycle[c].funded
  BY <1>6 DEF Delta
<1> QED
  BY <1>5, <1>6, <1>7 DEF d

\* What reporting makes of a cycle row.
LEMMA ReportedFacts ==
  ASSUME TypeOK, NEW c \in Cycles, NEW d \in Nat
  PROVE  /\ Funding(c, d, FALSE) = Larger(d, cycle[c].consumed)
         /\ Delta(c, d, FALSE) = Larger(d, cycle[c].consumed) - cycle[c].funded
<1>1. Funding(c, d, FALSE) = Larger(d, cycle[c].consumed)
  BY DEF Funding
<1> QED
  BY <1>1 DEF Delta

\* A subscription event on account a: the cycles R are revoked, the cycles O
\* reported, the rest stays.
RevokedRow(c) ==
  /\ cycle[c].status # "none" /\ cycle'[c].status \in {"expired", "cancelled", "replaced"}
  /\ cycle'[c].funded = cycle[c].consumed /\ cycle'[c].consumed = cycle[c].consumed
  /\ cycle'[c].account = cycle[c].account
ReportedRow(c) ==
  /\ cycle'[c].status = "active" /\ cycle'[c].consumed = cycle[c].consumed
  /\ cycle'[c].funded = Larger(cycle'[c].desired, cycle[c].consumed)
  /\ cycle'[c].account = SubAccount[CycleSub[c]]
KeptRow(c) ==
  /\ cycle'[c].status = cycle[c].status /\ cycle'[c].account = cycle[c].account
  /\ cycle'[c].end = cycle[c].end /\ cycle'[c].desired = cycle[c].desired
  /\ cycle'[c].funded = cycle[c].funded /\ cycle'[c].consumed = cycle[c].consumed
OwnedBy(a) == {c \in Cycles : SubAccount[CycleSub[c]] = a}
Gain == [c \in Cycles |-> cycle'[c].funded - cycle[c].funded]
Event(a, R, O) ==
  /\ R \subseteq OwnedBy(a) /\ O \subseteq OwnedBy(a) /\ R \cap O = {}
  /\ \A c \in R : RevokedRow(c)
  /\ \A c \in O : ReportedRow(c)
  /\ \A c \in Cycles \ (R \cup O) : KeptRow(c)
  /\ Credit(a, SumFunctionOnSet(Gain, Cycles))
  /\ UNCHANGED << now, admission, held, usage, budgetVars, res, rate,
                  usageEntries, outbox, grantVars, alloc, rebateVars >>

\* The gains of an event that touches the cycles T alone.
LEMMA GainFacts ==
  ASSUME cycle \in [Cycles -> CycleType], cycle' \in [Cycles -> CycleType],
         NEW T \in SUBSET Cycles, \A c \in Cycles \ T : cycle'[c].funded = cycle[c].funded
  PROVE  /\ \A c \in Cycles : Gain[c] \in Int
         /\ SumFunctionOnSet(Gain, Cycles) = SumFunctionOnSet(Gain, T)
         /\ IsFiniteSet(T)
         /\ \A c \in T : SumFunctionOnSet(Gain, T) = Gain[c] + SumFunctionOnSet(Gain, T \ {c})
<1>1. \A c \in Cycles : cycle[c].funded \in Nat /\ cycle'[c].funded \in Nat
  BY DEF CycleType
<1>2. \A c \in Cycles : Gain[c] \in Int
  BY <1>1 DEF Gain
<1>3. \A c \in Cycles \ T : Gain[c] = 0
  BY <1>1 DEF Gain
<1>4. IsFiniteSet(Cycles) /\ IsFiniteSet(T)
  BY FiniteAssumption, FS_Subset
<1> HIDE DEF Gain
<1>5. SumFunctionOnSet(Gain, Cycles) = SumFunctionOnSet(Gain, T)
  BY <1>2, <1>3, <1>4, SumOfSome
<1>6. \A c \in T : SumFunctionOnSet(Gain, T) = Gain[c] + SumFunctionOnSet(Gain, T \ {c})
  BY <1>2, <1>4, SumOfOthers
<1> QED
  BY <1>2, <1>4, <1>5, <1>6

\* A reconciliation revokes the subscription's other active cycles.
LEMMA SnapshotIsEvent ==
  ASSUME TypeOK, NEW s \in Subscriptions, NEW c \in Cycles, NEW d \in Desired,
         NEW v \in Versions, Snapshot(s, c, d, v)
  PROVE  /\ Event(SubAccount[s], Stale(s, c), {c})
         /\ cycle' \in [Cycles -> CycleType]
<1> DEFINE a == SubAccount[s]
           R == Stale(s, c)
           changed == [x \in R \cup {c} |->
                         IF x = c THEN Opened(c, s, d)
                                  ELSE Adjusted(x, cycle[x].desired, "expired", TRUE)]
           loss == [x \in Cycles |-> Delta(x, cycle[x].desired, TRUE)]
           gain == SumFunctionOnSet(loss, R) + Delta(c, d, FALSE)
<1>1. /\ CycleSub[c] = s /\ WriteCycles(changed) /\ Credit(a, gain)
      /\ UNCHANGED << now, admission, held, usage, budgetVars, res, rate,
                      usageEntries, outbox, grantVars, alloc, rebateVars >>
  BY DEF Snapshot
<1>2. /\ R \subseteq Cycles /\ c \notin R
      /\ \A x \in R : CycleSub[x] = s /\ cycle[x].status = "active"
  BY DEF Stale
<1>3. d \in Nat
  BY SubscriptionAssumption
<1>4. "expired" \in {"expired", "cancelled", "replaced"}
  OBVIOUS
<1>5. ASSUME NEW x \in R
      PROVE  /\ changed[x] \in CycleType /\ changed[x].status = "expired"
             /\ changed[x].funded = cycle[x].consumed
             /\ changed[x].consumed = cycle[x].consumed
             /\ changed[x].account = cycle[x].account
             /\ loss[x] = cycle[x].consumed - cycle[x].funded
  <2>1. x \in Cycles /\ x # c /\ changed[x] = Adjusted(x, cycle[x].desired, "expired", TRUE)
    BY <1>2
  <2>2. loss[x] = Delta(x, cycle[x].desired, TRUE)
    BY <2>1
  <2> HIDE DEF changed, loss
  <2> QED
    BY <1>4, <2>1, <2>2, RevokedFacts
<1>6. /\ changed[c] \in CycleType /\ changed[c].status = "active" /\ changed[c].desired = d
      /\ changed[c].funded = Larger(d, cycle[c].consumed)
      /\ changed[c].consumed = cycle[c].consumed /\ changed[c].account = a
      /\ Delta(c, d, FALSE) = Larger(d, cycle[c].consumed) - cycle[c].funded
  <2>1. changed[c] = Opened(c, s, d)
    OBVIOUS
  <2> HIDE DEF changed
  <2>2. /\ Opened(c, s, d) \in CycleType
        /\ Opened(c, s, d).status = "active"
        /\ Opened(c, s, d).desired = d
        /\ Opened(c, s, d).funded = Funding(c, d, FALSE)
        /\ Opened(c, s, d).consumed = cycle[c].consumed
        /\ Opened(c, s, d).account = SubAccount[s]
    BY <1>3, OpenedFacts
  <2>3. /\ Funding(c, d, FALSE) = Larger(d, cycle[c].consumed)
        /\ Delta(c, d, FALSE) = Larger(d, cycle[c].consumed) - cycle[c].funded
    BY <1>3, ReportedFacts
  <2> QED
    BY <2>1, <2>2, <2>3
<1>7. DOMAIN changed = R \cup {c}
  OBVIOUS
<1> HIDE DEF changed, R, loss
<1>8. \A x \in Cycles : x \in DOMAIN changed => changed[x] \in CycleType
  BY <1>5, <1>6, <1>7
<1>9. /\ cycle' \in [Cycles -> CycleType]
      /\ \A x \in Cycles :
              LET row == IF x \in DOMAIN changed THEN changed[x] ELSE cycle[x] IN
              /\ cycle'[x].status = row.status /\ cycle'[x].account = row.account
              /\ cycle'[x].end = row.end /\ cycle'[x].desired = row.desired
              /\ cycle'[x].funded = row.funded /\ cycle'[x].consumed = row.consumed
  BY <1>1, <1>8, WrittenCycles
<1>10. \A x \in R : /\ cycle'[x].status = "expired" /\ cycle'[x].funded = cycle[x].consumed
                    /\ cycle'[x].consumed = cycle[x].consumed
                    /\ cycle'[x].account = cycle[x].account
  BY <1>2, <1>5, <1>7, <1>9
<1>11. /\ cycle'[c].status = "active" /\ cycle'[c].desired = d
       /\ cycle'[c].funded = Larger(d, cycle[c].consumed)
       /\ cycle'[c].consumed = cycle[c].consumed /\ cycle'[c].account = a
  BY <1>6, <1>7, <1>9
<1>12. \A x \in Cycles \ (R \cup {c}) : KeptRow(x)
  BY <1>7, <1>9 DEF KeptRow
<1>13. gain = SumFunctionOnSet(Gain, Cycles)
  <2>1. R \cup {c} \in SUBSET Cycles /\ (R \cup {c}) \ {c} = R
    BY <1>2
  <2>2. \A x \in Cycles \ (R \cup {c}) : cycle'[x].funded = cycle[x].funded
    BY <1>12 DEF KeptRow
  <2>3. cycle \in [Cycles -> CycleType]
    BY DEF TypeOK
  <2>4. /\ SumFunctionOnSet(Gain, Cycles) = SumFunctionOnSet(Gain, R \cup {c})
        /\ SumFunctionOnSet(Gain, R \cup {c}) = Gain[c] + SumFunctionOnSet(Gain, R)
        /\ IsFiniteSet(R \cup {c}) /\ \A x \in Cycles : Gain[x] \in Int
    BY <1>9, <2>1, <2>2, <2>3, GainFacts
  <2>5. \A x \in R : loss[x] = Gain[x]
    BY <1>2, <1>5, <1>10 DEF Gain
  <2>6. IsFiniteSet(R)
    BY <2>4, FS_Subset
  <2>7. SumFunctionOnSet(loss, R) = SumFunctionOnSet(Gain, R)
    BY <2>5, <2>6, SumOfSame
  <2>8. Gain[c] = Delta(c, d, FALSE)
    BY <1>6, <1>11 DEF Gain
  <2>9. \A x \in R : Gain[x] \in Int
    BY <1>2, <2>4
  <2>10. Gain[c] \in Int /\ SumFunctionOnSet(Gain, R) \in Int
    BY <2>4, <2>6, <2>9, SumOfOthers
  <2> DEFINE e == Delta(c, d, FALSE)
             x == SumFunctionOnSet(Gain, R)
  <2>11. gain = x + e /\ SumFunctionOnSet(Gain, Cycles) = e + x /\ e \in Int /\ x \in Int
    BY <2>4, <2>7, <2>8, <2>10, Zenon
  <2> HIDE DEF e, x, gain
  <2> QED
    BY <2>11
<1> HIDE DEF gain
<1>14. \A x \in R : RevokedRow(x)
  BY <1>2, <1>10 DEF RevokedRow
<1>15. ReportedRow(c)
  BY <1>1, <1>11 DEF ReportedRow
<1>16. R \subseteq OwnedBy(a) /\ {c} \subseteq OwnedBy(a) /\ R \cap {c} = {}
  BY <1>1, <1>2 DEF OwnedBy
<1>17. Credit(a, SumFunctionOnSet(Gain, Cycles))
  BY <1>1, <1>13
<1>18. Event(a, R, {c})
  BY <1>1, <1>12, <1>14, <1>15, <1>16, <1>17 DEF Event
<1> QED
  BY <1>9, <1>18 DEF R

\* A cancellation revokes the subscription's cycle.
LEMMA CancelIsEvent ==
  ASSUME TypeOK, CyclesAreOwned, SubscriptionsMatchCycles, NEW s \in Subscriptions,
         NEW v \in Versions, CancelEntitlement(s, v)
  PROVE  /\ Event(SubAccount[s], {sub[s].cycle}, {})
         /\ cycle' \in [Cycles -> CycleType]
         /\ sub[s].cycle \in Cycles /\ cycle'[sub[s].cycle].status = "cancelled"
<1> DEFINE a == SubAccount[s]
           c == sub[s].cycle
           changed == [x \in {c} |-> Adjusted(c, cycle[c].desired, "cancelled", TRUE)]
           gain == Delta(c, cycle[c].desired, TRUE)
<1>1. /\ sub[s].status \in {"active", "cancelled"} /\ WriteCycles(changed) /\ Credit(a, gain)
      /\ UNCHANGED << now, admission, held, usage, budgetVars, res, rate,
                      usageEntries, outbox, grantVars, alloc, rebateVars >>
  BY DEF CancelEntitlement
<1>2. c \in Cycles /\ CycleSub[c] = s /\ cycle[c].status # "none"
  BY <1>1 DEF CyclesAreOwned, SubscriptionsMatchCycles
<1>3. "cancelled" \in {"expired", "cancelled", "replaced"}
  OBVIOUS
<1>4. DOMAIN changed = {c} /\ changed[c] = Adjusted(c, cycle[c].desired, "cancelled", TRUE)
  OBVIOUS
<1> HIDE DEF changed, c, gain
<1>5. /\ changed[c] \in CycleType /\ changed[c].status = "cancelled"
      /\ changed[c].funded = cycle[c].consumed /\ changed[c].consumed = cycle[c].consumed
      /\ changed[c].account = cycle[c].account
      /\ gain = cycle[c].consumed - cycle[c].funded
  BY <1>2, <1>3, <1>4, RevokedFacts DEF gain
<1>6. \A x \in Cycles : x \in DOMAIN changed => changed[x] \in CycleType
  BY <1>4, <1>5
<1>7. /\ cycle' \in [Cycles -> CycleType]
      /\ \A x \in Cycles :
              LET row == IF x \in DOMAIN changed THEN changed[x] ELSE cycle[x] IN
              /\ cycle'[x].status = row.status /\ cycle'[x].account = row.account
              /\ cycle'[x].end = row.end /\ cycle'[x].desired = row.desired
              /\ cycle'[x].funded = row.funded /\ cycle'[x].consumed = row.consumed
  BY <1>1, <1>6, WrittenCycles
<1>8. /\ cycle'[c].status = "cancelled" /\ cycle'[c].funded = cycle[c].consumed
      /\ cycle'[c].consumed = cycle[c].consumed /\ cycle'[c].account = cycle[c].account
  BY <1>2, <1>4, <1>5, <1>7
<1>9. \A x \in Cycles \ {c} : KeptRow(x)
  BY <1>4, <1>7 DEF KeptRow
<1>10. gain = SumFunctionOnSet(Gain, Cycles)
  <2>1. \A x \in Cycles \ {c} : cycle'[x].funded = cycle[x].funded
    BY <1>9 DEF KeptRow
  <2>2. {c} \in SUBSET Cycles /\ cycle \in [Cycles -> CycleType] /\ {c} \ {c} = {}
    BY <1>2 DEF TypeOK
  <2>3. /\ SumFunctionOnSet(Gain, Cycles) = Gain[c] + SumFunctionOnSet(Gain, {})
        /\ Gain[c] \in Int
    BY <1>2, <1>7, <2>1, <2>2, GainFacts
  <2>4. SumFunctionOnSet(Gain, {}) = 0
    BY FS_EmptySet, SumStep
  <2>5. Gain[c] = gain
    BY <1>2, <1>5, <1>8 DEF Gain
  <2> QED
    BY <2>3, <2>4, <2>5
<1>11. RevokedRow(c)
  BY <1>2, <1>8 DEF RevokedRow
<1>12. {c} \subseteq OwnedBy(a) /\ {} \subseteq OwnedBy(a) /\ {c} \cap {} = {} /\ {c} \cup {} = {c}
  BY <1>2 DEF OwnedBy
<1>13. Event(a, {c}, {})
  BY <1>1, <1>9, <1>10, <1>11, <1>12 DEF Event
<1> QED
  BY <1>2, <1>7, <1>8, <1>13 DEF c

\* A replacement revokes the old subscription's cycle and reports the new one's.
LEMMA ReplaceIsEvent ==
  ASSUME TypeOK, CyclesAreOwned, SubscriptionsMatchCycles, NEW s \in Subscriptions,
         NEW v \in Versions, NEW t \in Subscriptions, NEW c \in Cycles, NEW d \in Desired,
         NEW w \in Versions, ReplaceEntitlement(s, v, t, c, d, w)
  PROVE  /\ Event(SubAccount[s], {sub[s].cycle}, {c})
         /\ cycle' \in [Cycles -> CycleType]
         /\ sub[s].cycle \in Cycles /\ cycle'[sub[s].cycle].status = "replaced"
<1> DEFINE a == SubAccount[s]
           old == sub[s].cycle
           changed == [x \in {old, c} |->
                         IF x = c THEN Opened(c, t, d)
                                  ELSE Adjusted(old, cycle[old].desired, "replaced", TRUE)]
           loss == Delta(old, cycle[old].desired, TRUE)
           gain == Delta(c, d, FALSE)
<1>1. /\ sub[s].status \in {"active", "cancelled"} /\ WriteCycles(changed)
      /\ SubAccount[t] = a /\ sub[t].status = "none" /\ CycleSub[c] = t
      /\ UNCHANGED << now, admission, held, usage, budgetVars, res, rate,
                      usageEntries, outbox, grantVars, alloc, rebateVars >>
  BY DEF ReplaceEntitlement
<1>2. Credit(a, loss + gain)
  BY DEF ReplaceEntitlement
<1>3. old \in Cycles /\ CycleSub[old] = s /\ cycle[old].status # "none" /\ old # c
  BY <1>1 DEF CyclesAreOwned, SubscriptionsMatchCycles
<1>4. d \in Nat /\ "replaced" \in {"expired", "cancelled", "replaced"}
  BY SubscriptionAssumption
<1>5. /\ DOMAIN changed = {old, c} /\ changed[c] = Opened(c, t, d)
      /\ changed[old] = Adjusted(old, cycle[old].desired, "replaced", TRUE)
  BY <1>3
<1> HIDE DEF changed, old, loss, gain
<1>6. /\ changed[old] \in CycleType /\ changed[old].status = "replaced"
      /\ changed[old].funded = cycle[old].consumed
      /\ changed[old].consumed = cycle[old].consumed
      /\ changed[old].account = cycle[old].account
      /\ loss = cycle[old].consumed - cycle[old].funded
  BY <1>3, <1>4, <1>5, RevokedFacts DEF loss
<1>7. /\ changed[c] \in CycleType /\ changed[c].status = "active" /\ changed[c].desired = d
      /\ changed[c].funded = Larger(d, cycle[c].consumed)
      /\ changed[c].consumed = cycle[c].consumed /\ changed[c].account = a
      /\ gain = Larger(d, cycle[c].consumed) - cycle[c].funded
  <2>1. /\ Opened(c, t, d) \in CycleType
        /\ Opened(c, t, d).status = "active"
        /\ Opened(c, t, d).desired = d
        /\ Opened(c, t, d).funded = Funding(c, d, FALSE)
        /\ Opened(c, t, d).consumed = cycle[c].consumed
        /\ Opened(c, t, d).account = SubAccount[t]
    BY <1>4, OpenedFacts
  <2>2. /\ Funding(c, d, FALSE) = Larger(d, cycle[c].consumed)
        /\ gain = Larger(d, cycle[c].consumed) - cycle[c].funded
    BY <1>4, ReportedFacts DEF gain
  <2> QED
    BY <1>1, <1>5, <2>1, <2>2
<1>8. \A x \in Cycles : x \in DOMAIN changed => changed[x] \in CycleType
  BY <1>5, <1>6, <1>7
<1>9. /\ cycle' \in [Cycles -> CycleType]
      /\ \A x \in Cycles :
              LET row == IF x \in DOMAIN changed THEN changed[x] ELSE cycle[x] IN
              /\ cycle'[x].status = row.status /\ cycle'[x].account = row.account
              /\ cycle'[x].end = row.end /\ cycle'[x].desired = row.desired
              /\ cycle'[x].funded = row.funded /\ cycle'[x].consumed = row.consumed
  BY <1>1, <1>8, WrittenCycles
<1>10. /\ cycle'[old].status = "replaced" /\ cycle'[old].funded = cycle[old].consumed
       /\ cycle'[old].consumed = cycle[old].consumed
       /\ cycle'[old].account = cycle[old].account
  BY <1>3, <1>5, <1>6, <1>9
<1>11. /\ cycle'[c].status = "active" /\ cycle'[c].desired = d
       /\ cycle'[c].funded = Larger(d, cycle[c].consumed)
       /\ cycle'[c].consumed = cycle[c].consumed /\ cycle'[c].account = a
  BY <1>5, <1>7, <1>9
<1>12. \A x \in Cycles \ {old, c} : KeptRow(x)
  BY <1>5, <1>9 DEF KeptRow
<1>13. loss + gain = SumFunctionOnSet(Gain, Cycles)
  <2>1. \A x \in Cycles \ {old, c} : cycle'[x].funded = cycle[x].funded
    BY <1>12 DEF KeptRow
  <2>2. \A x \in Cycles \ {c} : x # old => cycle'[x].funded = cycle[x].funded
    BY <2>1
  <2>3. /\ {old, c} \in SUBSET Cycles /\ cycle \in [Cycles -> CycleType]
        /\ {old, c} \ {old} = {c} /\ {c} \ {c} = {}
    BY <1>3 DEF TypeOK
  <2>4. /\ SumFunctionOnSet(Gain, Cycles) = SumFunctionOnSet(Gain, {old, c})
        /\ SumFunctionOnSet(Gain, {old, c}) = Gain[old] + SumFunctionOnSet(Gain, {c})
        /\ IsFiniteSet({old, c}) /\ \A x \in Cycles : Gain[x] \in Int
    BY <1>9, <2>1, <2>3, GainFacts
  <2>5. IsFiniteSet({c}) /\ \A x \in {c} : Gain[x] \in Int
    BY <2>4, FS_Singleton
  <2>6. SumFunctionOnSet(Gain, {c}) = Gain[c] + SumFunctionOnSet(Gain, {})
    BY <2>3, <2>5, SumOfOthers
  <2>7. SumFunctionOnSet(Gain, {}) = 0
    BY FS_EmptySet, SumStep
  <2>8. Gain[old] = loss /\ Gain[c] = gain /\ Gain[old] \in Int /\ Gain[c] \in Int
    BY <1>3, <1>6, <1>7, <1>10, <1>11, <2>4 DEF Gain
  <2> QED
    BY <2>4, <2>6, <2>7, <2>8
<1>14. RevokedRow(old)
  BY <1>3, <1>10 DEF RevokedRow
<1>15. ReportedRow(c)
  BY <1>1, <1>11 DEF ReportedRow
<1>16. {old} \subseteq OwnedBy(a) /\ {c} \subseteq OwnedBy(a) /\ {old} \cap {c} = {}
       /\ {old} \cup {c} = {old, c}
  BY <1>1, <1>3 DEF OwnedBy
<1>17. Credit(a, SumFunctionOnSet(Gain, Cycles))
  BY <1>2, <1>13
<1>18. Event(a, {old}, {c})
  BY <1>1, <1>12, <1>14, <1>15, <1>16, <1>17 DEF Event
<1> QED
  BY <1>3, <1>9, <1>10, <1>18 DEF old

\* An event keeps the tables well typed.
LEMMA EventTypes ==
  ASSUME EntitlementTypes, NEW a \in Accounts, NEW R, NEW O, Event(a, R, O),
         cycle' \in [Cycles -> CycleType], policy' \in [Keys -> Policies],
         sub' \in [Subscriptions -> SubType]
  PROVE  EntitlementTypes'
<1>1. TypeOK /\ cycle \in [Cycles -> CycleType]
  BY DEF EntitlementTypes, TypeOK
<1> DEFINE n == SumFunctionOnSet(Gain, Cycles)
<1>2. n \in Int
  <2>1. \A c \in Cycles : Gain[c] \in Int
    <3>1. Cycles \in SUBSET Cycles /\ \A c \in Cycles \ Cycles : cycle'[c].funded = cycle[c].funded
      OBVIOUS
    <3> QED
      BY <1>1, <3>1, GainFacts
  <2> QED
    BY <2>1, FiniteAssumption, SumOfOthers
<1>3. Credit(a, n)
  BY DEF Event
<1> HIDE DEF n
<1>4. available' \in [Accounts -> Int] /\ ledger' \in [Accounts -> Int]
  BY <1>1, <1>2, <1>3 DEF Credit, TypeOK
<1>5. UNCHANGED << now, admission, held, usage, budgetVars, res, rate,
                   usageEntries, outbox, grantVars, alloc, rebateVars >>
  BY DEF Event
<1>6. TypeOK'
  BY <1>1, <1>4, <1>5 DEF TypeOK, budgetVars, grantVars
<1> QED
  BY <1>5, <1>6 DEF EntitlementTypes, rebateVars

\* A cycle row whose funding covers what it has given, and a row that belongs to
\* its subscription's account.
FundedRow(c) ==
  /\ cycle[c].consumed <= cycle[c].funded
  /\ cycle[c].status # "active" => cycle[c].funded = cycle[c].consumed
  /\ cycle[c].status = "active" /\ cycle[c].end > now
       => cycle[c].funded = Larger(cycle[c].desired, cycle[c].consumed)
OwnedRow(c) ==
  /\ cycle[c].status = "none" => cycle[c].consumed = 0
  /\ cycle[c].status # "none" => cycle[c].account = SubAccount[CycleSub[c]]

\* An event keeps every cycle's row in order and touches no allocation.
LEMMA EventRows ==
  ASSUME EntitlementTypes, EntitlementTypes', NEW a \in Accounts, NEW R, NEW O,
         Event(a, R, O), \A c \in Cycles : FundedRow(c) /\ OwnedRow(c)
  PROVE  \A c \in Cycles : FundedRow(c)' /\ OwnedRow(c)'
<1>1. cycle \in [Cycles -> CycleType] /\ cycle' \in [Cycles -> CycleType]
  BY DEF EntitlementTypes, TypeOK
<1>2. /\ \A c \in R : RevokedRow(c)
      /\ \A c \in O : ReportedRow(c)
      /\ \A c \in Cycles \ (R \cup O) : KeptRow(c)
      /\ now' = now
  BY DEF Event
<1> SUFFICES ASSUME NEW c \in Cycles PROVE FundedRow(c)' /\ OwnedRow(c)'
  OBVIOUS
<1>3. /\ cycle[c].funded \in Nat /\ cycle[c].consumed \in Nat /\ cycle[c].desired \in Nat
      /\ cycle'[c].desired \in Nat
  BY <1>1 DEF CycleType
<1>4. FundedRow(c) /\ OwnedRow(c)
  OBVIOUS
<1>5. CASE c \in R
  <2>1. RevokedRow(c)
    BY <1>2, <1>5
  <2> QED
    BY <1>3, <1>4, <2>1 DEF RevokedRow, FundedRow, OwnedRow
<1>6. CASE c \in O
  <2>1. ReportedRow(c)
    BY <1>2, <1>6
  <2> QED
    BY <1>3, <2>1 DEF ReportedRow, FundedRow, OwnedRow, Larger
<1>7. CASE c \notin R \cup O
  <2>1. KeptRow(c) /\ now' = now
    BY <1>2, <1>7
  <2> QED
    BY <1>4, <2>1 DEF KeptRow, FundedRow, OwnedRow
<1> QED
  BY <1>5, <1>6, <1>7

\* An event touches no allocation.
LEMMA EventDraws ==
  ASSUME EntitlementTypes, NEW a \in Accounts, NEW R, NEW O, Event(a, R, O),
         \A c \in Cycles : OwnedRow(c), DrawsAreCharges, ConsumptionIsAllocated
  PROVE  DrawsAreCharges' /\ ConsumptionIsAllocated'
<1>1. /\ alloc' = alloc /\ res' = res /\ rebate' = rebate /\ baseline' = baseline
  BY DEF Event, rebateVars
<1>2. \A c \in Cycles : cycle'[c].consumed = cycle[c].consumed
  BY DEF Event, RevokedRow, ReportedRow, KeptRow
<1>3. \A c \in Cycles : cycle[c].status # "none" =>
        cycle'[c].status # "none" /\ cycle'[c].account = cycle[c].account
  <2> SUFFICES ASSUME NEW c \in Cycles, cycle[c].status # "none"
               PROVE  cycle'[c].status # "none" /\ cycle'[c].account = cycle[c].account
    OBVIOUS
  <2>1. cycle[c].account = SubAccount[CycleSub[c]]
    BY DEF OwnedRow
  <2> QED
    BY <2>1 DEF Event, RevokedRow, ReportedRow, KeptRow
<1>4. DrawsAreCharges'
  BY <1>1, <1>3 DEF DrawsAreCharges, InFeed, Settled, Prepaid
<1>5. \A r \in Reservations : Allocated(r)' = Allocated(r) /\ Rebated(r)' = Rebated(r)
  BY <1>1 DEF Allocated, Rebated
<1>6. \A r \in Reservations : Allocated(r)' <= res'[r].actual - Rebated(r)'
  BY <1>1, <1>5 DEF ConsumptionIsAllocated
<1>7. RebatesReturnGenericFirst'
  BY <1>1, <1>5 DEF ConsumptionIsAllocated, RebatesReturnGenericFirst
<1>8. \A c \in Cycles : cycle'[c].consumed =
        SumFunctionOnSet([r \in Reservations |-> alloc'[r][c]], Reservations)
  BY <1>1, <1>2 DEF ConsumptionIsAllocated
<1> QED
  BY <1>4, <1>6, <1>7, <1>8 DEF ConsumptionIsAllocated

-----------------------------------------------------------------------------
\* What an account was granted, funded with and, net, rebated.
GrantedAmount == [g \in Grants |-> grant[g].amount]
FundedAmount  == [c \in Cycles |-> cycle[c].funded]
NetAmount     == [r \in Reservations |-> Rebated(r) - PrepaidCharge(r)]
GrantsTo(a)   == {g \in Grants : grant[g].status = "granted" /\ grant[g].account = a}
CyclesOf(a)   == {c \in Cycles : cycle[c].account = a}
GrantSum(a)   == SumFunctionOnSet(GrantedAmount, GrantsTo(a))
FundSum(a)    == SumFunctionOnSet(FundedAmount, CyclesOf(a))
NetSum(a)     == SumFunctionOnSet(NetAmount, AccountRows(a))

CreditAdds == \A a \in Accounts : ledger[a] = GrantSum(a) + FundSum(a) + NetSum(a)

\* The property in terms of the three sums.
LEMMA CreditIsSums == CreditConserved <=> CreditAdds
BY DEF CreditAdds, CreditConserved, GrantSum, FundSum, NetSum, GrantedAmount, FundedAmount, NetAmount,
       GrantsTo, CyclesOf, AccountRows

\* How the funding of the accounts follows the gains of their cycles.
LEMMA FundStep ==
  ASSUME EntitlementTypes, EntitlementTypes', NEW a \in Accounts, NEW b \in Accounts,
         \A c \in Cycles : \/ cycle'[c].account = cycle[c].account
                           \/ cycle[c].funded = 0 /\ cycle'[c].account = a,
         \A c \in Cycles : cycle'[c].funded # cycle[c].funded => cycle'[c].account = a
  PROVE  /\ FundSum(b) \in Int /\ SumFunctionOnSet(Gain, Cycles) \in Int
         /\ FundSum(b)' = FundSum(b) + IF b = a THEN SumFunctionOnSet(Gain, Cycles) ELSE 0
<1> DEFINE f == [c \in Cycles |-> IF c \in CyclesOf(b) THEN FundedAmount[c] ELSE 0]
           g == [c \in Cycles |-> IF c \in CyclesOf(b)' THEN FundedAmount'[c] ELSE 0]
<1>1. /\ \A c \in Cycles : cycle[c].funded \in Nat /\ cycle'[c].funded \in Nat
      /\ IsFiniteSet(Cycles)
  BY FiniteAssumption DEF EntitlementTypes, TypeOK, CycleType
<1>2. /\ \A c \in Cycles : FundedAmount[c] = cycle[c].funded /\ FundedAmount[c] \in Int
      /\ \A c \in Cycles : FundedAmount'[c] = cycle'[c].funded /\ FundedAmount'[c] \in Int
      /\ \A c \in Cycles : Gain[c] = cycle'[c].funded - cycle[c].funded /\ Gain[c] \in Int
  BY <1>1 DEF FundedAmount, Gain
<1>3. CyclesOf(b) \in SUBSET Cycles /\ CyclesOf(b)' \in SUBSET Cycles
  BY DEF CyclesOf
<1>4. FundSum(b) = SumFunctionOnSet(f, Cycles)
  BY <1>1, <1>2, <1>3, SumOfPart DEF FundSum
<1>5. FundSum(b)' = SumFunctionOnSet(g, Cycles)
  <2> DEFINE h == FundedAmount'
             A == CyclesOf(b)'
  <2>1. A \in SUBSET Cycles /\ \A c \in Cycles : h[c] \in Int
    BY <1>2, <1>3
  <2>2. FundSum(b)' = SumFunctionOnSet(h, A) /\ g = [c \in Cycles |-> IF c \in A THEN h[c] ELSE 0]
    BY DEF FundSum
  <2> HIDE DEF h, A, g
  <2>3. SumFunctionOnSet(h, A) = SumFunctionOnSet([c \in Cycles |-> IF c \in A THEN h[c] ELSE 0], Cycles)
    BY <1>1, <2>1, SumOfPart
  <2> QED
    BY <2>2, <2>3
<1>6. \A c \in Cycles : /\ f[c] = IF cycle[c].account = b THEN cycle[c].funded ELSE 0
                        /\ g[c] = IF cycle'[c].account = b THEN cycle'[c].funded ELSE 0
                        /\ f[c] \in Int /\ g[c] \in Int
  BY <1>1, <1>2 DEF CyclesOf
<1> HIDE DEF f, g
<1>7. \A c \in Cycles : g[c] = f[c] + IF b = a THEN Gain[c] ELSE 0
  BY <1>1, <1>2, <1>6
<1>8. SumFunctionOnSet(f, Cycles) \in Int /\ SumFunctionOnSet(Gain, Cycles) \in Int
  BY <1>1, <1>2, <1>6, SumOfOthers
<1>9. CASE b = a
  <2>1. \A c \in Cycles : f[c] \in Int /\ Gain[c] \in Int /\ g[c] = f[c] + Gain[c]
    BY <1>2, <1>6, <1>7, <1>9
  <2>2. SumFunctionOnSet(g, Cycles) = SumFunctionOnSet(f, Cycles) + SumFunctionOnSet(Gain, Cycles)
    BY <1>1, <2>1, SumAdds
  <2> QED
    BY <1>4, <1>5, <1>8, <1>9, <2>2
<1>10. CASE b # a
  <2>1. \A c \in Cycles : f[c] = g[c]
    BY <1>6, <1>7, <1>10
  <2>2. SumFunctionOnSet(f, Cycles) = SumFunctionOnSet(g, Cycles)
    BY <1>1, <2>1, SumOfSame
  <2> QED
    BY <1>4, <1>5, <1>8, <1>10, <2>2
<1> QED
  BY <1>9, <1>10

\* Rebated amounts are numbers, and rows that are not touched keep theirs.
NetsAreNumbers ==
  \A r \in Reservations : /\ Rebated(r) \in Nat /\ PrepaidCharge(r) \in Nat
                          /\ NetAmount[r] = Rebated(r) - PrepaidCharge(r)
                          /\ NetAmount[r] \in Int

\* Net amounts are numbers.
LEMMA NetTypes == EntitlementTypes => NetsAreNumbers
<1> SUFFICES ASSUME EntitlementTypes, NEW r \in Reservations
             PROVE  /\ Rebated(r) \in Nat /\ PrepaidCharge(r) \in Nat
                    /\ NetAmount[r] = Rebated(r) - PrepaidCharge(r)
                    /\ NetAmount[r] \in Int
  BY DEF NetsAreNumbers
<1> DEFINE f == [n \in Namespaces |-> rebate[r][n].desired]
<1>1. \A n \in Namespaces : f[n] \in Nat
  BY DEF EntitlementTypes, RebateType
<1>2. Rebated(r) = SumFunctionOnSet(f, Namespaces)
  BY DEF Rebated
<1> HIDE DEF f
<1>3. Rebated(r) \in Nat
  BY <1>1, <1>2, SubscriptionAssumption, SumOfNats
<1>4. PrepaidCharge(r) \in Nat
  BY DEF EntitlementTypes, TypeOK, ReservationType, PrepaidCharge
<1>5. NetAmount[r] = Rebated(r) - PrepaidCharge(r)
  BY DEF NetAmount
<1> QED
  BY <1>3, <1>4, <1>5

\* One settlement moves the net amount of its account.
LEMMA NetStep ==
  ASSUME EntitlementTypes, EntitlementTypes', NEW r \in Reservations,
         \A q \in Reservations \ {r} : NetAmount'[q] = NetAmount[q], NEW b \in Accounts
  PROVE  /\ NetSum(b) \in Int /\ NetAmount[r] \in Int /\ NetAmount'[r] \in Int
         /\ NetSum(b)' = NetSum(b) + IF Account(r) = b THEN NetAmount'[r] - NetAmount[r] ELSE 0
<1> DEFINE S == AccountRows(b)
           f == NetAmount
           g == NetAmount'
<1>1. \A q \in Reservations : f[q] \in Int
  BY NetTypes DEF NetsAreNumbers
<1>2. \A q \in Reservations : g[q] \in Int
  <2>1. EntitlementTypes' => NetsAreNumbers'
    BY NetTypes, PTL
  <2> QED
    BY <2>1 DEF NetsAreNumbers
<1>3. /\ S \subseteq Reservations /\ IsFiniteSet(S) /\ (r \in S <=> Account(r) = b)
      /\ S \ {r} = S \ {r}
  BY RowsAreFinite DEF AccountRows
<1>4. NetSum(b) = SumFunctionOnSet(f, S) /\ NetSum(b)' = SumFunctionOnSet(g, S)
  BY DEF NetSum, AccountRows, Account
<1>5. \A q \in S \ {r} : f[q] = g[q]
  BY <1>3
<1> HIDE DEF S, f, g
<1>6. /\ SumFunctionOnSet(f, S) \in Int /\ SumFunctionOnSet(g, S) \in Int
      /\ SumFunctionOnSet(g, S) = SumFunctionOnSet(f, S)
                                  + (IF r \in S THEN g[r] ELSE 0) - (IF r \in S THEN f[r] ELSE 0)
  BY <1>1, <1>2, <1>3, <1>5, SumOneRow
<1>7. f[r] \in Int /\ g[r] \in Int
  BY <1>1, <1>2
<1>8. SumFunctionOnSet(g, S) = SumFunctionOnSet(f, S) + IF Account(r) = b THEN g[r] - f[r] ELSE 0
  BY <1>3, <1>6, <1>7
<1> QED
  BY <1>4, <1>6, <1>7, <1>8 DEF f, g

\* The sums are numbers.
LEMMA SumTypes ==
  ASSUME EntitlementTypes, NEW b \in Accounts
  PROVE  GrantSum(b) \in Int /\ NetSum(b) \in Int
<1>1. /\ \A g \in GrantsTo(b) : GrantedAmount[g] \in Int
      /\ GrantsTo(b) \subseteq Grants
  BY DEF GrantsTo, GrantedAmount, EntitlementTypes, TypeOK, GrantType
<1>2. IsFiniteSet(GrantsTo(b))
  BY <1>1, FiniteAssumption, FS_Subset
<1>3. GrantSum(b) \in Int
  BY <1>1, <1>2, SumOfOthers DEF GrantSum
<1>4. /\ \A r \in AccountRows(b) : NetAmount[r] \in Int
      /\ AccountRows(b) \subseteq Reservations
  BY NetTypes DEF AccountRows, NetsAreNumbers
<1>5. IsFiniteSet(AccountRows(b))
  BY <1>4, RowsAreFinite
<1>6. NetSum(b) \in Int
  BY <1>4, <1>5, SumOfOthers DEF NetSum
<1> QED
  BY <1>3, <1>6

\* A step that grants g and nets x on account a, funds cycles of that account
\* only, and moves the account's balance by all three.
CreditMoves(a, g, x) ==
  /\ \A c \in Cycles : \/ cycle'[c].account = cycle[c].account
                       \/ cycle[c].funded = 0 /\ cycle'[c].account = a
  /\ \A c \in Cycles : cycle'[c].funded # cycle[c].funded => cycle'[c].account = a
  /\ \A b \in Accounts : GrantSum(b)' = GrantSum(b) + IF b = a THEN g ELSE 0
  /\ \A b \in Accounts : NetSum(b)' = NetSum(b) + IF b = a THEN x ELSE 0
  /\ \A b \in Accounts : ledger'[b] = ledger[b] +
                           IF b = a THEN g + x + SumFunctionOnSet(Gain, Cycles) ELSE 0

\* Credit is conserved by a step that moves one account's balance by what it
\* grants, rebates and funds there.
LEMMA CreditStep ==
  ASSUME EntitlementTypes, EntitlementTypes', CreditConserved, NEW a \in Accounts,
         NEW g \in Int, NEW x \in Int, CreditMoves(a, g, x)
  PROVE  CreditConserved'
<1> DEFINE n == SumFunctionOnSet(Gain, Cycles)
<1>0. /\ \A c \in Cycles : \/ cycle'[c].account = cycle[c].account
                           \/ cycle[c].funded = 0 /\ cycle'[c].account = a
      /\ \A c \in Cycles : cycle'[c].funded # cycle[c].funded => cycle'[c].account = a
      /\ \A b \in Accounts : GrantSum(b)' = GrantSum(b) + IF b = a THEN g ELSE 0
      /\ \A b \in Accounts : NetSum(b)' = NetSum(b) + IF b = a THEN x ELSE 0
      /\ \A b \in Accounts : ledger'[b] = ledger[b] + IF b = a THEN g + x + n ELSE 0
  BY DEF CreditMoves
<1>1. ASSUME NEW b \in Accounts
      PROVE  ledger'[b] = GrantSum(b)' + FundSum(b)' + NetSum(b)'
  <2>1. ledger[b] = GrantSum(b) + FundSum(b) + NetSum(b)
    BY CreditIsSums DEF CreditAdds
  <2>2. GrantSum(b) \in Int /\ NetSum(b) \in Int
    BY SumTypes
  <2>3. /\ FundSum(b) \in Int /\ n \in Int
        /\ FundSum(b)' = FundSum(b) + IF b = a THEN n ELSE 0
    BY <1>0, FundStep
  <2>4. ledger'[b] = ledger[b] + IF b = a THEN g + x + n ELSE 0
    BY <1>0
  <2>5. /\ GrantSum(b)' = GrantSum(b) + IF b = a THEN g ELSE 0
        /\ NetSum(b)' = NetSum(b) + IF b = a THEN x ELSE 0
    BY <1>0
  <2> HIDE DEF n
  <2> DEFINE G == GrantSum(b)
             F == FundSum(b)
             N == NetSum(b)
             G1 == GrantSum(b)'
             F1 == FundSum(b)'
             N1 == NetSum(b)'
  <2>6. /\ ledger[b] = G + F + N /\ G \in Int /\ F \in Int /\ N \in Int /\ n \in Int
        /\ G1 = G + IF b = a THEN g ELSE 0
        /\ F1 = F + IF b = a THEN n ELSE 0
        /\ N1 = N + IF b = a THEN x ELSE 0
    BY <2>1, <2>2, <2>3, <2>5
  <2> HIDE DEF G, F, N, G1, F1, N1
  <2>7. ledger'[b] = G1 + F1 + N1
    BY <2>4, <2>6
  <2> QED
    BY <2>7 DEF G1, F1, N1
<1>2. CreditAdds'
  BY <1>1 DEF CreditAdds
<1>3. CreditConserved' <=> CreditAdds'
  BY CreditIsSums, PTL
<1> QED
  BY <1>2, <1>3

\* Grants that do not move.
LEMMA SameGrants ==
  ASSUME grant' = grant, NEW b
  PROVE  GrantSum(b)' = GrantSum(b)
BY DEF GrantSum, GrantedAmount, GrantsTo

\* Charges and rebates that do not move.
LEMMA SameNets ==
  ASSUME res' = res, rebate' = rebate, NEW b
  PROVE  NetSum(b)' = NetSum(b)
BY DEF NetSum, NetAmount, AccountRows, Account, Rebated, PrepaidCharge, InFeed, Settled, Prepaid

\* Neither revoking cycles nor reporting one creates or loses credit.
LEMMA EventCredit ==
  ASSUME EntitlementTypes, EntitlementTypes', CreditConserved, NEW a \in Accounts,
         NEW R, NEW O, Event(a, R, O), \A c \in Cycles : FundedRow(c) /\ OwnedRow(c)
  PROVE  CreditConserved'
<1> DEFINE n == SumFunctionOnSet(Gain, Cycles)
<1>1. Credit(a, n) /\ grant' = grant /\ res' = res /\ rebate' = rebate
  BY DEF Event, grantVars, rebateVars
<1>2. /\ \A c \in Cycles : cycle[c].funded \in Nat /\ cycle[c].consumed \in Nat
      /\ ledger \in [Accounts -> Int] /\ ledger' \in [Accounts -> Int]
      /\ IsFiniteSet(Cycles)
  BY FiniteAssumption DEF EntitlementTypes, TypeOK, CycleType
<1>3. /\ R \subseteq OwnedBy(a) /\ O \subseteq OwnedBy(a)
      /\ \A c \in R : RevokedRow(c)
      /\ \A c \in O : ReportedRow(c)
      /\ \A c \in Cycles \ (R \cup O) : KeptRow(c)
  BY DEF Event
<1>4. ASSUME NEW c \in Cycles
      PROVE  /\ \/ cycle'[c].account = cycle[c].account
                \/ cycle[c].funded = 0 /\ cycle'[c].account = a
             /\ cycle'[c].funded # cycle[c].funded => cycle'[c].account = a
  <2>1. FundedRow(c) /\ OwnedRow(c)
    OBVIOUS
  <2>2. cycle[c].status # "none" => cycle[c].account = SubAccount[CycleSub[c]]
    BY <2>1 DEF OwnedRow
  <2>3. cycle[c].status = "none" => cycle[c].funded = 0
    BY <1>2, <2>1 DEF OwnedRow, FundedRow
  <2>4. CASE c \in R
    <3>1. RevokedRow(c) /\ SubAccount[CycleSub[c]] = a
      BY <1>3, <2>4 DEF OwnedBy
    <3> QED
      BY <2>2, <3>1 DEF RevokedRow
  <2>5. CASE c \in O
    <3>1. ReportedRow(c) /\ SubAccount[CycleSub[c]] = a
      BY <1>3, <2>5 DEF OwnedBy
    <3> QED
      BY <2>2, <2>3, <3>1 DEF ReportedRow
  <2>6. CASE c \notin R \cup O
    <3>1. KeptRow(c)
      BY <1>3, <2>6
    <3> QED
      BY <3>1 DEF KeptRow
  <2> QED
    BY <2>4, <2>5, <2>6
<1>5. /\ \A b \in Accounts : GrantSum(b)' = GrantSum(b) /\ NetSum(b)' = NetSum(b)
      /\ \A b \in Accounts : GrantSum(b) \in Int /\ NetSum(b) \in Int
  BY <1>1, SameGrants, SameNets, SumTypes
<1>6. /\ \A b \in Accounts : GrantSum(b)' = GrantSum(b) + IF b = a THEN 0 ELSE 0
      /\ \A b \in Accounts : NetSum(b)' = NetSum(b) + IF b = a THEN 0 ELSE 0
  BY <1>5
<1>7. n \in Int
  <2>1. \A c \in Cycles : Gain[c] \in Int
    BY <1>2 DEF Gain, EntitlementTypes, TypeOK, CycleType
  <2> QED
    BY <1>2, <2>1, SumOfOthers
<1>8. \A b \in Accounts : ledger'[b] = ledger[b] + IF b = a THEN 0 + 0 + n ELSE 0
  <2> HIDE DEF n
  <2> QED
    BY <1>1, <1>2, <1>7 DEF Credit
<1>9. /\ \A c \in Cycles : \/ cycle'[c].account = cycle[c].account
                           \/ cycle[c].funded = 0 /\ cycle'[c].account = a
      /\ \A c \in Cycles : cycle'[c].funded # cycle[c].funded => cycle'[c].account = a
  BY <1>4
<1>10. CreditMoves(a, 0, 0)
  BY <1>6, <1>8, <1>9 DEF CreditMoves
<1> QED
  BY <1>10, CreditStep

\* The two halves of the invariant: the subscriptions' rows and the cycles'.
SubsAreOrderly ==
  \A s \in Subscriptions : sub[s].status # "none" =>
    sub[s].cycle \in Cycles /\ CycleSub[sub[s].cycle] = s

\* The invariant, row by row.
LEMMA FundedParts ==
  Funded <=> /\ EntitlementTypes /\ SubsAreOrderly /\ SubscriptionsMatchCycles
             /\ \A c \in Cycles : FundedRow(c) /\ OwnedRow(c)
             /\ DrawsAreCharges /\ ConsumptionIsAllocated /\ CreditConserved
BY DEF Funded, CyclesAreOwned, FundingCoversConsumption, SubsAreOrderly, FundedRow, OwnedRow

\* Subscription rows after a reconciliation.
LEMMA SnapshotSubs ==
  ASSUME EntitlementTypes, SubsAreOrderly, SubscriptionsMatchCycles,
         NEW s \in Subscriptions, NEW c \in Cycles, NEW d \in Desired,
         NEW v \in Versions, Snapshot(s, c, d, v)
  PROVE  sub' \in [Subscriptions -> SubType] /\ SubsAreOrderly' /\ SubscriptionsMatchCycles'
<1>1. Event(SubAccount[s], Stale(s, c), {c})
  BY SnapshotIsEvent DEF EntitlementTypes
<1>2. /\ CycleSub[c] = s
      /\ sub' = [sub EXCEPT ![s] = [status |-> "active", version |-> v, cycle |-> c]]
  BY DEF Snapshot
<1>3. v \in Nat /\ c \in Int /\ sub \in [Subscriptions -> SubType]
  BY KeysAssumption, SubscriptionAssumption DEF Versions, EntitlementTypes
<1>4. sub' \in [Subscriptions -> SubType]
  BY <1>2, <1>3 DEF SubType
<1>5. /\ sub'[s].status = "active" /\ sub'[s].cycle = c
      /\ \A t \in Subscriptions \ {s} : sub'[t] = sub[t]
  BY <1>2, <1>3
<1>6. SubsAreOrderly'
  BY <1>2, <1>5 DEF SubsAreOrderly
<1>7. /\ cycle'[c].status = "active"
      /\ \A x \in Stale(s, c) : cycle'[x].status # "active"
      /\ \A x \in Cycles : x # c /\ x \notin Stale(s, c) => cycle'[x].status = cycle[x].status
  BY <1>1 DEF Event, RevokedRow, ReportedRow, KeptRow
<1>8. ASSUME NEW t \in Subscriptions
      PROVE  /\ sub'[t].status # "none" => cycle'[sub'[t].cycle].status = sub'[t].status
             /\ \A x \in Cycles : CycleSub[x] = t /\ cycle'[x].status = "active"
                           => sub'[t].status = "active" /\ sub'[t].cycle = x
  <2>1. CASE t = s
    BY <1>5, <1>7, <2>1 DEF Stale
  <2>2. CASE t # s
    <3>1. \A x \in Cycles : CycleSub[x] = t => cycle'[x].status = cycle[x].status
      BY <1>2, <1>7, <2>2 DEF Stale
    <3> QED
      BY <1>5, <2>2, <3>1 DEF SubsAreOrderly, SubscriptionsMatchCycles
  <2> QED
    BY <2>1, <2>2
<1>9. SubscriptionsMatchCycles'
  BY <1>8 DEF SubscriptionsMatchCycles
<1> QED
  BY <1>4, <1>6, <1>9

\* Subscription rows after a cancellation.
LEMMA CancelSubs ==
  ASSUME EntitlementTypes, CyclesAreOwned, SubsAreOrderly, SubscriptionsMatchCycles,
         NEW s \in Subscriptions, NEW v \in Versions, CancelEntitlement(s, v)
  PROVE  sub' \in [Subscriptions -> SubType] /\ SubsAreOrderly' /\ SubscriptionsMatchCycles'
<1> DEFINE c == sub[s].cycle
<1>1. Event(SubAccount[s], {c}, {}) /\ c \in Cycles /\ cycle'[c].status = "cancelled"
  BY CancelIsEvent DEF EntitlementTypes
<1>2. /\ sub[s].status # "none"
      /\ sub' = [sub EXCEPT ![s].status = "cancelled", ![s].version = v]
  BY DEF CancelEntitlement
<1>3. v \in Nat /\ sub \in [Subscriptions -> SubType]
  BY SubscriptionAssumption DEF Versions, EntitlementTypes
<1>4. sub' \in [Subscriptions -> SubType]
  BY <1>2, <1>3 DEF SubType
<1>5. /\ sub'[s].status = "cancelled" /\ sub'[s].cycle = c
      /\ \A t \in Subscriptions \ {s} : sub'[t] = sub[t]
  BY <1>2, <1>3 DEF SubType
<1> HIDE DEF c
<1>6. SubsAreOrderly'
  BY <1>1, <1>2, <1>5 DEF SubsAreOrderly, c
<1>7. \A x \in Cycles : x # c => cycle'[x].status = cycle[x].status
  BY <1>1 DEF Event, RevokedRow, ReportedRow, KeptRow
<1>8. CycleSub[c] = s
  BY <1>2 DEF SubsAreOrderly, c
<1>9. ASSUME NEW t \in Subscriptions
      PROVE  /\ sub'[t].status # "none" => cycle'[sub'[t].cycle].status = sub'[t].status
             /\ \A x \in Cycles : CycleSub[x] = t /\ cycle'[x].status = "active"
                           => sub'[t].status = "active" /\ sub'[t].cycle = x
  <2>1. CASE t = s
    <3>1. \A x \in Cycles : CycleSub[x] = t => cycle'[x].status # "active"
      BY <1>1, <1>7, <2>1 DEF SubscriptionsMatchCycles, c
    <3> QED
      BY <1>1, <1>5, <2>1, <3>1
  <2>2. CASE t # s
    <3>1. \A x \in Cycles : CycleSub[x] = t => cycle'[x].status = cycle[x].status
      BY <1>7, <1>8, <2>2
    <3> QED
      BY <1>5, <2>2, <3>1 DEF SubsAreOrderly, SubscriptionsMatchCycles
  <2> QED
    BY <2>1, <2>2
<1>10. SubscriptionsMatchCycles'
  BY <1>9 DEF SubscriptionsMatchCycles
<1> QED
  BY <1>4, <1>6, <1>10

\* Subscription rows after a replacement.
LEMMA ReplaceSubs ==
  ASSUME EntitlementTypes, CyclesAreOwned, SubsAreOrderly, SubscriptionsMatchCycles,
         NEW s \in Subscriptions, NEW v \in Versions, NEW t \in Subscriptions,
         NEW c \in Cycles, NEW d \in Desired, NEW w \in Versions,
         ReplaceEntitlement(s, v, t, c, d, w)
  PROVE  sub' \in [Subscriptions -> SubType] /\ SubsAreOrderly' /\ SubscriptionsMatchCycles'
<1> DEFINE old == sub[s].cycle
<1>1. Event(SubAccount[s], {old}, {c}) /\ old \in Cycles /\ cycle'[old].status = "replaced"
  BY ReplaceIsEvent DEF EntitlementTypes
<1>2. /\ sub[s].status # "none" /\ sub[t].status = "none" /\ CycleSub[c] = t /\ s # t
      /\ sub' = [sub EXCEPT ![s].status = "replaced", ![s].version = v,
                            ![t] = [status |-> "active", version |-> w, cycle |-> c]]
  BY DEF ReplaceEntitlement
<1>3. v \in Nat /\ w \in Nat /\ c \in Int /\ sub \in [Subscriptions -> SubType]
  BY KeysAssumption, SubscriptionAssumption DEF Versions, EntitlementTypes
<1>4. sub' \in [Subscriptions -> SubType]
  <2>1. [sub[s] EXCEPT !.status = "replaced", !.version = v] \in SubType
    BY <1>3 DEF SubType
  <2>2. [status |-> "active", version |-> w, cycle |-> c] \in SubType
    BY <1>3 DEF SubType
  <2>3. sub' = [u \in Subscriptions |->
                  IF u = t THEN [status |-> "active", version |-> w, cycle |-> c]
                  ELSE IF u = s THEN [sub[s] EXCEPT !.status = "replaced", !.version = v]
                  ELSE sub[u]]
    BY <1>2, <1>3
  <2> QED
    BY <1>3, <2>1, <2>2, <2>3
<1>5. /\ sub'[s].status = "replaced" /\ sub'[s].cycle = old
      /\ sub'[t].status = "active" /\ sub'[t].cycle = c
      /\ \A u \in Subscriptions \ {s, t} : sub'[u] = sub[u]
  BY <1>2, <1>3 DEF SubType
<1> HIDE DEF old
<1>6. CycleSub[old] = s
  BY <1>2 DEF SubsAreOrderly, old
<1>7. SubsAreOrderly'
  <2>1. ASSUME NEW u \in Subscriptions, sub'[u].status # "none"
        PROVE  sub'[u].cycle \in Cycles /\ CycleSub[sub'[u].cycle] = u
    <3>1. CASE u = s
      BY <1>1, <1>5, <1>6, <3>1
    <3>2. CASE u = t
      BY <1>2, <1>5, <3>2
    <3>3. CASE u \notin {s, t}
      BY <1>5, <2>1, <3>3 DEF SubsAreOrderly
    <3> QED
      BY <3>1, <3>2, <3>3
  <2> QED
    BY <2>1 DEF SubsAreOrderly
<1>8. /\ cycle'[c].status = "active"
      /\ \A x \in Cycles : x # c /\ x # old => cycle'[x].status = cycle[x].status
  BY <1>1 DEF Event, RevokedRow, ReportedRow, KeptRow
<1>9. ASSUME NEW u \in Subscriptions
      PROVE  /\ sub'[u].status # "none" => cycle'[sub'[u].cycle].status = sub'[u].status
             /\ \A x \in Cycles : CycleSub[x] = u /\ cycle'[x].status = "active"
                           => sub'[u].status = "active" /\ sub'[u].cycle = x
  <2>1. CASE u = s
    <3>1. \A x \in Cycles : CycleSub[x] = u => cycle'[x].status # "active"
      BY <1>1, <1>2, <1>8, <2>1 DEF SubscriptionsMatchCycles, old
    <3> QED
      BY <1>1, <1>5, <2>1, <3>1
  <2>2. CASE u = t
    <3>1. \A x \in Cycles : CycleSub[x] = u /\ cycle'[x].status = "active" => x = c
      BY <1>1, <1>2, <1>8, <2>2 DEF SubscriptionsMatchCycles
    <3> QED
      BY <1>5, <1>8, <2>2, <3>1
  <2>3. CASE u # s /\ u # t
    <3>1. \A x \in Cycles : CycleSub[x] = u => cycle'[x].status = cycle[x].status
      BY <1>2, <1>6, <1>8, <2>3
    <3> QED
      BY <1>5, <2>3, <3>1 DEF SubsAreOrderly, SubscriptionsMatchCycles
  <2> QED
    BY <2>1, <2>2, <2>3
<1>10. SubscriptionsMatchCycles'
  BY <1>9 DEF SubscriptionsMatchCycles
<1> QED
  BY <1>4, <1>7, <1>10

\* Every subscription event keeps the invariant.
LEMMA EventKeeps ==
  ASSUME Funded, NEW a \in Accounts, NEW R, NEW O, Event(a, R, O),
         cycle' \in [Cycles -> CycleType], policy' \in [Keys -> Policies],
         sub' \in [Subscriptions -> SubType], SubsAreOrderly', SubscriptionsMatchCycles'
  PROVE  Funded'
<1>1. /\ EntitlementTypes /\ SubsAreOrderly /\ SubscriptionsMatchCycles
      /\ \A c \in Cycles : FundedRow(c) /\ OwnedRow(c)
      /\ DrawsAreCharges /\ ConsumptionIsAllocated /\ CreditConserved
  BY FundedParts
<1>2. EntitlementTypes'
  BY <1>1, EventTypes
<1>3. \A c \in Cycles : FundedRow(c)' /\ OwnedRow(c)'
  BY <1>1, <1>2, EventRows
<1>4. DrawsAreCharges' /\ ConsumptionIsAllocated'
  BY <1>1, EventDraws
<1>5. CreditConserved'
  BY <1>1, <1>2, EventCredit
<1> QED
  BY <1>2, <1>3, <1>4, <1>5
     DEF Funded, CyclesAreOwned, FundingCoversConsumption, SubsAreOrderly, FundedRow, OwnedRow

\* Every subscription event keeps the invariant.
LEMMA FundedEvent == ASSUME Funded, SubscriptionEvent PROVE Funded'
<1>1. /\ EntitlementTypes /\ SubsAreOrderly /\ SubscriptionsMatchCycles /\ CyclesAreOwned
      /\ TypeOK /\ policy \in [Keys -> Policies]
      /\ \A s \in Subscriptions : SubAccount[s] \in Accounts
  BY FundedParts, SubscriptionAssumption DEF Funded, EntitlementTypes, TypeOK
<1>2. ASSUME NEW s \in Subscriptions, NEW v \in Versions, CancelEntitlement(s, v)
      PROVE  Funded'
  <2>1. policy' = policy
    BY <1>2 DEF CancelEntitlement
  <2> QED
    BY <1>1, <1>2, <2>1, CancelIsEvent, CancelSubs, EventKeeps
<1>3. ASSUME NEW s \in Subscriptions, NEW v \in Versions, NEW c \in Cycles, NEW d \in Desired,
             Snapshot(s, c, d, v), policy' \in [Keys -> Policies]
      PROVE  Funded'
  BY <1>1, <1>3, SnapshotIsEvent, SnapshotSubs, EventKeeps
<1>4. ASSUME NEW s \in Subscriptions, NEW v \in Versions, NEW t \in Subscriptions,
             NEW c \in Cycles, NEW d \in Desired, NEW w \in Versions,
             ReplaceEntitlement(s, v, t, c, d, w)
      PROVE  Funded'
  <2>1. policy' = policy
    BY <1>4 DEF ReplaceEntitlement
  <2> QED
    BY <1>1, <1>4, <2>1, ReplaceIsEvent, ReplaceSubs, EventKeeps
<1>5. PICK s \in Subscriptions, v \in Versions :
        \/ CancelEntitlement(s, v)
        \/ \E c \in Cycles, d \in Desired :
             \/ ReconcileEntitlement(s, c, d, v)
             \/ \E k \in Keys, p \in Policies : ApplyCloudEntitlement(s, c, d, v, k, p)
             \/ \E t \in Subscriptions, w \in Versions :
                  ReplaceEntitlement(s, v, t, c, d, w)
  BY Zenon DEF SubscriptionEvent
<1>6. ASSUME NEW c \in Cycles, NEW d \in Desired, ReconcileEntitlement(s, c, d, v)
      PROVE  Funded'
  BY <1>1, <1>3, <1>6 DEF ReconcileEntitlement
<1>7. ASSUME NEW c \in Cycles, NEW d \in Desired, NEW k \in Keys, NEW p \in Policies,
             ApplyCloudEntitlement(s, c, d, v, k, p)
      PROVE  Funded'
  BY <1>1, <1>3, <1>7 DEF ApplyCloudEntitlement
<1> QED
  BY <1>2, <1>4, <1>5, <1>6, <1>7

\* What a rebate does, row by row: `back` is what the cycles get back.
RolledBack(r, n, amount, back) ==
  /\ \A c \in Cycles :
       /\ back[c] \in Nat /\ back[c] <= alloc[r][c]
       /\ cycle'[c].status = cycle[c].status /\ cycle'[c].account = cycle[c].account
       /\ cycle'[c].end = cycle[c].end /\ cycle'[c].desired = cycle[c].desired
       /\ cycle'[c].consumed = cycle[c].consumed - back[c]
       /\ back[c] = 0 => cycle'[c].funded = cycle[c].funded
       /\ back[c] > 0 => cycle'[c].funded = RebatedFunding(c, cycle'[c].consumed)
       /\ alloc'[r][c] = alloc[r][c] - back[c]
  /\ \A q \in Reservations \ {r} : /\ alloc'[q] = alloc[q] /\ rebate'[q] = rebate[q]
                                   /\ baseline'[q] = baseline[q]
  /\ baseline'[r] = Baseline(r)
  /\ rebate'[r][n].desired = amount
  /\ \A m \in Namespaces \ {n} : rebate'[r][m] = rebate[r][m]

\* What reconcile_settlement_adjustment does, row by row.
LEMMA AdjustmentIsRollback ==
  ASSUME EntitlementTypes, NEW r \in Reservations, NEW n \in Namespaces, NEW d \in Rebates,
         NEW v \in Versions, ReconcileAdjustment(r, n, d, v)
  PROVE  \E back \in [Cycles -> Nat] :
           /\ RolledBack(r, n, d, back) /\ EntitlementTypes'
           /\ SumFunctionOnSet(back, Cycles) =
                TargetRollback(r, Rebated(r) - rebate[r][n].desired + d)
                  - (Baseline(r) - Allocated(r))
           /\ ledger' = [ledger EXCEPT ![Account(r)] =
                           @ + (d - rebate[r][n].desired + SumFunctionOnSet(Gain, Cycles))]
           /\ InFeed(r) /\ Rebated(r) - rebate[r][n].desired + d <= res[r].actual
           /\ now' = now /\ res' = res /\ sub' = sub /\ grant' = grant
           /\ \E x \in Int : Credit(Account(r), x)
<1> DEFINE rollback == TargetRollback(r, Rebated(r) - rebate[r][n].desired + d)
                         - (Baseline(r) - Allocated(r))
           applied == d - rebate[r][n].desired
           consumed(back) == [c \in Cycles |-> cycle[c].consumed - back[c]]
           touched(back) == {c \in Cycles : back[c] > 0}
           reduction(back) ==
             [c \in Cycles |-> IF c \in touched(back)
                THEN cycle[c].funded - RebatedFunding(c, consumed(back)[c]) ELSE 0]
<1>1. PICK back \in [Cycles -> 0 .. rollback] :
        /\ IsRollback(r, rollback, back)
        /\ \A c \in touched(back) : consumed(back)[c] >= 0 /\ reduction(back)[c] >= 0
        /\ cycle' = [c \in Cycles |-> [cycle[c] EXCEPT !.consumed = consumed(back)[c],
                                                       !.funded = @ - reduction(back)[c]]]
        /\ alloc' = GiveBack(r, back)
        /\ Credit(Account(r), NetRebate(applied, SumFunctionOnSet(reduction(back), Cycles)))
  BY DEF ReconcileAdjustment
<1>2. /\ InFeed(r) /\ Rebated(r) - rebate[r][n].desired + d <= res[r].actual
      /\ now' = now /\ res' = res /\ sub' = sub /\ grant' = grant
      /\ rebate' = [rebate EXCEPT ![r][n] = [desired |-> d, version |-> v]]
      /\ baseline' = [baseline EXCEPT ![r] = Baseline(r)]
      /\ UNCHANGED << now, policy, admission, held, usage, budgetVars, res, rate,
                      usageEntries, outbox, grantVars, sub >>
  BY DEF ReconcileAdjustment, grantVars
<1> DEFINE left == consumed(back)
           red  == reduction(back)
<1>3. /\ TypeOK /\ cycle \in [Cycles -> CycleType] /\ alloc \in [Reservations -> [Cycles -> Nat]]
      /\ Account(r) \in Accounts /\ d \in Nat /\ v \in Nat /\ IsFiniteSet(Cycles)
      /\ rebate \in [Reservations -> [Namespaces -> RebateType]]
      /\ baseline \in [Reservations -> Nat \cup {NoBaseline}]
  BY KeysAssumption, SubscriptionAssumption, FiniteAssumption
     DEF EntitlementTypes, TypeOK, Account, Versions
<1>4. /\ \A c \in Cycles : back[c] \in 0 .. rollback /\ back[c] <= alloc[r][c]
      /\ SumFunctionOnSet(back, Cycles) = rollback
  BY <1>1 DEF IsRollback
<1>5. \A c \in Cycles : alloc[r][c] \in Nat /\ cycle[c].consumed \in Nat /\ cycle[c].funded \in Nat
  BY <1>3 DEF CycleType
<1>6. \A c \in Cycles : back[c] \in Nat
  BY <1>4
<1>7. back \in [Cycles -> Nat]
  BY <1>1, <1>6
<1>8. \A c \in Cycles : /\ left[c] = cycle[c].consumed - back[c] /\ left[c] \in Nat
                        /\ back[c] = 0 => red[c] = 0
                        /\ back[c] > 0 => /\ red[c] = cycle[c].funded - RebatedFunding(c, left[c])
                                          /\ red[c] >= 0
  <2> SUFFICES ASSUME NEW c \in Cycles
               PROVE  /\ left[c] = cycle[c].consumed - back[c] /\ left[c] \in Nat
                      /\ back[c] = 0 => red[c] = 0
                      /\ back[c] > 0 => /\ red[c] = cycle[c].funded - RebatedFunding(c, left[c])
                                        /\ red[c] >= 0
    OBVIOUS
  <2>1. left[c] = cycle[c].consumed - back[c]
    OBVIOUS
  <2>2. c \in touched(back) <=> back[c] > 0
    OBVIOUS
  <2>3. red[c] = IF c \in touched(back) THEN cycle[c].funded - RebatedFunding(c, left[c]) ELSE 0
    OBVIOUS
  <2>4. back[c] > 0 => left[c] >= 0 /\ red[c] >= 0
    BY <1>1, <2>2
  <2>5. cycle[c].consumed \in Nat /\ back[c] \in Nat
    BY <1>5, <1>6
  <2> HIDE DEF left, red, touched, consumed, reduction
  <2> QED
    BY <2>1, <2>2, <2>3, <2>4, <2>5
<1>9. /\ cycle' = [c \in Cycles |-> [cycle[c] EXCEPT !.consumed = left[c], !.funded = @ - red[c]]]
      /\ Credit(Account(r), NetRebate(applied, SumFunctionOnSet(red, Cycles)))
      /\ alloc' = GiveBack(r, back)
  BY <1>1
<1> HIDE DEF left, red, consumed, touched, reduction, rollback
<1>10. \A c \in Cycles : RebatedFunding(c, left[c]) \in Nat
  BY <1>3, <1>8 DEF RebatedFunding, Larger, CycleType
<1>11. \A c \in Cycles : /\ red[c] \in Int /\ cycle[c].funded - red[c] \in Nat
                         /\ back[c] = 0 => cycle[c].funded - red[c] = cycle[c].funded
                         /\ back[c] > 0 => cycle[c].funded - red[c] = RebatedFunding(c, left[c])
  BY <1>5, <1>6, <1>8, <1>10
<1>12. ASSUME NEW c \in Cycles
       PROVE  /\ cycle'[c] \in CycleType
              /\ cycle'[c].status = cycle[c].status /\ cycle'[c].account = cycle[c].account
              /\ cycle'[c].end = cycle[c].end /\ cycle'[c].desired = cycle[c].desired
              /\ cycle'[c].consumed = left[c] /\ cycle'[c].funded = cycle[c].funded - red[c]
  <2> DEFINE x == left[c]
             y == cycle[c].funded - red[c]
  <2>1. cycle'[c] = [cycle[c] EXCEPT !.consumed = x, !.funded = y]
    BY <1>9
  <2>2. cycle[c] \in CycleType /\ x \in Nat /\ y \in Nat
    BY <1>3, <1>8, <1>11
  <2> HIDE DEF x, y
  <2>3. LET row == [cycle[c] EXCEPT !.consumed = x, !.funded = y] IN
        /\ row \in CycleType
        /\ row.status = cycle[c].status /\ row.account = cycle[c].account
        /\ row.end = cycle[c].end /\ row.desired = cycle[c].desired
        /\ row.consumed = x /\ row.funded = y
    BY <2>2 DEF CycleType
  <2> QED
    BY <2>1, <2>3 DEF x, y
<1>13. cycle' \in [Cycles -> CycleType]
  BY <1>9, <1>12
<1>14. /\ \A c \in Cycles : alloc'[r][c] = alloc[r][c] - back[c] /\ alloc'[r][c] \in Nat
       /\ \A q \in Reservations \ {r} : alloc'[q] = alloc[q]
       /\ alloc' \in [Reservations -> [Cycles -> Nat]]
  <2> DEFINE new == [c \in Cycles |-> alloc[r][c] - back[c]]
  <2>1. \A c \in Cycles : alloc[r][c] - back[c] \in Nat
    BY <1>4, <1>5, <1>6
  <2>2. new \in [Cycles -> Nat] /\ \A c \in Cycles : new[c] = alloc[r][c] - back[c]
    BY <2>1
  <2>3. alloc' = [alloc EXCEPT ![r] = new]
    BY <1>9 DEF GiveBack
  <2> HIDE DEF new
  <2>4. alloc'[r] = new /\ \A q \in Reservations \ {r} : alloc'[q] = alloc[q]
    BY <1>3, <2>3
  <2>5. alloc' \in [Reservations -> [Cycles -> Nat]]
    BY <1>3, <2>2, <2>3
  <2> QED
    BY <2>1, <2>2, <2>4, <2>5
<1>15. Baseline(r) \in Nat
  <2>1. Allocated(r) \in Nat
    BY <1>3, <1>5, SumOfNats DEF Allocated
  <2> QED
    BY <1>3, <2>1 DEF Baseline
<1>16. /\ baseline' \in [Reservations -> Nat \cup {NoBaseline}] /\ baseline'[r] = Baseline(r)
       /\ \A q \in Reservations \ {r} : baseline'[q] = baseline[q]
  BY <1>2, <1>3, <1>15
<1>17. /\ rebate' \in [Reservations -> [Namespaces -> RebateType]]
       /\ rebate'[r][n].desired = d
       /\ \A m \in Namespaces \ {n} : rebate'[r][m] = rebate[r][m]
       /\ \A q \in Reservations \ {r} : rebate'[q] = rebate[q]
  <2> DEFINE new == [desired |-> d, version |-> v]
  <2>1. new \in RebateType /\ new.desired = d
    BY <1>3 DEF RebateType
  <2>2. rebate' = [rebate EXCEPT ![r][n] = new]
    BY <1>2
  <2> HIDE DEF new
  <2> QED
    BY <1>3, <2>1, <2>2
<1>18. RolledBack(r, n, d, back)
  BY <1>4, <1>6, <1>8, <1>11, <1>12, <1>14, <1>16, <1>17 DEF RolledBack
<1>19. /\ SumFunctionOnSet(red, Cycles) \in Int /\ SumFunctionOnSet(Gain, Cycles) \in Int
       /\ SumFunctionOnSet(Gain, Cycles) = - SumFunctionOnSet(red, Cycles)
  <2> DEFINE zero == [c \in Cycles |-> 0]
  <2>1. \A c \in Cycles : red[c] \in Int /\ Gain[c] \in Int /\ zero[c] = red[c] + Gain[c]
    BY <1>5, <1>11, <1>12 DEF Gain
  <2>2. \A c \in Cycles : zero[c] = 0
    OBVIOUS
  <2> HIDE DEF zero
  <2>3. SumFunctionOnSet(zero, Cycles) = 0
    BY <1>3, <2>2, SumOfZeros
  <2>4. /\ SumFunctionOnSet(red, Cycles) \in Int /\ SumFunctionOnSet(Gain, Cycles) \in Int
        /\ SumFunctionOnSet(zero, Cycles) = SumFunctionOnSet(red, Cycles)
                                            + SumFunctionOnSet(Gain, Cycles)
    <3>1. IsFiniteSet(Cycles)
      BY <1>3
    <3> DEFINE S == Cycles
               g == Gain
    <3>2. IsFiniteSet(S) /\ \A c \in S : red[c] \in Int /\ g[c] \in Int /\ zero[c] = red[c] + g[c]
      BY <2>1, <3>1
    <3> HIDE DEF S, g
    <3>3. /\ SumFunctionOnSet(red, S) \in Int /\ SumFunctionOnSet(g, S) \in Int
          /\ SumFunctionOnSet(zero, S) = SumFunctionOnSet(red, S) + SumFunctionOnSet(g, S)
      BY <3>2, SumAdds
    <3> QED
      BY <3>3 DEF S, g
  <2> QED
    BY <2>3, <2>4
<1> DEFINE y == SumFunctionOnSet(red, Cycles)
           z == SumFunctionOnSet(Gain, Cycles)
<1>20. applied \in Int
  BY <1>3 DEF RebateType
<1>21. NetRebate(applied, y) = applied + z /\ applied + z \in Int
  <2>1. y \in Int /\ z \in Int /\ z = -y
    BY <1>19
  <2> HIDE DEF y, z, applied
  <2> QED
    BY <1>20, <2>1 DEF NetRebate
<1> HIDE DEF y, z, applied
<1>22. Credit(Account(r), applied + z)
  BY <1>9, <1>21 DEF y
<1>23. ledger' = [ledger EXCEPT ![Account(r)] = @ + (applied + z)]
  BY <1>22 DEF Credit
<1>24. available' \in [Accounts -> Int] /\ ledger' \in [Accounts -> Int]
  BY <1>3, <1>21, <1>22 DEF Credit, TypeOK
<1>25. EntitlementTypes'
  BY <1>2, <1>3, <1>13, <1>14, <1>16, <1>17, <1>24
     DEF EntitlementTypes, TypeOK, budgetVars, grantVars
<1>26. \E x \in Int : Credit(Account(r), x)
  BY <1>21, <1>22
<1> QED
  BY <1>2, <1>4, <1>7, <1>18, <1>23, <1>25, <1>26 DEF applied, z, rollback

\* Sums over the rows that a rebate touches.
LEMMA RollbackSums ==
  ASSUME EntitlementTypes, EntitlementTypes', NEW r \in Reservations, NEW n \in Namespaces,
         NEW d \in Nat, NEW back \in [Cycles -> Nat], RolledBack(r, n, d, back)
  PROVE  /\ SumFunctionOnSet(back, Cycles) \in Nat
         /\ Allocated(r) \in Nat /\ Rebated(r) \in Nat
         /\ Allocated(r)' = Allocated(r) - SumFunctionOnSet(back, Cycles)
         /\ Rebated(r)' = Rebated(r) - rebate[r][n].desired + d
         /\ \A q \in Reservations \ {r} : /\ Allocated(q)' = Allocated(q)
                                          /\ Rebated(q)' = Rebated(q)
<1>1. /\ IsFiniteSet(Cycles) /\ IsFiniteSet(Namespaces)
      /\ \A c \in Cycles : back[c] \in Nat /\ alloc[r][c] \in Nat /\ alloc'[r][c] \in Nat
      /\ \A c \in Cycles : alloc'[r][c] = alloc[r][c] - back[c]
  BY FiniteAssumption, SubscriptionAssumption DEF RolledBack, EntitlementTypes, TypeOK
<1>2. SumFunctionOnSet(back, Cycles) \in Nat /\ Allocated(r) \in Nat
  BY <1>1, SumOfNats DEF Allocated
<1>3. Allocated(r)' = Allocated(r) - SumFunctionOnSet(back, Cycles)
  <2> DEFINE f == alloc[r]
             g == alloc'[r]
             S == Cycles
  <2>1. /\ IsFiniteSet(S)
        /\ \A c \in S : g[c] \in Int /\ back[c] \in Int /\ f[c] = g[c] + back[c]
    BY <1>1
  <2>2. Allocated(r) = SumFunctionOnSet(f, S) /\ Allocated(r)' = SumFunctionOnSet(g, S)
    BY DEF Allocated
  <2> HIDE DEF f, g, S
  <2>3. /\ SumFunctionOnSet(g, S) \in Int /\ SumFunctionOnSet(back, S) \in Int
        /\ SumFunctionOnSet(f, S) = SumFunctionOnSet(g, S) + SumFunctionOnSet(back, S)
    BY <2>1, SumAdds
  <2>4. SumFunctionOnSet(g, S) = SumFunctionOnSet(f, S) - SumFunctionOnSet(back, S)
    BY <2>3
  <2> QED
    BY <2>2, <2>4 DEF S
<1>4. Rebated(r) \in Nat /\ Rebated(r)' = Rebated(r) - rebate[r][n].desired + d
  <2> DEFINE f == [m \in Namespaces |-> rebate[r][m].desired]
             g == [m \in Namespaces |-> rebate'[r][m].desired]
             S == Namespaces
  <2>1. /\ \A m \in S : f[m] \in Nat /\ g[m] \in Nat
        /\ \A m \in S \ {n} : f[m] = g[m]
        /\ f[n] = rebate[r][n].desired /\ g[n] = d /\ n \in S
        /\ IsFiniteSet(S) /\ S \ {n} = S \ {n}
    BY <1>1 DEF RolledBack, EntitlementTypes, RebateType
  <2>2. Rebated(r) = SumFunctionOnSet(f, S) /\ Rebated(r)' = SumFunctionOnSet(g, S)
    BY DEF Rebated
  <2> HIDE DEF f, g, S
  <2>3. SumFunctionOnSet(f, S) \in Nat
    BY <2>1, SumOfNats
  <2>4. SumFunctionOnSet(g, S) = SumFunctionOnSet(f, S)
                                 + (IF n \in S THEN g[n] ELSE 0) - (IF n \in S THEN f[n] ELSE 0)
    BY <2>1, SumOneRow
  <2>5. SumFunctionOnSet(g, S) = SumFunctionOnSet(f, S) - f[n] + d /\ f[n] \in Nat
    BY <2>1, <2>3, <2>4
  <2> QED
    BY <2>1, <2>2, <2>3, <2>5
<1>5. \A q \in Reservations \ {r} : Allocated(q)' = Allocated(q) /\ Rebated(q)' = Rebated(q)
  BY DEF RolledBack, Allocated, Rebated
<1> QED
  BY <1>2, <1>3, <1>4, <1>5

\* A rebate keeps the rows of the cycles in order.
LEMMA RollbackRows ==
  ASSUME EntitlementTypes, EntitlementTypes', NEW r \in Reservations, NEW n \in Namespaces,
         NEW d \in Nat, NEW back \in [Cycles -> Nat], RolledBack(r, n, d, back), now' = now,
         \A c \in Cycles : FundedRow(c) /\ OwnedRow(c)
  PROVE  \A c \in Cycles : FundedRow(c)' /\ OwnedRow(c)'
<1> SUFFICES ASSUME NEW c \in Cycles PROVE FundedRow(c)' /\ OwnedRow(c)'
  OBVIOUS
<1>1. /\ cycle[c].consumed \in Nat /\ cycle'[c].consumed \in Nat /\ cycle[c].desired \in Nat
      /\ cycle[c].funded \in Nat /\ cycle[c].end \in Nat /\ now \in Nat
  BY DEF EntitlementTypes, TypeOK, CycleType, Times
<1>2. /\ back[c] \in Nat
      /\ cycle'[c].status = cycle[c].status /\ cycle'[c].account = cycle[c].account
      /\ cycle'[c].end = cycle[c].end /\ cycle'[c].desired = cycle[c].desired
      /\ cycle'[c].consumed = cycle[c].consumed - back[c]
      /\ back[c] = 0 => cycle'[c].funded = cycle[c].funded
      /\ back[c] > 0 => cycle'[c].funded = RebatedFunding(c, cycle'[c].consumed)
  BY DEF RolledBack
<1>3. FundedRow(c) /\ OwnedRow(c)
  OBVIOUS
<1>4. OwnedRow(c)'
  BY <1>1, <1>2, <1>3 DEF OwnedRow
<1>5. CASE back[c] = 0
  <2>1. cycle'[c].consumed = cycle[c].consumed /\ cycle'[c].funded = cycle[c].funded
    BY <1>1, <1>2, <1>5
  <2> QED
    BY <1>2, <1>3, <1>4, <2>1 DEF FundedRow
<1>6. CASE back[c] > 0
  <2>1. cycle'[c].funded = RebatedFunding(c, cycle'[c].consumed)
    BY <1>2, <1>6
  <2> QED
    BY <1>1, <1>2, <1>4, <2>1 DEF FundedRow, RebatedFunding, Larger
<1> QED
  BY <1>1, <1>2, <1>5, <1>6

\* A rebate takes back what the settlement drew, and no more than its net cost
\* stays drawn.
LEMMA RollbackDraws ==
  ASSUME EntitlementTypes, EntitlementTypes', NEW r \in Reservations, NEW n \in Namespaces,
         NEW d \in Nat, NEW back \in [Cycles -> Nat], RolledBack(r, n, d, back),
         res' = res, InFeed(r), Rebated(r) - rebate[r][n].desired + d <= res[r].actual,
         SumFunctionOnSet(back, Cycles) =
           TargetRollback(r, Rebated(r) - rebate[r][n].desired + d)
             - (Baseline(r) - Allocated(r)),
         DrawsAreCharges, ConsumptionIsAllocated
  PROVE  DrawsAreCharges' /\ ConsumptionIsAllocated'
<1>1. /\ \A c \in Cycles : /\ back[c] \in Nat /\ back[c] <= alloc[r][c] /\ alloc[r][c] \in Nat
                           /\ alloc'[r][c] = alloc[r][c] - back[c] /\ alloc'[r][c] \in Nat
                           /\ cycle'[c].consumed = cycle[c].consumed - back[c]
                           /\ cycle[c].consumed \in Nat
                           /\ cycle'[c].status = cycle[c].status
                           /\ cycle'[c].account = cycle[c].account
      /\ \A q \in Reservations \ {r} : /\ alloc'[q] = alloc[q] /\ rebate'[q] = rebate[q]
                                       /\ baseline'[q] = baseline[q]
      /\ baseline'[r] = Baseline(r)
  BY DEF RolledBack, EntitlementTypes, TypeOK, CycleType
<1>2. DrawsAreCharges'
  <2>1. ASSUME NEW q \in Reservations
        PROVE  /\ ~InFeed(q)' => /\ baseline'[q] = NoBaseline
                                 /\ \A m \in Namespaces : rebate'[q][m].desired = 0
                                 /\ \A c \in Cycles : alloc'[q][c] = 0
               /\ \A c \in Cycles : alloc'[q][c] > 0 => /\ cycle'[c].status # "none"
                                                        /\ cycle'[c].account = Account(q)
    <3>1. InFeed(q)' <=> InFeed(q)
      BY DEF InFeed, Settled, Prepaid
    <3>2. \A c \in Cycles : alloc[q][c] > 0 => cycle[c].status # "none" /\ cycle[c].account = Account(q)
      BY DEF DrawsAreCharges
    <3>3. CASE q = r
      <4>1. \A c \in Cycles : alloc'[r][c] > 0 => alloc[r][c] > 0
        BY <1>1
      <4> QED
        BY <1>1, <3>1, <3>2, <3>3, <4>1
    <3>4. CASE q # r
      <4>1. alloc'[q] = alloc[q] /\ rebate'[q] = rebate[q] /\ baseline'[q] = baseline[q]
        BY <1>1, <3>4
      <4>2. ~InFeed(q) => /\ baseline[q] = NoBaseline
                          /\ \A m \in Namespaces : rebate[q][m].desired = 0
                          /\ \A c \in Cycles : alloc[q][c] = 0
        BY DEF DrawsAreCharges
      <4>3. \A c \in Cycles : alloc'[q][c] > 0 =>
              cycle'[c].status # "none" /\ cycle'[c].account = Account(q)
        BY <1>1, <3>2, <4>1
      <4> QED
        BY <3>1, <4>1, <4>2, <4>3
    <3> QED
      BY <3>3, <3>4
  <2> QED
    BY <2>1 DEF DrawsAreCharges, Account
<1>3. \A c \in Cycles : cycle'[c].consumed =
        SumFunctionOnSet([q \in Reservations |-> alloc'[q][c]], Reservations)
  <2> SUFFICES ASSUME NEW c \in Cycles
               PROVE  cycle'[c].consumed =
                        SumFunctionOnSet([q \in Reservations |-> alloc'[q][c]], Reservations)
    OBVIOUS
  <2> DEFINE f == [q \in Reservations |-> alloc[q][c]]
             g == [q \in Reservations |-> alloc'[q][c]]
             S == Reservations
  <2>1. /\ \A q \in S : f[q] \in Int /\ g[q] \in Int
        /\ IsFiniteSet(S) /\ S \ {r} = S \ {r}
    BY FiniteAssumption DEF EntitlementTypes, TypeOK
  <2>2. /\ \A q \in S \ {r} : f[q] = g[q]
        /\ f[r] = alloc[r][c] /\ g[r] = alloc[r][c] - back[c] /\ r \in S
    BY <1>1
  <2>3. cycle[c].consumed = SumFunctionOnSet(f, S)
    BY DEF ConsumptionIsAllocated
  <2> HIDE DEF f, g, S
  <2>4. SumFunctionOnSet(g, S) = SumFunctionOnSet(f, S)
                                 + (IF r \in S THEN g[r] ELSE 0) - (IF r \in S THEN f[r] ELSE 0)
    BY <2>1, <2>2, SumOneRow
  <2>5. SumFunctionOnSet(g, S) = cycle[c].consumed - back[c]
    <3>1. cycle[c].consumed \in Nat /\ back[c] \in Nat /\ alloc[r][c] \in Nat
      BY <1>1
    <3> QED
      BY <2>2, <2>3, <2>4, <3>1
  <2>6. cycle'[c].consumed = SumFunctionOnSet(g, S)
    BY <1>1, <2>5
  <2> QED
    BY <2>6 DEF g, S
<1> DEFINE cum == Rebated(r) - rebate[r][n].desired + d
           base == Baseline(r)
<1>4. /\ Allocated(r) \in Nat /\ Rebated(r) \in Nat
      /\ Allocated(r)' = Allocated(r) - SumFunctionOnSet(back, Cycles)
      /\ Rebated(r)' = cum
      /\ \A q \in Reservations \ {r} : Allocated(q)' = Allocated(q) /\ Rebated(q)' = Rebated(q)
  BY RollbackSums
<1>5. res[r].actual \in Nat /\ base \in Nat /\ cum \in Int
  BY <1>4 DEF EntitlementTypes, TypeOK, ReservationType, RebateType, Baseline
<1>6. Allocated(r)' = base - TargetRollback(r, cum)
  BY <1>4, <1>5 DEF TargetRollback, Larger
<1>7. Allocated(r)' = Smaller(base, res[r].actual - cum) /\ cum <= res[r].actual
  <2> HIDE DEF cum
  <2>1. TargetRollback(r, cum) = Larger(cum - (res[r].actual - base), 0)
    BY DEF TargetRollback
  <2> HIDE DEF base
  <2>2. Allocated(r)' = Smaller(base, res[r].actual - cum)
    BY <1>5, <1>6, <2>1 DEF Larger, Smaller
  <2> QED
    BY <2>2 DEF cum
<1> HIDE DEF cum, base
<1>8. \A q \in Reservations : Allocated(q)' <= res'[q].actual - Rebated(q)'
  <2>1. Allocated(r)' <= res'[r].actual - Rebated(r)'
    BY <1>4, <1>5, <1>7 DEF Smaller
  <2>2. \A q \in Reservations \ {r} : Allocated(q)' <= res'[q].actual - Rebated(q)'
    BY <1>4 DEF ConsumptionIsAllocated
  <2> QED
    BY <2>1, <2>2
<1>9. \A q \in Reservations : baseline'[q] # NoBaseline =>
        Allocated(q)' = Smaller(baseline'[q], res'[q].actual - Rebated(q)')
  <2>1. Allocated(r)' = Smaller(baseline'[r], res'[r].actual - Rebated(r)')
    BY <1>1, <1>4, <1>7 DEF base
  <2>2. \A q \in Reservations \ {r} : baseline'[q] # NoBaseline =>
          Allocated(q)' = Smaller(baseline'[q], res'[q].actual - Rebated(q)')
    BY <1>1, <1>4 DEF ConsumptionIsAllocated, RebatesReturnGenericFirst
  <2> QED
    BY <2>1, <2>2
<1>10. RebatesReturnGenericFirst'
  BY <1>9 DEF RebatesReturnGenericFirst
<1> QED
  BY <1>2, <1>3, <1>8, <1>10 DEF ConsumptionIsAllocated

\* A rebate that shrinks a cycle's funding neither creates nor loses credit.
LEMMA RollbackCredit ==
  ASSUME EntitlementTypes, EntitlementTypes', NEW r \in Reservations, NEW n \in Namespaces,
         NEW d \in Nat, NEW back \in [Cycles -> Nat], RolledBack(r, n, d, back),
         res' = res, grant' = grant, DrawsAreCharges, CreditConserved,
         ledger' = [ledger EXCEPT ![Account(r)] =
                      @ + (d - rebate[r][n].desired + SumFunctionOnSet(Gain, Cycles))]
  PROVE  CreditConserved'
<1> DEFINE a == Account(r)
           x == d - rebate[r][n].desired
           z == SumFunctionOnSet(Gain, Cycles)
<1>1. /\ a \in Accounts /\ x \in Int /\ ledger \in [Accounts -> Int]
  BY KeysAssumption DEF Account, EntitlementTypes, TypeOK, RebateType
<1>2. z \in Int
  <2>1. \A c \in Cycles : Gain[c] \in Int
    BY DEF Gain, EntitlementTypes, TypeOK, CycleType
  <2> QED
    BY <2>1, FiniteAssumption, SumOfOthers
<1>3. /\ \A c \in Cycles : cycle'[c].account = cycle[c].account
      /\ \A c \in Cycles : cycle'[c].funded # cycle[c].funded => cycle'[c].account = a
  <2>1. \A c \in Cycles : /\ cycle'[c].account = cycle[c].account
                          /\ back[c] \in Nat /\ back[c] <= alloc[r][c] /\ alloc[r][c] \in Nat
                          /\ back[c] = 0 => cycle'[c].funded = cycle[c].funded
    BY DEF RolledBack, EntitlementTypes, TypeOK
  <2>2. \A c \in Cycles : alloc[r][c] > 0 => cycle[c].account = a
    BY DEF DrawsAreCharges
  <2> QED
    BY <2>1, <2>2
<1>4. /\ Rebated(r)' = Rebated(r) + x /\ Rebated(r) \in Nat /\ PrepaidCharge(r) \in Nat
      /\ \A q \in Reservations \ {r} : Rebated(q)' = Rebated(q)
  <2>1. /\ Rebated(r) \in Nat /\ Rebated(r)' = Rebated(r) - rebate[r][n].desired + d
        /\ \A q \in Reservations \ {r} : Rebated(q)' = Rebated(q)
    BY RollbackSums
  <2>2. rebate[r][n].desired \in Nat
    BY DEF EntitlementTypes, RebateType
  <2> QED
    BY <2>1, <2>2, NetTypes DEF NetsAreNumbers
<1>5. \A q \in Reservations : PrepaidCharge(q)' = PrepaidCharge(q)
  BY DEF PrepaidCharge, InFeed, Settled, Prepaid
<1>6. /\ \A q \in Reservations \ {r} : NetAmount'[q] = NetAmount[q]
      /\ NetAmount'[r] - NetAmount[r] = x
  BY <1>1, <1>4, <1>5 DEF NetAmount
<1>7. \A b \in Accounts : NetSum(b)' = NetSum(b) + IF b = a THEN x ELSE 0
  <2> SUFFICES ASSUME NEW b \in Accounts
               PROVE  NetSum(b)' = NetSum(b) + IF b = a THEN x ELSE 0
    OBVIOUS
  <2>1. NetSum(b)' = NetSum(b) + IF Account(r) = b THEN NetAmount'[r] - NetAmount[r] ELSE 0
    BY <1>6, NetStep
  <2> QED
    BY <1>6, <2>1
<1>8. \A b \in Accounts : GrantSum(b)' = GrantSum(b) + IF b = a THEN 0 ELSE 0
  BY SameGrants, SumTypes
<1>9. \A b \in Accounts : ledger'[b] = ledger[b] + IF b = a THEN 0 + x + z ELSE 0
  <2>1. ledger' = [ledger EXCEPT ![a] = @ + (x + z)]
    OBVIOUS
  <2> HIDE DEF a, x, z
  <2> QED
    BY <1>1, <1>2, <2>1
<1>10. \A c \in Cycles : \/ cycle'[c].account = cycle[c].account
                         \/ cycle[c].funded = 0 /\ cycle'[c].account = a
  BY <1>3
<1> HIDE DEF a, x
<1>11. CreditMoves(a, 0, x)
  BY <1>3, <1>7, <1>8, <1>9, <1>10 DEF CreditMoves
<1> QED
  BY <1>1, <1>11, CreditStep

\* A rebate keeps the invariant.
LEMMA FundedAdjustment == ASSUME Funded, Adjustment PROVE Funded'
<1>1. /\ EntitlementTypes /\ SubsAreOrderly /\ SubscriptionsMatchCycles
      /\ \A c \in Cycles : FundedRow(c) /\ OwnedRow(c)
      /\ DrawsAreCharges /\ ConsumptionIsAllocated /\ CreditConserved
  BY FundedParts
<1>2. PICK r \in Reservations, n \in Namespaces, d \in Rebates, v \in Versions :
        ReconcileAdjustment(r, n, d, v)
  BY DEF Adjustment
<1>3. PICK back \in [Cycles -> Nat] :
           /\ RolledBack(r, n, d, back) /\ EntitlementTypes'
           /\ SumFunctionOnSet(back, Cycles) =
                TargetRollback(r, Rebated(r) - rebate[r][n].desired + d)
                  - (Baseline(r) - Allocated(r))
           /\ ledger' = [ledger EXCEPT ![Account(r)] =
                           @ + (d - rebate[r][n].desired + SumFunctionOnSet(Gain, Cycles))]
           /\ InFeed(r) /\ Rebated(r) - rebate[r][n].desired + d <= res[r].actual
           /\ now' = now /\ res' = res /\ sub' = sub /\ grant' = grant
  BY <1>1, <1>2, AdjustmentIsRollback
<1>4. d \in Nat
  BY SubscriptionAssumption
<1>5. \A c \in Cycles : FundedRow(c)' /\ OwnedRow(c)'
  BY <1>1, <1>3, <1>4, RollbackRows
<1>6. DrawsAreCharges' /\ ConsumptionIsAllocated'
  BY <1>1, <1>3, <1>4, RollbackDraws
<1>7. CreditConserved'
  BY <1>1, <1>3, <1>4, RollbackCredit
<1>8. SubsAreOrderly' /\ SubscriptionsMatchCycles'
  BY <1>1, <1>3 DEF SubsAreOrderly, SubscriptionsMatchCycles, RolledBack
<1> QED
  BY <1>3, <1>5, <1>6, <1>7, <1>8
     DEF Funded, CyclesAreOwned, FundingCoversConsumption, SubsAreOrderly, FundedRow, OwnedRow

-----------------------------------------------------------------------------
\* The steps of UsageSettlement beside subscriptions and rebates.  All but a
\* prepaid settlement leave the feed, the cycles and the allocations alone.
Quiet ==
  /\ cycle' = cycle /\ alloc' = alloc
  /\ now' = now \/ now' = now + 1
  /\ \A r \in Reservations : /\ InFeed(r)' <=> InFeed(r)
                             /\ InFeed(r) => res'[r].actual = res[r].actual

\* What the steps of UsageSettlement leave alone, prepaid settlements apart.
LEMMA QuietSteps ==
  ASSUME TypeOK, [Next]_vars,
         \A r \in Reservations, m \in Charges, t \in TokenCounts : ~SettlePrepaid(r, m, t)
  PROVE  /\ Quiet
         /\ \/ \E g \in Grants : \/ \E a \in Accounts, m \in GrantAmounts : GrantCredit(a, g, m)
                                 \/ ReverseGrant(g)
            \/ grant' = grant /\ ledger' = ledger
<1> DEFINE Still == cycle' = cycle /\ alloc' = alloc /\ (now' = now \/ now' = now + 1)
           Rows == \A r \in Reservations : /\ InFeed(r)' <=> InFeed(r)
                                           /\ InFeed(r) => res'[r].actual = res[r].actual
           Paid == grant' = grant /\ ledger' = ledger
<1>1. ASSUME res' = res PROVE Rows
  BY <1>1 DEF InFeed, Settled, Prepaid
<1>2. ASSUME NEW r \in Reservations, Reserve(r) \/ Resize(r) PROVE Still /\ Rows /\ Paid
  <2>1. BooksNothing(r)
    BY <1>2, HoldIsUnbooked
  <2>2. Rows
    BY <2>1 DEF BooksNothing, InFeed, Settled, Prepaid
  <2>3. Still /\ Paid
    BY <1>2 DEF Reserve, ReserveUnlimited, ReservePrepaid, Resize, ResizeUnlimited,
                ResizePrepaid, cycleVars, grantVars
  <2> QED
    BY <2>2, <2>3
<1>3. ASSUME NEW r \in Reservations, Settle(r) PROVE Still /\ Rows /\ Paid
  <2>1. PICK m \in Charges, t \in TokenCounts : SettleUnlimited(r, m, t)
    BY <1>3 DEF Settle
  <2>2. /\ Active(r) /\ ~Prepaid(r)
        /\ res' = [res EXCEPT ![r].status = "settled", ![r].actual = m,
                              ![r].used = t, ![r].settledAt = now]
        /\ Still /\ Paid
    BY <2>1 DEF SettleUnlimited, cycleVars, grantVars
  <2>3. \A q \in Reservations \ {r} : res'[q] = res[q]
    BY <2>2 DEF TypeOK
  <2>4. res'[r].prepaid = res[r].prepaid
    BY <2>2 DEF TypeOK, ReservationType
  <2>5. Rows
    BY <2>2, <2>3, <2>4 DEF InFeed, Settled, Prepaid
  <2> QED
    BY <2>2, <2>5
<1>4. ASSUME NEW r \in Reservations, Authenticate(r) \/ ProjectMetered(r)
      PROVE  Still /\ Rows /\ Paid
  BY <1>1, <1>4 DEF Authenticate, ProjectMetered, cycleVars, grantVars
<1>5. ASSUME NEW k \in Keys, NEW p \in Policies, SetPolicy(k, p) PROVE Still /\ Rows /\ Paid
  BY <1>1, <1>5 DEF SetPolicy, cycleVars, grantVars
<1>6. ASSUME NEW g \in Grants, \/ \E a \in Accounts, m \in GrantAmounts : GrantCredit(a, g, m)
                               \/ ReverseGrant(g)
      PROVE  Still /\ Rows
  <2>1. res' = res /\ Still
    BY <1>6 DEF GrantCredit, ReverseGrant, cycleVars
  <2> QED
    BY <1>1, <2>1
<1>7. CASE PruneBudgets \/ PruneRateWindows \/ Tick
  <2>1. res' = res /\ Still /\ Paid
    BY <1>7 DEF PruneBudgets, PruneRateWindows, Tick, cycleVars, grantVars
  <2> QED
    BY <1>1, <2>1 DEF Quiet
<1>8. CASE UNCHANGED vars
  BY <1>1, <1>8 DEF vars, Quiet
<1> HIDE DEF Still, Rows
<1>9. \/ Still /\ Rows /\ Paid
      \/ Still /\ Rows /\ \E g \in Grants : \/ \E a \in Accounts, m \in GrantAmounts : GrantCredit(a, g, m)
                                            \/ ReverseGrant(g)
  <2>1. CASE Next
    BY <1>2, <1>3, <1>4, <1>5, <1>6, <1>7, <2>1, Zenon DEF Next, Still, Rows, Quiet
  <2> QED
    BY <1>8, <2>1 DEF Still, Rows, Quiet
<1> QED
  BY <1>9 DEF Quiet, Still, Rows

\* Such a step keeps the invariant if it conserves credit.
LEMMA FundedQuiet ==
  ASSUME Funded, TypeOK', Quiet, sub' = sub, rebate' = rebate, baseline' = baseline,
         CreditConserved'
  PROVE  Funded'
<1>1. /\ EntitlementTypes /\ SubsAreOrderly /\ SubscriptionsMatchCycles
      /\ \A c \in Cycles : FundedRow(c) /\ OwnedRow(c)
      /\ DrawsAreCharges /\ ConsumptionIsAllocated
  BY FundedParts
<1>2. EntitlementTypes'
  BY <1>1 DEF EntitlementTypes
<1>3. cycle' = cycle /\ alloc' = alloc /\ (now' = now \/ now' = now + 1)
  BY DEF Quiet
<1>4. SubsAreOrderly' /\ SubscriptionsMatchCycles'
  BY <1>1, <1>3 DEF SubsAreOrderly, SubscriptionsMatchCycles
<1>5. \A c \in Cycles : FundedRow(c)' /\ OwnedRow(c)'
  <2>1. now \in Nat /\ \A c \in Cycles : cycle[c].end \in Nat
    BY <1>1 DEF EntitlementTypes, TypeOK, Times, CycleType
  <2> QED
    BY <1>1, <1>3, <2>1 DEF FundedRow, OwnedRow
<1>6. \A r \in Reservations : /\ InFeed(r)' <=> InFeed(r)
                              /\ InFeed(r) => res'[r].actual = res[r].actual
  BY DEF Quiet
<1>7. DrawsAreCharges'
  <2>1. ASSUME NEW r \in Reservations
        PROVE  /\ ~InFeed(r)' => /\ baseline'[r] = NoBaseline
                                 /\ \A m \in Namespaces : rebate'[r][m].desired = 0
                                 /\ \A c \in Cycles : alloc'[r][c] = 0
               /\ \A c \in Cycles : alloc'[r][c] > 0 => /\ cycle'[c].status # "none"
                                                        /\ cycle'[c].account = Account(r)
    <3>1. ~InFeed(r)' => ~InFeed(r)
      BY <1>6
    <3>2. /\ ~InFeed(r) => /\ baseline[r] = NoBaseline
                           /\ \A m \in Namespaces : rebate[r][m].desired = 0
                           /\ \A c \in Cycles : alloc[r][c] = 0
          /\ \A c \in Cycles : alloc[r][c] > 0 => /\ cycle[c].status # "none"
                                                  /\ cycle[c].account = Account(r)
      BY <1>1 DEF DrawsAreCharges
    <3> QED
      BY <1>3, <3>1, <3>2
  <2> QED
    BY <2>1 DEF DrawsAreCharges, Account
<1>8. \A r \in Reservations : Allocated(r)' = Allocated(r) /\ Rebated(r)' = Rebated(r)
  BY <1>3 DEF Allocated, Rebated
<1>9. ASSUME NEW r \in Reservations, ~InFeed(r)
      PROVE  Allocated(r) = 0 /\ Rebated(r) = 0
  <2> DEFINE f == alloc[r]
             g == [n \in Namespaces |-> rebate[r][n].desired]
  <2>1. /\ \A c \in Cycles : f[c] = 0
        /\ \A n \in Namespaces : g[n] = 0
    BY <1>1, <1>9 DEF DrawsAreCharges
  <2>2. Allocated(r) = SumFunctionOnSet(f, Cycles) /\ Rebated(r) = SumFunctionOnSet(g, Namespaces)
    BY DEF Allocated, Rebated
  <2> HIDE DEF f, g
  <2> QED
    BY <2>1, <2>2, FiniteAssumption, SubscriptionAssumption, SumOfZeros
<1>10. \A r \in Reservations : Allocated(r)' <= res'[r].actual - Rebated(r)'
  <2> SUFFICES ASSUME NEW r \in Reservations PROVE Allocated(r)' <= res'[r].actual - Rebated(r)'
    OBVIOUS
  <2>1. CASE InFeed(r)
    BY <1>1, <1>6, <1>8, <2>1 DEF ConsumptionIsAllocated
  <2>2. CASE ~InFeed(r)
    <3>1. res'[r].actual \in Nat
      BY <1>2 DEF EntitlementTypes, TypeOK, ReservationType
    <3> QED
      BY <1>8, <1>9, <2>2, <3>1
  <2> QED
    BY <2>1, <2>2
<1>11. RebatesReturnGenericFirst'
  <2>1. ASSUME NEW r \in Reservations, baseline'[r] # NoBaseline
        PROVE  Allocated(r)' = Smaller(baseline'[r], res'[r].actual - Rebated(r)')
    <3>1. InFeed(r)
      BY <1>1, <2>1 DEF DrawsAreCharges
    <3> QED
      BY <1>1, <1>6, <1>8, <2>1, <3>1 DEF ConsumptionIsAllocated, RebatesReturnGenericFirst
  <2> QED
    BY <2>1 DEF RebatesReturnGenericFirst
<1>12. \A c \in Cycles : cycle'[c].consumed =
         SumFunctionOnSet([r \in Reservations |-> alloc'[r][c]], Reservations)
  BY <1>1, <1>3 DEF ConsumptionIsAllocated
<1>13. ConsumptionIsAllocated'
  BY <1>10, <1>11, <1>12 DEF ConsumptionIsAllocated
<1> QED
  BY <1>2, <1>4, <1>5, <1>7, <1>13
     DEF Funded, CyclesAreOwned, FundingCoversConsumption, SubsAreOrderly, FundedRow, OwnedRow

\* They leave charges and rebates alone.
LEMMA QuietNets ==
  ASSUME EntitlementTypes, EntitlementTypes', Quiet, rebate' = rebate
  PROVE  /\ \A r \in Reservations : NetAmount'[r] = NetAmount[r]
         /\ \A b \in Accounts : NetSum(b)' = NetSum(b)
<1>1. \A r \in Reservations : Rebated(r)' = Rebated(r) /\ PrepaidCharge(r)' = PrepaidCharge(r)
  BY DEF Quiet, Rebated, PrepaidCharge
<1>2. \A r \in Reservations : NetAmount'[r] = NetAmount[r]
  BY <1>1 DEF NetAmount
<1>3. NetAmount' = NetAmount
  BY <1>2 DEF NetAmount
<1>4. \A b \in Accounts : NetSum(b)' = NetSum(b)
  BY <1>3 DEF NetSum, AccountRows, Account
<1> QED
  BY <1>2, <1>4

\* A step that moves no ledger entry, or one grant.
LEMMA QuietCredit ==
  ASSUME EntitlementTypes, EntitlementTypes', CreditConserved, Quiet, rebate' = rebate,
         NEW a \in Accounts, NEW n \in Int,
         \A b \in Accounts : GrantSum(b)' = GrantSum(b) + IF b = a THEN n ELSE 0,
         \A b \in Accounts : ledger'[b] = ledger[b] + IF b = a THEN n ELSE 0
  PROVE  CreditConserved'
<1> DEFINE z == SumFunctionOnSet(Gain, Cycles)
<1>1. z = 0
  <2>1. \A c \in Cycles : cycle[c].funded \in Nat /\ cycle'[c].funded = cycle[c].funded
    BY DEF Quiet, EntitlementTypes, TypeOK, CycleType
  <2>2. \A c \in Cycles : Gain[c] = 0
    BY <2>1 DEF Gain
  <2> QED
    BY <2>2, FiniteAssumption, SumOfZeros
<1>2. \A b \in Accounts : NetSum(b)' = NetSum(b) + IF b = a THEN 0 ELSE 0
  BY QuietNets, SumTypes
<1>3. \A b \in Accounts : ledger'[b] = ledger[b] + IF b = a THEN n + 0 + z ELSE 0
  <2> HIDE DEF z
  <2> QED
    BY <1>1
<1>4. /\ \A c \in Cycles : \/ cycle'[c].account = cycle[c].account
                           \/ cycle[c].funded = 0 /\ cycle'[c].account = a
      /\ \A c \in Cycles : cycle'[c].funded # cycle[c].funded => cycle'[c].account = a
  BY DEF Quiet
<1>5. CreditMoves(a, n, 0)
  BY <1>2, <1>3, <1>4 DEF CreditMoves
<1> QED
  BY <1>5, CreditStep

\* One grant row moves the grants of its account.
LEMMA GrantStep ==
  ASSUME EntitlementTypes, EntitlementTypes', NEW g \in Grants,
         \A h \in Grants \ {g} : grant'[h] = grant[h], NEW b \in Accounts
  PROVE  GrantSum(b)' = GrantSum(b)
           + (IF g \in GrantsTo(b)' THEN grant'[g].amount ELSE 0)
           - (IF g \in GrantsTo(b) THEN grant[g].amount ELSE 0)
<1> DEFINE S == GrantsTo(b)
           T == GrantsTo(b)'
           p == GrantedAmount
           q == GrantedAmount'
<1>1. /\ S \subseteq Grants /\ T \subseteq Grants /\ S \ {g} = T \ {g}
  BY DEF GrantsTo
<1>2. IsFiniteSet(S) /\ IsFiniteSet(T)
  BY <1>1, FiniteAssumption, FS_Subset
<1>3. /\ \A h \in Grants : p[h] = grant[h].amount /\ p[h] \in Int
      /\ \A h \in Grants : q[h] = grant'[h].amount /\ q[h] \in Int
  BY DEF GrantedAmount, EntitlementTypes, TypeOK, GrantType
<1>4. GrantSum(b) = SumFunctionOnSet(p, S) /\ GrantSum(b)' = SumFunctionOnSet(q, T)
  BY DEF GrantSum
<1> HIDE DEF S, T, p, q
<1>5. /\ \A h \in S : p[h] \in Int
      /\ \A h \in T : q[h] \in Int
      /\ \A h \in S \ {g} : p[h] = q[h]
  BY <1>1, <1>3
<1>6. SumFunctionOnSet(q, T) = SumFunctionOnSet(p, S)
                               + (IF g \in T THEN q[g] ELSE 0) - (IF g \in S THEN p[g] ELSE 0)
  BY <1>1, <1>2, <1>5, SumOneRow
<1>7. p[g] = grant[g].amount /\ q[g] = grant'[g].amount
  BY <1>3
<1> QED
  BY <1>4, <1>6, <1>7 DEF S, T

\* Granting and reversing conserve credit.
LEMMA GrantConserves ==
  ASSUME EntitlementTypes, EntitlementTypes', CreditConserved, Quiet, rebate' = rebate,
         NEW g \in Grants, \/ \E a \in Accounts, m \in GrantAmounts : GrantCredit(a, g, m)
                           \/ ReverseGrant(g)
  PROVE  CreditConserved'
<1>1. /\ grant \in [Grants -> GrantType] /\ ledger \in [Accounts -> Int] /\ grant[g] \in GrantType
      /\ grant[g].amount \in Nat /\ grant[g].account \in Accounts
  BY DEF EntitlementTypes, TypeOK, GrantType
<1>2. ASSUME NEW a \in Accounts, NEW m \in GrantAmounts, GrantCredit(a, g, m)
      PROVE  CreditConserved'
  <2>1. m \in Nat
    BY AmountAssumption
  <2>2. /\ grant[g].status = "none" /\ grant'[g].status = "granted"
        /\ grant'[g].account = a /\ grant'[g].amount = m
        /\ \A h \in Grants \ {g} : grant'[h] = grant[h]
    BY <1>1, <1>2 DEF GrantCredit
  <2>3. ASSUME NEW b \in Accounts
        PROVE  GrantSum(b)' = GrantSum(b) + IF b = a THEN m ELSE 0
    <3>1. g \notin GrantsTo(b) /\ (g \in GrantsTo(b)' <=> b = a)
      BY <2>2 DEF GrantsTo
    <3>2. GrantSum(b)' = GrantSum(b)
           + (IF g \in GrantsTo(b)' THEN grant'[g].amount ELSE 0)
           - (IF g \in GrantsTo(b) THEN grant[g].amount ELSE 0)
      BY <2>2, GrantStep
    <3>3. GrantSum(b) \in Int
      BY SumTypes
    <3> QED
      BY <2>1, <2>2, <3>1, <3>2, <3>3
  <2>4. \A b \in Accounts : ledger'[b] = ledger[b] + IF b = a THEN m ELSE 0
    BY <1>1, <1>2, <2>1 DEF GrantCredit
  <2> QED
    BY <2>1, <2>3, <2>4, QuietCredit
<1>3. ASSUME ReverseGrant(g) PROVE CreditConserved'
  <2> DEFINE a == grant[g].account
             m == grant[g].amount
  <2>2. /\ grant[g].status = "granted" /\ grant'[g].status = "reversed"
        /\ \A h \in Grants \ {g} : grant'[h] = grant[h]
    BY <1>1, <1>3 DEF ReverseGrant, GrantType
  <2>3. ASSUME NEW b \in Accounts
        PROVE  GrantSum(b)' = GrantSum(b) + IF b = a THEN -m ELSE 0
    <3>1. g \notin GrantsTo(b)' /\ (g \in GrantsTo(b) <=> b = a)
      BY <2>2 DEF GrantsTo
    <3>2. GrantSum(b)' = GrantSum(b)
           + (IF g \in GrantsTo(b)' THEN grant'[g].amount ELSE 0)
           - (IF g \in GrantsTo(b) THEN grant[g].amount ELSE 0)
      BY <2>2, GrantStep
    <3>3. GrantSum(b) \in Int
      BY SumTypes
    <3> QED
      BY <1>1, <3>1, <3>2, <3>3
  <2>4. \A b \in Accounts : ledger'[b] = ledger[b] + IF b = a THEN -m ELSE 0
    BY <1>1, <1>3 DEF ReverseGrant
  <2>5. -m \in Int /\ a \in Accounts
    BY <1>1
  <2> HIDE DEF m, a
  <2> QED
    BY <2>3, <2>4, <2>5, QuietCredit
<1> QED
  BY <1>2, <1>3

\* What a prepaid settlement does, row by row.
Drawn(r, actual) ==
  /\ actual \in Nat /\ Active(r) /\ InFeed(r)' /\ res'[r].actual = actual
  /\ \A q \in Reservations \ {r} : res'[q] = res[q] /\ alloc'[q] = alloc[q]
  /\ \A c \in Cycles :
       /\ cycle'[c].status = cycle[c].status /\ cycle'[c].account = cycle[c].account
       /\ cycle'[c].end = cycle[c].end /\ cycle'[c].desired = cycle[c].desired
       /\ cycle'[c].funded = cycle[c].funded
       /\ cycle'[c].consumed = cycle[c].consumed + alloc'[r][c]
       /\ alloc'[r][c] > 0 => c \in LiveCycles(Account(r)) /\ alloc'[r][c] <= Remaining(c)
  /\ Allocated(r)' <= actual
  /\ \A b \in Accounts : ledger'[b] = ledger[b] - IF b = Account(r) THEN actual ELSE 0
  /\ now' = now /\ grant' = grant

\* What a prepaid settlement does, row by row.
LEMMA SettleIsDraw ==
  ASSUME TypeOK, TypeOK', NEW r \in Reservations, NEW m \in Charges, NEW t \in TokenCounts,
         SettlePrepaid(r, m, t)
  PROVE  \E actual \in Nat : Drawn(r, actual)
<1> DEFINE live == LiveCycles(Account(r))
<1>1. PICK actual \in 0 .. m :
        /\ BookCharge(r, actual, t)
        /\ \E give \in [live -> 0 .. actual] :
             IsAllocation(Account(r), actual, give) /\ DrawCycles(r, give)
  BY DEF SettlePrepaid
<1>2. PICK give \in [live -> 0 .. actual] :
        IsAllocation(Account(r), actual, give) /\ DrawCycles(r, give)
  BY <1>1
<1>3. Active(r) /\ Prepaid(r) /\ now' = now /\ grant' = grant
  BY DEF SettlePrepaid, grantVars
<1>4. actual \in Nat /\ Account(r) \in Accounts /\ live \subseteq Cycles
  BY AmountAssumption, KeysAssumption DEF Account, LiveCycles
<1>5. /\ cycle \in [Cycles -> CycleType] /\ alloc \in [Reservations -> [Cycles -> Nat]]
      /\ ledger \in [Accounts -> Int] /\ res \in [Reservations -> ReservationType]
      /\ alloc' \in [Reservations -> [Cycles -> Nat]]
  BY DEF TypeOK
<1>6. /\ res'[r].status = "settled" /\ res'[r].actual = actual
      /\ \A q \in Reservations \ {r} : res'[q] = res[q]
  BY <1>1, <1>5 DEF BookCharge, ReservationType
<1>7. res'[r].prepaid = res[r].prepaid
  BY <1>1, <1>5 DEF BookCharge, ReservationType
<1>8. InFeed(r)'
  BY <1>3, <1>6, <1>7 DEF InFeed, Settled, Prepaid
<1>9. \A b \in Accounts : ledger'[b] = ledger[b] - IF b = Account(r) THEN actual ELSE 0
  BY <1>1, <1>4, <1>5 DEF BookCharge, Account
<1>10. \A q \in Reservations \ {r} : alloc'[q] = alloc[q]
  BY <1>2, <1>5 DEF DrawCycles
<1>11. \A c \in live : give[c] \in Nat /\ give[c] <= Remaining(c)
  BY <1>2, <1>4 DEF IsAllocation
<1>12. \A c \in Cycles : /\ alloc'[r][c] = IF c \in live THEN give[c] ELSE 0
                         /\ alloc'[r][c] \in Nat
  BY <1>2, <1>5, <1>11 DEF DrawCycles
<1>13. \A c \in Cycles : cycle'[c] = IF c \in live THEN [cycle[c] EXCEPT !.consumed = @ + give[c]]
                                                   ELSE cycle[c]
  BY <1>2 DEF DrawCycles
<1> HIDE DEF live
<1>14. ASSUME NEW c \in Cycles
       PROVE  /\ cycle'[c].status = cycle[c].status /\ cycle'[c].account = cycle[c].account
              /\ cycle'[c].end = cycle[c].end /\ cycle'[c].desired = cycle[c].desired
              /\ cycle'[c].funded = cycle[c].funded
              /\ cycle'[c].consumed = cycle[c].consumed + alloc'[r][c]
              /\ alloc'[r][c] > 0 => c \in live /\ alloc'[r][c] <= Remaining(c)
  <2>1. cycle[c] \in CycleType /\ cycle[c].consumed \in Nat
    BY <1>5 DEF CycleType
  <2>2. CASE c \in live
    <3> DEFINE n == give[c]
    <3>1. cycle'[c] = [cycle[c] EXCEPT !.consumed = @ + n] /\ alloc'[r][c] = n
      BY <1>12, <1>13, <2>2
    <3>2. n \in Nat /\ n <= Remaining(c)
      BY <1>11, <2>2
    <3> HIDE DEF n
    <3>3. /\ cycle'[c].status = cycle[c].status /\ cycle'[c].account = cycle[c].account
          /\ cycle'[c].end = cycle[c].end /\ cycle'[c].desired = cycle[c].desired
          /\ cycle'[c].funded = cycle[c].funded
          /\ cycle'[c].consumed = cycle[c].consumed + n
      BY <2>1, <3>1 DEF CycleType
    <3> QED
      BY <2>2, <3>1, <3>2, <3>3
  <2>3. CASE c \notin live
    <3>1. cycle'[c] = cycle[c] /\ alloc'[r][c] = 0
      BY <1>12, <1>13, <2>3
    <3> QED
      BY <2>1, <3>1
  <2> QED
    BY <2>2, <2>3
<1>15. Allocated(r)' <= actual
  <2> DEFINE f == alloc'[r]
             S == Cycles
  <2>1. /\ IsFiniteSet(S) /\ live \in SUBSET S /\ \A c \in S : f[c] \in Int
        /\ \A c \in S \ live : f[c] = 0
        /\ \A c \in live : f[c] = give[c]
    BY <1>4, <1>12, FiniteAssumption
  <2>2. Allocated(r)' = SumFunctionOnSet(f, S)
    BY DEF Allocated
  <2>3. IsFiniteSet(live)
    BY <2>1, FS_Subset
  <2> HIDE DEF f, S
  <2>4. SumFunctionOnSet(f, S) = SumFunctionOnSet(f, live)
    BY <2>1, SumOfSome
  <2>5. SumFunctionOnSet(f, live) = SumFunctionOnSet(give, live)
    BY <2>1, <2>3, SumOfSame
  <2> DEFINE rest == SumFunctionOnSet([c \in Cycles |-> Remaining(c)], live)
  <2>6. SumFunctionOnSet(give, live) = Smaller(actual, rest)
    BY <1>2 DEF IsAllocation, live
  <2>7. rest \in Int
    <3> DEFINE h == [c \in Cycles |-> Remaining(c)]
    <3>1. \A c \in live : h[c] \in Int
      BY <1>4, <1>5 DEF Remaining, CycleType
    <3> HIDE DEF h
    <3>2. SumFunctionOnSet(h, live) \in Int
      BY <2>3, <3>1, SumOfOthers
    <3> QED
      BY <3>2 DEF h
  <2> HIDE DEF rest
  <2>8. Smaller(actual, rest) <= actual
    BY <1>4, <2>7 DEF Smaller
  <2> QED
    BY <2>2, <2>4, <2>5, <2>6, <2>8
<1>16. Drawn(r, actual)
  BY <1>3, <1>4, <1>6, <1>8, <1>9, <1>10, <1>14, <1>15 DEF Drawn, live
<1> QED
  BY <1>4, <1>16

\* A prepaid settlement keeps the invariant.
LEMMA FundedSettle ==
  ASSUME Funded, TypeOK', sub' = sub, rebate' = rebate, baseline' = baseline,
         NEW r \in Reservations, NEW actual \in Nat, Drawn(r, actual)
  PROVE  Funded'
<1>1. /\ EntitlementTypes /\ SubsAreOrderly /\ SubscriptionsMatchCycles
      /\ \A c \in Cycles : FundedRow(c) /\ OwnedRow(c)
      /\ DrawsAreCharges /\ ConsumptionIsAllocated /\ CreditConserved
  BY FundedParts
<1>2. EntitlementTypes'
  BY <1>1 DEF EntitlementTypes
<1>3. /\ \A q \in Reservations \ {r} : res'[q] = res[q] /\ alloc'[q] = alloc[q]
      /\ InFeed(r)' /\ res'[r].actual = actual /\ Active(r) /\ Allocated(r)' <= actual
      /\ now' = now /\ grant' = grant
  BY DEF Drawn
<1>4. \A c \in Cycles :
       /\ cycle'[c].status = cycle[c].status /\ cycle'[c].account = cycle[c].account
       /\ cycle'[c].end = cycle[c].end /\ cycle'[c].desired = cycle[c].desired
       /\ cycle'[c].funded = cycle[c].funded
       /\ cycle'[c].consumed = cycle[c].consumed + alloc'[r][c]
       /\ alloc'[r][c] > 0 => c \in LiveCycles(Account(r)) /\ alloc'[r][c] <= Remaining(c)
  BY DEF Drawn
<1>5. /\ ~InFeed(r) /\ baseline[r] = NoBaseline
      /\ \A n \in Namespaces : rebate[r][n].desired = 0
      /\ \A c \in Cycles : alloc[r][c] = 0
  <2>1. ~InFeed(r)
    BY <1>3 DEF InFeed, Settled, Active
  <2> QED
    BY <1>1, <2>1 DEF DrawsAreCharges
<1>6. \A c \in Cycles : /\ alloc'[r][c] \in Nat /\ cycle[c].consumed \in Nat
                        /\ cycle[c].funded \in Nat /\ cycle[c].desired \in Nat
                        /\ cycle[c].end \in Nat
  BY <1>1, <1>2 DEF EntitlementTypes, TypeOK, CycleType
<1>7. SubsAreOrderly' /\ SubscriptionsMatchCycles'
  BY <1>1, <1>4 DEF SubsAreOrderly, SubscriptionsMatchCycles
<1>8. ASSUME NEW c \in Cycles PROVE FundedRow(c)' /\ OwnedRow(c)'
  <2>1. FundedRow(c) /\ OwnedRow(c)
    BY <1>1
  <2>2. /\ cycle'[c].status = cycle[c].status /\ cycle'[c].account = cycle[c].account
        /\ cycle'[c].end = cycle[c].end /\ cycle'[c].desired = cycle[c].desired
        /\ cycle'[c].funded = cycle[c].funded
        /\ cycle'[c].consumed = cycle[c].consumed + alloc'[r][c]
    BY <1>4
  <2>3. CASE alloc'[r][c] = 0
    <3>1. cycle'[c].consumed = cycle[c].consumed
      BY <1>6, <2>2, <2>3
    <3> QED
      BY <1>3, <2>1, <2>2, <3>1 DEF FundedRow, OwnedRow
  <2>4. CASE alloc'[r][c] > 0
    <3>1. cycle[c].status = "active" /\ alloc'[r][c] <= cycle[c].funded - cycle[c].consumed
      BY <1>4, <2>4 DEF LiveCycles, Remaining
    <3>2. OwnedRow(c)'
      BY <2>1, <2>2, <3>1 DEF OwnedRow
    <3>3. /\ cycle'[c].consumed <= cycle'[c].funded
          /\ cycle[c].end > now => cycle'[c].funded = Larger(cycle'[c].desired, cycle'[c].consumed)
      BY <1>6, <2>1, <2>2, <2>4, <3>1 DEF FundedRow, Larger
    <3> QED
      BY <1>3, <2>2, <3>1, <3>2, <3>3 DEF FundedRow
  <2> QED
    BY <1>6, <2>3, <2>4
<1>9. DrawsAreCharges'
  <2>1. ASSUME NEW q \in Reservations
        PROVE  /\ ~InFeed(q)' => /\ baseline'[q] = NoBaseline
                                 /\ \A n \in Namespaces : rebate'[q][n].desired = 0
                                 /\ \A c \in Cycles : alloc'[q][c] = 0
               /\ \A c \in Cycles : alloc'[q][c] > 0 => /\ cycle'[c].status # "none"
                                                        /\ cycle'[c].account = Account(q)
    <3>1. CASE q = r
      <4>1. \A c \in Cycles : alloc'[r][c] > 0 => /\ cycle[c].status = "active"
                                                  /\ cycle[c].account = Account(r)
        BY <1>4 DEF LiveCycles
      <4> QED
        BY <1>3, <1>4, <3>1, <4>1
    <3>2. CASE q # r
      <4>1. alloc'[q] = alloc[q] /\ (InFeed(q)' <=> InFeed(q))
        BY <1>3, <3>2 DEF InFeed, Settled, Prepaid
      <4>2. /\ ~InFeed(q) => /\ baseline[q] = NoBaseline
                             /\ \A n \in Namespaces : rebate[q][n].desired = 0
                             /\ \A c \in Cycles : alloc[q][c] = 0
            /\ \A c \in Cycles : alloc[q][c] > 0 => /\ cycle[c].status # "none"
                                                    /\ cycle[c].account = Account(q)
        BY <1>1 DEF DrawsAreCharges
      <4> QED
        BY <1>4, <4>1, <4>2
    <3> QED
      BY <3>1, <3>2
  <2> QED
    BY <2>1 DEF DrawsAreCharges, Account
<1>10. \A c \in Cycles : cycle'[c].consumed =
         SumFunctionOnSet([q \in Reservations |-> alloc'[q][c]], Reservations)
  <2> SUFFICES ASSUME NEW c \in Cycles
               PROVE  cycle'[c].consumed =
                        SumFunctionOnSet([q \in Reservations |-> alloc'[q][c]], Reservations)
    OBVIOUS
  <2> DEFINE f == [q \in Reservations |-> alloc[q][c]]
             g == [q \in Reservations |-> alloc'[q][c]]
             S == Reservations
  <2>1. /\ \A q \in S : f[q] \in Int /\ g[q] \in Int
        /\ IsFiniteSet(S) /\ S \ {r} = S \ {r}
    BY <1>1, <1>2, FiniteAssumption DEF EntitlementTypes, TypeOK
  <2>2. /\ \A q \in S \ {r} : f[q] = g[q]
        /\ f[r] = 0 /\ g[r] = alloc'[r][c] /\ r \in S
    BY <1>3, <1>5
  <2>3. cycle[c].consumed = SumFunctionOnSet(f, S)
    BY <1>1 DEF ConsumptionIsAllocated
  <2> HIDE DEF f, g, S
  <2>4. SumFunctionOnSet(g, S) = SumFunctionOnSet(f, S)
                                 + (IF r \in S THEN g[r] ELSE 0) - (IF r \in S THEN f[r] ELSE 0)
    BY <2>1, <2>2, SumOneRow
  <2>5. SumFunctionOnSet(g, S) = cycle[c].consumed + alloc'[r][c]
    <3>1. cycle[c].consumed \in Nat /\ alloc'[r][c] \in Nat
      BY <1>6
    <3> QED
      BY <2>2, <2>3, <2>4, <3>1
  <2>6. cycle'[c].consumed = SumFunctionOnSet(g, S)
    BY <1>4, <2>5
  <2> QED
    BY <2>6 DEF g, S
<1>11. Rebated(r) = 0 /\ \A q \in Reservations : Rebated(q)' = Rebated(q)
  <2> DEFINE g == [n \in Namespaces |-> rebate[r][n].desired]
  <2>1. \A n \in Namespaces : g[n] = 0
    BY <1>5
  <2>2. Rebated(r) = SumFunctionOnSet(g, Namespaces)
    BY DEF Rebated
  <2> HIDE DEF g
  <2>3. Rebated(r) = 0
    BY <2>1, <2>2, SubscriptionAssumption, SumOfZeros
  <2> QED
    BY <2>3 DEF Rebated
<1>12. \A q \in Reservations \ {r} : Allocated(q)' = Allocated(q)
  BY <1>3 DEF Allocated
<1>13. Allocated(r)' \in Nat
  BY <1>6, FiniteAssumption, SumOfNats DEF Allocated
<1>14. \A q \in Reservations : Allocated(q)' <= res'[q].actual - Rebated(q)'
  <2>1. Allocated(r)' <= res'[r].actual - Rebated(r)'
    BY <1>3, <1>11, <1>13
  <2>2. \A q \in Reservations \ {r} : Allocated(q)' <= res'[q].actual - Rebated(q)'
    BY <1>1, <1>3, <1>11, <1>12 DEF ConsumptionIsAllocated
  <2> QED
    BY <2>1, <2>2
<1>15. RebatesReturnGenericFirst'
  <2>1. \A q \in Reservations : baseline'[q] # NoBaseline =>
          Allocated(q)' = Smaller(baseline'[q], res'[q].actual - Rebated(q)')
    BY <1>1, <1>3, <1>5, <1>11, <1>12 DEF ConsumptionIsAllocated, RebatesReturnGenericFirst
  <2> QED
    BY <2>1 DEF RebatesReturnGenericFirst
<1>16. ConsumptionIsAllocated'
  BY <1>10, <1>14, <1>15 DEF ConsumptionIsAllocated
<1>17. CreditConserved'
  <2> DEFINE a == Account(r)
             z == SumFunctionOnSet(Gain, Cycles)
  <2>1. a \in Accounts /\ ledger \in [Accounts -> Int]
    BY <1>1, KeysAssumption DEF Account, EntitlementTypes, TypeOK
  <2>2. z = 0
    <3>1. \A c \in Cycles : Gain[c] = 0
      BY <1>4, <1>6 DEF Gain
    <3> QED
      BY <3>1, FiniteAssumption, SumOfZeros
  <2>3. /\ \A q \in Reservations \ {r} : NetAmount'[q] = NetAmount[q]
        /\ NetAmount[r] = 0 /\ NetAmount'[r] = -actual
    <3>1. \A q \in Reservations \ {r} : PrepaidCharge(q)' = PrepaidCharge(q)
      BY <1>3 DEF PrepaidCharge, InFeed, Settled, Prepaid
    <3>2. PrepaidCharge(r) = 0 /\ PrepaidCharge(r)' = actual
      BY <1>3, <1>5 DEF PrepaidCharge
    <3>3. \A q \in Reservations \ {r} : NetAmount'[q] = NetAmount[q]
      BY <1>11, <3>1 DEF NetAmount
    <3>4. NetAmount[r] = 0 - 0 /\ NetAmount'[r] = 0 - actual
      BY <1>11, <3>2 DEF NetAmount
    <3> QED
      BY <3>3, <3>4
  <2>4. \A b \in Accounts : NetSum(b)' = NetSum(b) + IF b = a THEN -actual ELSE 0
    <3> SUFFICES ASSUME NEW b \in Accounts
                 PROVE  NetSum(b)' = NetSum(b) + IF b = a THEN -actual ELSE 0
      OBVIOUS
    <3>1. NetSum(b)' = NetSum(b) + IF a = b THEN NetAmount'[r] - NetAmount[r] ELSE 0
      BY <1>1, <1>2, <2>3, NetStep
    <3> QED
      BY <2>3, <3>1
  <2>5. \A b \in Accounts : GrantSum(b)' = GrantSum(b) + IF b = a THEN 0 ELSE 0
    BY <1>1, <1>3, SameGrants, SumTypes
  <2>6. \A b \in Accounts : ledger'[b] = ledger[b] - IF b = a THEN actual ELSE 0
    BY DEF Drawn
  <2>7. \A b \in Accounts : ledger'[b] = ledger[b] + IF b = a THEN 0 + (-actual) + z ELSE 0
    <3> HIDE DEF z, a
    <3> QED
      BY <2>1, <2>2, <2>6
  <2>8. /\ \A c \in Cycles : \/ cycle'[c].account = cycle[c].account
                             \/ cycle[c].funded = 0 /\ cycle'[c].account = a
        /\ \A c \in Cycles : cycle'[c].funded # cycle[c].funded => cycle'[c].account = a
    BY <1>4
  <2>9. -actual \in Int
    OBVIOUS
  <2> HIDE DEF a
  <2>10. CreditMoves(a, 0, -actual)
    BY <2>4, <2>5, <2>7, <2>8 DEF CreditMoves
  <2> QED
    BY <1>1, <1>2, <2>1, <2>9, <2>10, CreditStep
<1> QED
  BY <1>2, <1>7, <1>8, <1>9, <1>16, <1>17
     DEF Funded, CyclesAreOwned, FundingCoversConsumption, SubsAreOrderly, FundedRow, OwnedRow

\* Nothing is funded, drawn, rebated or granted at first.
LEMMA FundedInit == EntitlementInit => Funded
<1> SUFFICES ASSUME EntitlementInit PROVE Funded
  OBVIOUS
<1>1. TypeOK
  BY TypeInit DEF EntitlementInit
<1>2. /\ sub = [s \in Subscriptions |-> NoSub]
      /\ rebate = [r \in Reservations |-> [n \in Namespaces |-> NoRebate]]
      /\ baseline = [r \in Reservations |-> NoBaseline]
      /\ cycle = [c \in Cycles |-> NoCycle] /\ res = [r \in Reservations |-> NoRow]
      /\ alloc = [r \in Reservations |-> [c \in Cycles |-> 0]]
      /\ grant = [g \in Grants |-> NoGrant] /\ ledger = [a \in Accounts |-> 0]
  BY DEF EntitlementInit, Init
<1>3. EntitlementTypes
  BY <1>1, <1>2 DEF EntitlementTypes, NoSub, SubType, NoRebate, RebateType
<1>4. \A c \in Cycles : /\ cycle[c].status = "none" /\ cycle[c].funded = 0
                        /\ cycle[c].consumed = 0
  BY <1>2 DEF NoCycle
<1>5. \A r \in Reservations : /\ ~InFeed(r) /\ res[r].actual = 0
                              /\ \A c \in Cycles : alloc[r][c] = 0
                              /\ \A n \in Namespaces : rebate[r][n].desired = 0
                              /\ baseline[r] = NoBaseline
  BY <1>2 DEF NoRow, NoRebate, InFeed, Settled
<1>6. \A s \in Subscriptions : sub[s].status = "none"
  BY <1>2 DEF NoSub
<1>7. SubsAreOrderly /\ SubscriptionsMatchCycles
  BY <1>4, <1>6 DEF SubsAreOrderly, SubscriptionsMatchCycles
<1>8. \A c \in Cycles : FundedRow(c) /\ OwnedRow(c)
  BY <1>4 DEF FundedRow, OwnedRow
<1>9. DrawsAreCharges
  BY <1>5 DEF DrawsAreCharges
<1>10. ASSUME NEW r \in Reservations PROVE Allocated(r) = 0 /\ Rebated(r) = 0
  <2> DEFINE f == alloc[r]
             g == [n \in Namespaces |-> rebate[r][n].desired]
  <2>1. /\ \A c \in Cycles : f[c] = 0
        /\ \A n \in Namespaces : g[n] = 0
    BY <1>5
  <2>2. Allocated(r) = SumFunctionOnSet(f, Cycles) /\ Rebated(r) = SumFunctionOnSet(g, Namespaces)
    BY DEF Allocated, Rebated
  <2> HIDE DEF f, g
  <2> QED
    BY <2>1, <2>2, FiniteAssumption, SubscriptionAssumption, SumOfZeros
<1>11. ASSUME NEW c \in Cycles
       PROVE  cycle[c].consumed =
                SumFunctionOnSet([r \in Reservations |-> alloc[r][c]], Reservations)
  <2> DEFINE f == [r \in Reservations |-> alloc[r][c]]
  <2>1. \A r \in Reservations : f[r] = 0
    BY <1>5
  <2> HIDE DEF f
  <2>2. SumFunctionOnSet(f, Reservations) = 0
    BY <2>1, FiniteAssumption, SumOfZeros
  <2> QED
    BY <1>4, <2>2 DEF f
<1>12. ConsumptionIsAllocated
  BY <1>5, <1>10, <1>11 DEF ConsumptionIsAllocated, RebatesReturnGenericFirst
<1>13. ASSUME NEW a \in Accounts PROVE ledger[a] = GrantSum(a) + FundSum(a) + NetSum(a)
  <2>1. /\ GrantsTo(a) \subseteq Grants /\ \A g \in GrantsTo(a) : GrantedAmount[g] = 0
    BY <1>2 DEF GrantsTo, GrantedAmount, NoGrant
  <2>2. /\ CyclesOf(a) \subseteq Cycles /\ \A c \in CyclesOf(a) : FundedAmount[c] = 0
    BY <1>4 DEF CyclesOf, FundedAmount
  <2>3. /\ AccountRows(a) \subseteq Reservations
        /\ \A r \in AccountRows(a) : NetAmount[r] = 0
    BY <1>5, <1>10 DEF AccountRows, NetAmount, PrepaidCharge
  <2>4. IsFiniteSet(GrantsTo(a)) /\ IsFiniteSet(CyclesOf(a)) /\ IsFiniteSet(AccountRows(a))
    BY <2>1, <2>2, <2>3, FiniteAssumption, FS_Subset
  <2>5. GrantSum(a) = 0 /\ FundSum(a) = 0 /\ NetSum(a) = 0
    BY <2>1, <2>2, <2>3, <2>4, SumOfZeros DEF GrantSum, FundSum, NetSum
  <2> QED
    BY <1>2, <2>5
<1>14. CreditConserved
  BY <1>13, CreditIsSums DEF CreditAdds
<1> QED
  BY <1>3, <1>7, <1>8, <1>9, <1>12, <1>14, FundedParts

\* Every step of the gateway's billing keeps the invariant.
LEMMA FundedNext == Funded /\ [EntitlementNext]_allVars => Funded'
<1> SUFFICES ASSUME Funded, [EntitlementNext]_allVars PROVE Funded'
  OBVIOUS
<1>1. EntitlementTypes /\ CreditConserved /\ TypeOK
  BY DEF Funded, EntitlementTypes
<1>2. ASSUME [Next]_vars, sub' = sub, rebate' = rebate, baseline' = baseline
      PROVE  Funded'
  <2>1. TypeOK'
    BY <1>1, <1>2, TypeNext
  <2>2. EntitlementTypes'
    BY <1>1, <1>2, <2>1 DEF EntitlementTypes
  <2>3. CASE \E r \in Reservations, m \in Charges, t \in TokenCounts : SettlePrepaid(r, m, t)
    <3>1. PICK r \in Reservations, m \in Charges, t \in TokenCounts : SettlePrepaid(r, m, t)
      BY <2>3
    <3>2. PICK actual \in Nat : Drawn(r, actual)
      BY <1>1, <2>1, <3>1, SettleIsDraw
    <3> QED
      BY <1>2, <2>1, <3>2, FundedSettle
  <2>4. CASE ~ \E r \in Reservations, m \in Charges, t \in TokenCounts : SettlePrepaid(r, m, t)
    <3>1. /\ Quiet
          /\ \/ \E g \in Grants : \/ \E a \in Accounts, m \in GrantAmounts : GrantCredit(a, g, m)
                                  \/ ReverseGrant(g)
             \/ grant' = grant /\ ledger' = ledger
      BY <1>1, <1>2, <2>4, QuietSteps
    <3>2. CASE \E g \in Grants : \/ \E a \in Accounts, m \in GrantAmounts : GrantCredit(a, g, m)
                                 \/ ReverseGrant(g)
      <4>1. CreditConserved'
        BY <1>1, <1>2, <2>2, <3>1, <3>2, GrantConserves
      <4> QED
        BY <1>2, <2>1, <3>1, <4>1, FundedQuiet
    <3>3. CASE grant' = grant /\ ledger' = ledger
      <4>1. PICK a \in Accounts : TRUE
        BY KeysAssumption
      <4>2. \A b \in Accounts : GrantSum(b)' = GrantSum(b) + IF b = a THEN 0 ELSE 0
        BY <1>1, <3>3, SameGrants, SumTypes
      <4>3. \A b \in Accounts : ledger'[b] = ledger[b] + IF b = a THEN 0 ELSE 0
        BY <1>1, <3>3 DEF TypeOK
      <4>4. CreditConserved'
        BY <1>1, <1>2, <2>2, <3>1, <4>2, <4>3, QuietCredit
      <4> QED
        BY <1>2, <2>1, <3>1, <4>4, FundedQuiet
    <3> QED
      BY <3>1, <3>2, <3>3
  <2> QED
    BY <2>3, <2>4
<1>3. CASE Next /\ UNCHANGED << sub, rebate, baseline >>
  BY <1>2, <1>3
<1>4. CASE UNCHANGED allVars
  BY <1>2, <1>4 DEF allVars
<1> QED
  BY <1>3, <1>4, FundedEvent, FundedAdjustment DEF EntitlementNext

\* The invariant always holds.
LEMMA AlwaysFunded == EntitlementSpec => []Funded
BY FundedInit, FundedNext, PTL DEF EntitlementSpec

\* A cycle never owes more than it was given and nothing of a lapsed one stays
\* spendable, for any number of subscriptions, cycles and settlements.
THEOREM FundingCovers == EntitlementSpec => []FundingCoversConsumption
<1>1. Funded => FundingCoversConsumption
  BY DEF Funded
<1> QED
  BY <1>1, AlwaysFunded, PTL

\* Consumption is what settlements hold, and rebates return it in order.
THEOREM ConsumptionAllocated == EntitlementSpec => []ConsumptionIsAllocated
<1>1. Funded => ConsumptionIsAllocated
  BY DEF Funded
<1> QED
  BY <1>1, AlwaysFunded, PTL

\* The ledger of every account is grants plus funding plus rebates less charges,
\* through every revocation, replacement and rebate.
THEOREM CreditIsConserved == EntitlementSpec => []CreditConserved
<1>1. Funded => CreditConserved
  BY DEF Funded
<1> QED
  BY <1>1, AlwaysFunded, PTL

-----------------------------------------------------------------------------
\* A reconciliation revokes and funds within what is available.
LEMMA CarefulSnapshot ==
  ASSUME EntitlementTypes, NEW s \in Subscriptions, NEW c \in Cycles, NEW d \in Desired,
         NEW v \in Versions, Snapshot(s, c, d, v)
  PROVE  Careful /\ sub' # sub
<1> DEFINE a == SubAccount[s]
           loss == [x \in Cycles |-> Delta(x, cycle[x].desired, TRUE)]
           revoked == SumFunctionOnSet(loss, Stale(s, c))
           delta == Delta(c, d, FALSE)
<1>1. /\ Affords(available[a], revoked) /\ Affords(available[a] + revoked, delta)
      /\ available' = [available EXCEPT ![a] = @ + (revoked + delta)]
  BY DEF Snapshot, Credit
<1>2. a \in Accounts /\ available \in [Accounts -> Int] /\ d \in Nat
  BY SubscriptionAssumption DEF EntitlementTypes, TypeOK
<1>3. \A x \in Cycles : cycle[x].desired \in Nat /\ cycle[x].funded \in Nat /\ cycle[x].consumed \in Nat
  BY DEF EntitlementTypes, TypeOK, CycleType
<1>4. delta \in Int
  BY <1>2, <1>3 DEF Delta, Funding, Larger
<1>5. revoked \in Int
  <2>1. Stale(s, c) \subseteq Cycles /\ \A x \in Stale(s, c) : loss[x] \in Int
    BY <1>3 DEF Stale, Delta, Funding
  <2>2. IsFiniteSet(Stale(s, c))
    BY <2>1, FiniteAssumption, FS_Subset
  <2> HIDE DEF loss
  <2> QED
    BY <2>1, <2>2, SumOfOthers
<1> HIDE DEF a, revoked, delta
<1>6. available[a] \in Int
  BY <1>2
<1>7. revoked + delta < 0 => available[a] + (revoked + delta) >= 0
  BY <1>1, <1>4, <1>5, <1>6 DEF Affords
<1>8. revoked + delta \in Int
  BY <1>4, <1>5
<1> DEFINE next == available[a] + (revoked + delta)
<1>12. available' = [available EXCEPT ![a] = next]
  BY <1>1
<1> HIDE DEF next
<1>9. Careful
  BY <1>2, <1>7, <1>8, <1>12, CarefulMove DEF next
<1>10. sub'[s].version = v /\ v > sub[s].version
  BY DEF Snapshot, EntitlementTypes
<1>11. sub[s].version \in Nat /\ v \in Nat
  BY SubscriptionAssumption DEF EntitlementTypes, SubType, Versions
<1> QED
  BY <1>9, <1>10, <1>11

\* A cancellation revokes within what is available.
LEMMA CarefulCancel ==
  ASSUME EntitlementTypes, SubsAreOrderly, NEW s \in Subscriptions, NEW v \in Versions,
         CancelEntitlement(s, v)
  PROVE  Careful /\ sub' # sub
<1> DEFINE a == SubAccount[s]
           c == sub[s].cycle
           delta == Delta(c, cycle[c].desired, TRUE)
<1>1. /\ Affords(available[a], delta) /\ sub[s].status # "none"
      /\ available' = [available EXCEPT ![a] = @ + delta]
  BY DEF CancelEntitlement, Credit
<1>2. a \in Accounts /\ available \in [Accounts -> Int] /\ c \in Cycles
  BY <1>1, SubscriptionAssumption DEF EntitlementTypes, TypeOK, SubsAreOrderly
<1>3. cycle[c].desired \in Nat /\ cycle[c].funded \in Nat /\ cycle[c].consumed \in Nat
  BY <1>2 DEF EntitlementTypes, TypeOK, CycleType
<1>4. delta \in Int
  BY <1>3 DEF Delta, Funding
<1> HIDE DEF a, c, delta
<1>5. delta < 0 => available[a] + delta >= 0
  BY <1>1, <1>2, <1>4 DEF Affords
<1> DEFINE next == available[a] + delta
<1>10. available' = [available EXCEPT ![a] = next]
  BY <1>1
<1> HIDE DEF next
<1>6. Careful
  BY <1>2, <1>4, <1>5, <1>10, CarefulMove DEF next
<1>7. sub' = [sub EXCEPT ![s].status = "cancelled", ![s].version = v] /\ v > sub[s].version
  BY DEF CancelEntitlement
<1>8. sub'[s].version = v
  <2>1. sub'[s] = [sub[s] EXCEPT !.status = "cancelled", !.version = v] /\ sub[s] \in SubType
    BY <1>7 DEF EntitlementTypes
  <2> QED
    BY <2>1 DEF SubType
<1>9. sub[s].version \in Nat /\ v \in Nat
  BY SubscriptionAssumption DEF EntitlementTypes, SubType, Versions
<1>11. v > sub[s].version
  BY DEF CancelEntitlement
<1> QED
  BY <1>6, <1>8, <1>9, <1>11

\* The new cycle of a replacement is not active before, so it only gains.
LEMMA CarefulReplace ==
  ASSUME Funded, NEW s \in Subscriptions, NEW v \in Versions, NEW t \in Subscriptions,
         NEW c \in Cycles, NEW d \in Desired, NEW w \in Versions,
         ReplaceEntitlement(s, v, t, c, d, w)
  PROVE  Careful /\ sub' # sub
<1> DEFINE a == SubAccount[s]
           old == sub[s].cycle
           delta == Delta(old, cycle[old].desired, TRUE)
           gain == Delta(c, d, FALSE)
<1>1. /\ Affords(available[a], delta) /\ sub[s].status # "none" /\ sub[s].status # "replaced"
      /\ sub[t].status = "none" /\ CycleSub[c] = t
      /\ available' = [available EXCEPT ![a] = @ + (delta + gain)]
  BY DEF ReplaceEntitlement, Credit
<1>2. EntitlementTypes /\ SubsAreOrderly /\ SubscriptionsMatchCycles /\ FundedRow(c)
  BY FundedParts
<1>3. a \in Accounts /\ available \in [Accounts -> Int] /\ old \in Cycles /\ d \in Nat
  BY <1>1, <1>2, SubscriptionAssumption DEF EntitlementTypes, TypeOK, SubsAreOrderly
<1>4. \A x \in Cycles : cycle[x].desired \in Nat /\ cycle[x].funded \in Nat /\ cycle[x].consumed \in Nat
  BY <1>2 DEF EntitlementTypes, TypeOK, CycleType
<1>5. delta \in Int
  BY <1>3, <1>4 DEF Delta, Funding
<1>6. gain \in Nat
  <2>1. cycle[c].status # "active"
    BY <1>1, <1>2 DEF SubscriptionsMatchCycles
  <2>2. cycle[c].funded = cycle[c].consumed
    BY <1>2, <2>1 DEF FundedRow
  <2> QED
    BY <1>3, <1>4, <2>2 DEF Delta, Funding, Larger
<1> HIDE DEF a, old, delta, gain
<1>7. /\ delta + gain \in Int
      /\ delta + gain < 0 => available[a] + (delta + gain) >= 0
  BY <1>1, <1>3, <1>5, <1>6 DEF Affords
<1> DEFINE next == available[a] + (delta + gain)
<1>12. available' = [available EXCEPT ![a] = next]
  BY <1>1
<1> HIDE DEF next
<1>8. Careful
  BY <1>3, <1>7, <1>12, CarefulMove DEF next
<1>9. s # t
  BY <1>1
<1>10. sub' = [sub EXCEPT ![s].status = "replaced", ![s].version = v,
                          ![t] = [status |-> "active", version |-> w, cycle |-> c]]
  BY DEF ReplaceEntitlement
<1>11. sub'[t].status = "active"
  BY <1>2, <1>10 DEF EntitlementTypes
<1> QED
  BY <1>1, <1>8, <1>11

\* A subscription event moves the subscription, within what is available.
LEMMA CarefulEvent ==
  ASSUME Funded, SubscriptionEvent
  PROVE  Careful /\ sub' # sub
<1>1. EntitlementTypes /\ SubsAreOrderly
  BY FundedParts
<1>2. PICK s \in Subscriptions, v \in Versions :
        \/ CancelEntitlement(s, v)
        \/ \E c \in Cycles, d \in Desired :
             \/ ReconcileEntitlement(s, c, d, v)
             \/ \E k \in Keys, p \in Policies : ApplyCloudEntitlement(s, c, d, v, k, p)
             \/ \E t \in Subscriptions, w \in Versions :
                  ReplaceEntitlement(s, v, t, c, d, w)
  BY Zenon DEF SubscriptionEvent
<1>3. ASSUME NEW c \in Cycles, NEW d \in Desired,
             \/ ReconcileEntitlement(s, c, d, v)
             \/ \E k \in Keys, p \in Policies : ApplyCloudEntitlement(s, c, d, v, k, p)
      PROVE  Careful /\ sub' # sub
  <2>1. Snapshot(s, c, d, v)
    BY <1>3 DEF ReconcileEntitlement, ApplyCloudEntitlement
  <2> QED
    BY <1>1, <2>1, CarefulSnapshot
<1> QED
  BY <1>1, <1>2, <1>3, CarefulCancel, CarefulReplace

\* A rebate carries a new version.
LEMMA AdjustmentIsNew ==
  ASSUME EntitlementTypes, Adjustment
  PROVE  rebate' # rebate
<1>1. PICK r \in Reservations, n \in Namespaces, d \in Rebates, v \in Versions :
        ReconcileAdjustment(r, n, d, v)
  BY DEF Adjustment
<1>2. /\ v > rebate[r][n].version
      /\ rebate' = [rebate EXCEPT ![r][n] = [desired |-> d, version |-> v]]
  BY <1>1 DEF ReconcileAdjustment
<1>3. rebate'[r][n].version = v /\ rebate[r][n].version \in Nat /\ v \in Nat
  BY <1>2, SubscriptionAssumption DEF EntitlementTypes, RebateType, Versions
<1> QED
  BY <1>2, <1>3

\* Nothing but a rebate takes an account below zero, or further below: every
\* hold, charge, reversal and revocation is guarded by what is available.
THEOREM OnlyRebatesTakeBelowZero == EntitlementSpec => OnlyRebatesOverdraw
<1>1. ASSUME Funded, Funded', [EntitlementNext]_allVars
      PROVE  [\A a \in Accounts : available'[a] < 0 /\ available'[a] < available[a]
                                    => rebate' # rebate]_allVars
  <2>1. EntitlementTypes /\ EntitlementTypes' /\ TypeOK
    BY <1>1 DEF Funded, EntitlementTypes
  <2>2. \A a \in Accounts : available[a] \in Int /\ available'[a] \in Int
    BY <2>1 DEF EntitlementTypes, TypeOK
  <2>3. ASSUME Careful
        PROVE  \A a \in Accounts : ~(available'[a] < 0 /\ available'[a] < available[a])
    BY <2>2, <2>3 DEF Careful
  <2>4. CASE Next /\ UNCHANGED << sub, rebate, baseline >>
    BY <2>1, <2>3, <2>4, CarefulNext
  <2>5. CASE SubscriptionEvent
    BY <1>1, <2>3, <2>5, CarefulEvent
  <2>6. CASE Adjustment
    BY <2>1, <2>6, AdjustmentIsNew
  <2> QED
    BY <1>1, <2>4, <2>5, <2>6 DEF EntitlementNext
<1> QED
  BY <1>1, AlwaysFunded, PTL DEF EntitlementSpec, OnlyRebatesOverdraw

\* Without a subscription event nothing makes more of a lapsed cycle spendable:
\* settlements draw from live cycles and a rebate takes back what a lapsed one
\* no longer consumes.
THEOREM LapsedStayLapsed == EntitlementSpec => LapsedRightsStayLapsed
<1> DEFINE Step == sub' = sub =>
                     \A c \in Cycles : cycle[c].status # "active" \/ cycle[c].end <= now
                                         => Remaining(c)' <= Remaining(c)
<1>1. ASSUME Funded, Funded', [EntitlementNext]_allVars
      PROVE  [Step]_allVars
  <2>1. EntitlementTypes /\ TypeOK /\ TypeOK' /\ \A c \in Cycles : FundedRow(c)
    BY <1>1, FundedParts DEF EntitlementTypes, Funded
  <2>2. now \in Nat
        /\ \A c \in Cycles : /\ cycle[c].funded \in Nat /\ cycle[c].consumed \in Nat
                             /\ cycle'[c].funded \in Nat /\ cycle'[c].consumed \in Nat
                             /\ cycle[c].end \in Nat
    BY <2>1 DEF TypeOK, CycleType, Times
  <2>3. ASSUME \A c \in Cycles : cycle'[c].funded = cycle[c].funded
                                 /\ cycle'[c].consumed >= cycle[c].consumed
        PROVE  Step
    BY <2>2, <2>3 DEF Remaining
  <2>4. CASE Next /\ UNCHANGED << sub, rebate, baseline >>
    <3>1. CASE \E r \in Reservations, m \in Charges, t \in TokenCounts : SettlePrepaid(r, m, t)
      <4>1. PICK r \in Reservations, m \in Charges, t \in TokenCounts : SettlePrepaid(r, m, t)
        BY <3>1
      <4>2. PICK actual \in Nat : Drawn(r, actual)
        BY <2>1, <4>1, SettleIsDraw
      <4>3. \A c \in Cycles : /\ cycle'[c].funded = cycle[c].funded
                              /\ cycle'[c].consumed = cycle[c].consumed + alloc'[r][c]
        BY <4>2 DEF Drawn
      <4>4. \A c \in Cycles : alloc'[r][c] \in Nat
        BY <2>1 DEF TypeOK
      <4> QED
        BY <2>2, <2>3, <4>3, <4>4
    <3>2. CASE ~ \E r \in Reservations, m \in Charges, t \in TokenCounts : SettlePrepaid(r, m, t)
      <4>1. cycle' = cycle
        BY <2>1, <2>4, <3>2, QuietSteps DEF Quiet
      <4> QED
        BY <2>2, <2>3, <4>1
    <3> QED
      BY <3>1, <3>2
  <2>5. CASE SubscriptionEvent
    BY <1>1, <2>5, CarefulEvent
  <2>6. CASE Adjustment
    <3>1. PICK r \in Reservations, n \in Namespaces, d \in Rebates, v \in Versions :
            ReconcileAdjustment(r, n, d, v)
      BY <2>6 DEF Adjustment
    <3>2. PICK back \in [Cycles -> Nat] : RolledBack(r, n, d, back)
      BY <2>1, <3>1, AdjustmentIsRollback
    <3>3. ASSUME NEW c \in Cycles, cycle[c].status # "active" \/ cycle[c].end <= now
          PROVE  Remaining(c)' <= Remaining(c)
      <4>1. /\ cycle'[c].consumed = cycle[c].consumed - back[c] /\ back[c] \in Nat
            /\ back[c] = 0 => cycle'[c].funded = cycle[c].funded
            /\ back[c] > 0 => cycle'[c].funded = RebatedFunding(c, cycle'[c].consumed)
        BY <3>2 DEF RolledBack
      <4>2. CASE back[c] = 0
        BY <2>2, <4>1, <4>2 DEF Remaining
      <4>3. CASE back[c] > 0
        <5>1. cycle'[c].funded = cycle'[c].consumed
          BY <2>2, <3>3, <4>1, <4>3 DEF RebatedFunding
        <5>2. cycle[c].consumed <= cycle[c].funded
          BY <2>1 DEF FundedRow
        <5> QED
          BY <2>2, <5>1, <5>2 DEF Remaining
      <4> QED
        BY <4>1, <4>2, <4>3
    <3> QED
      BY <3>3
  <2>7. CASE UNCHANGED allVars
    BY <2>7
  <2> QED
    BY <1>1, <2>4, <2>5, <2>6, <2>7 DEF EntitlementNext
<1> QED
  BY <1>1, AlwaysFunded, PTL DEF EntitlementSpec, LapsedRightsStayLapsed

-----------------------------------------------------------------------------
\* Subscriptions and rebates leave to reservations what is theirs.
Apart ==
  /\ UNCHANGED << now, admission, held, usage, budgetVars, res, rate, usageEntries,
                  outbox, grantVars >>
  /\ \E a \in Accounts, n \in Int : Credit(a, n)

\* Subscription events and rebates touch neither holds nor counters, and move
\* balance and ledger together.
LEMMA EventsAreApart ==
  ASSUME Funded, SubscriptionEvent \/ Adjustment
  PROVE  Apart
<1>1. /\ EntitlementTypes /\ TypeOK /\ SubscriptionsMatchCycles /\ CyclesAreOwned
      /\ \A s \in Subscriptions : SubAccount[s] \in Accounts
  BY FundedParts, SubscriptionAssumption DEF Funded, EntitlementTypes
<1>2. ASSUME NEW s \in Subscriptions, NEW R, NEW O, Event(SubAccount[s], R, O),
             cycle' \in [Cycles -> CycleType]
      PROVE  Apart
  <2> DEFINE n == SumFunctionOnSet(Gain, Cycles)
  <2>1. n \in Int
    <3> DEFINE g == Gain
    <3>1. \A c \in Cycles : g[c] \in Int
      BY <1>1, <1>2 DEF Gain, TypeOK, CycleType
    <3> HIDE DEF g
    <3>2. SumFunctionOnSet(g, Cycles) \in Int
      BY <3>1, FiniteAssumption, SumOfOthers
    <3> QED
      BY <3>2 DEF g
  <2>2. Credit(SubAccount[s], n)
    BY <1>2 DEF Event
  <2>3. UNCHANGED << now, admission, held, usage, budgetVars, res, rate, usageEntries,
                     outbox, grantVars >>
    BY <1>2 DEF Event
  <2> HIDE DEF n
  <2> QED
    BY <1>1, <2>1, <2>2, <2>3 DEF Apart
<1>3. ASSUME NEW s \in Subscriptions, NEW v \in Versions,
             NEW c \in Cycles, NEW d \in Desired, Snapshot(s, c, d, v)
      PROVE  Apart
  BY <1>1, <1>2, <1>3, SnapshotIsEvent
<1>4. CASE SubscriptionEvent
  <2>1. PICK s \in Subscriptions, v \in Versions :
          \/ CancelEntitlement(s, v)
          \/ \E c \in Cycles, d \in Desired :
               \/ ReconcileEntitlement(s, c, d, v)
               \/ \E k \in Keys, p \in Policies : ApplyCloudEntitlement(s, c, d, v, k, p)
               \/ \E t \in Subscriptions, w \in Versions :
                    ReplaceEntitlement(s, v, t, c, d, w)
    BY <1>4, Zenon DEF SubscriptionEvent
  <2>2. CASE CancelEntitlement(s, v)
    BY <1>1, <1>2, <2>2, CancelIsEvent
  <2>3. ASSUME NEW c \in Cycles, NEW d \in Desired,
               \/ ReconcileEntitlement(s, c, d, v)
               \/ \E k \in Keys, p \in Policies : ApplyCloudEntitlement(s, c, d, v, k, p)
        PROVE  Apart
    <3>1. Snapshot(s, c, d, v)
      BY <2>3 DEF ReconcileEntitlement, ApplyCloudEntitlement
    <3> QED
      BY <1>3, <3>1
  <2>4. ASSUME NEW c \in Cycles, NEW d \in Desired, NEW t \in Subscriptions, NEW w \in Versions,
               ReplaceEntitlement(s, v, t, c, d, w)
        PROVE  Apart
    BY <1>1, <1>2, <2>4, ReplaceIsEvent
  <2> QED
    BY <2>1, <2>2, <2>3, <2>4
<1>5. CASE Adjustment
  <2>1. PICK r \in Reservations, n \in Namespaces, d \in Rebates, v \in Versions :
          ReconcileAdjustment(r, n, d, v)
    BY <1>5 DEF Adjustment
  <2>2. \E x \in Int : Credit(Account(r), x)
    BY <1>1, <2>1, AdjustmentIsRollback
  <2>3. Account(r) \in Accounts
    BY KeysAssumption DEF Account
  <2>4. UNCHANGED << now, admission, held, usage, budgetVars, res, rate, usageEntries,
                     outbox, grantVars >>
    BY <2>1 DEF ReconcileAdjustment
  <2> QED
    BY <2>2, <2>3, <2>4 DEF Apart
<1> QED
  BY <1>4, <1>5

\* The invariants of UsageSettlement that do not depend on where credit comes
\* from.
Metered == Balanced /\ Counted /\ Requested /\ Remembered /\ Budgeted

\* Every step keeps the invariants of UsageSettlement.
LEMMA MeteredNext ==
  ASSUME Funded, Funded', Metered, [EntitlementNext]_allVars
  PROVE  Metered'
<1>1. TypeOK /\ TypeOK'
  BY DEF Funded, EntitlementTypes
<1>2. CASE [Next]_vars
  BY <1>2, BalancedNext, CountedNext, RequestedNext, RememberedNext, BudgetedNext DEF Metered
<1>3. CASE Apart
  <2>1. /\ now' = now /\ res' = res /\ held' = held /\ usage' = usage /\ rate' = rate
        /\ keySettled' = keySettled /\ keyReserved' = keyReserved /\ rollup' = rollup
        /\ events' = events /\ usageEntries' = usageEntries /\ outbox' = outbox
        /\ grant' = grant /\ snapshot' = snapshot /\ admission' = admission
    BY <1>3 DEF Apart, budgetVars, grantVars
  <2>2. Counted' /\ Windowed'
    BY <1>1, <2>1, CountedFrame, WindowedFrame DEF Metered, Budgeted
  <2>3. OutboxIsOrderly' /\ UsageBookedOnce'
    BY <2>1 DEF Metered, Remembered, Booked, OutboxIsOrderly, UsageBookedOnce, UsageSnapshot, Charged,
                Settled, Prepaid, Account
  <2>4. PICK a \in Accounts, n \in Int : Credit(a, n)
    BY <1>3 DEF Apart
  <2>5. /\ available \in [Accounts -> Int] /\ ledger \in [Accounts -> Int]
        /\ held \in [Accounts -> Int]
        /\ \A b \in Accounts : available[b] + held[b] = ledger[b]
    BY <1>1 DEF TypeOK, Metered, Balanced, BalanceMatchesLedger
  <2>6. ASSUME NEW b \in Accounts PROVE available'[b] + held'[b] = ledger'[b]
    <3>1. /\ available'[b] = IF b = a THEN available[b] + n ELSE available[b]
          /\ ledger'[b] = IF b = a THEN ledger[b] + n ELSE ledger[b]
      BY <2>4, <2>5 DEF Credit
    <3>2. available[b] \in Int /\ ledger[b] \in Int /\ held[b] \in Int
      BY <2>5
    <3> QED
      BY <2>1, <2>5, <3>1, <3>2
  <2>7. BalanceMatchesLedger'
    BY <2>6 DEF BalanceMatchesLedger
  <2>8. GrantsRemember' /\ RowsAdmitted'
    BY <2>1 DEF Metered, Remembered, Budgeted, GrantsRemember, RowsAdmitted, ChargedBefore,
                Charged, Settled, Account
  <2>9. Requested'
    BY <1>1, <2>1, <2>8, RequestedFrame DEF Metered, Admitted
  <2> QED
    BY <1>1, <2>2, <2>3, <2>7, <2>8, <2>9 DEF Metered, Balanced, Remembered, Booked, Budgeted
<1>4. \/ [Next]_vars
      \/ SubscriptionEvent \/ Adjustment
  BY DEF EntitlementNext, allVars
<1> QED
  BY <1>2, <1>3, <1>4, EventsAreApart

\* They always hold.
LEMMA AlwaysMetered == EntitlementSpec => []Metered
<1>1. EntitlementInit => Metered
  BY BalancedInit, CountedInit, RequestedInit, RememberedInit, BudgetedInit DEF EntitlementInit, Metered
<1>2. Funded /\ Funded' /\ Metered /\ [EntitlementNext]_allVars => Metered'
  BY MeteredNext
<1> QED
  BY <1>1, <1>2, AlwaysFunded, PTL DEF EntitlementSpec

\* Subscription events and rebates keep what reservations and settlements rely
\* on: balances equal ledgers, holds and rate windows match the reservation
\* rows, every charge is booked once and the budget figures are exact.
THEOREM MeteringHolds ==
  EntitlementSpec => [](/\ BalanceMatchesLedger /\ CountersMatchReservations
                        /\ UsageBookedOnce /\ BudgetWindowsExact)
<1>1. Metered => /\ BalanceMatchesLedger /\ CountersMatchReservations
                 /\ UsageBookedOnce /\ BudgetWindowsExact
  <2>1. Windowed => BudgetWindowsExact
    BY DailyIsExact, WeeklyIsExact DEF BudgetWindowsExact
  <2> QED
    BY <2>1 DEF Metered, Balanced, Counted, Requested, Remembered, Booked, Budgeted,
                CountersMatchReservations
<1> QED
  BY <1>1, AlwaysMetered, PTL

\* Beside subscriptions and rebates too, no step takes a key past a budget and
\* only unused grants are reversed.
THEOREM GatesHold ==
  EntitlementSpec => LifetimeBudgetRespected /\ WindowBudgetsRespected /\ ReversalsUnused
<1> DEFINE Held == /\ \A k \in Keys : LifetimeStep(k)
                   /\ \A k \in Keys : BudgetStep(k)
                   /\ ReversesUnused
<1>1. ASSUME Funded, Funded', Metered, [EntitlementNext]_allVars
      PROVE  Held
  <2>1. TypeOK /\ TypeOK'
    BY <1>1 DEF Funded, EntitlementTypes
  <2>2. CASE [Next]_vars
    <3>1. Remembered /\ Budgeted /\ Admitted
      BY <1>1, <2>1 DEF Metered, Budgeted, Admitted
    <3> QED
      BY <2>2, <3>1, LifetimeSteps, BudgetSteps, ReversalSteps
  <2>3. CASE Apart
    <3>1. /\ now' = now /\ res' = res /\ keySettled' = keySettled
          /\ keyReserved' = keyReserved /\ grant' = grant
      BY <2>3 DEF Apart, budgetVars, grantVars
    <3>2. \A k \in Keys : BudgetStep(k)
      BY <2>1, <3>1, BudgetStill
    <3>3. \A k \in Keys : LifetimeStep(k)
      <4>1. \A k \in Keys : /\ policy[k] \in InForce(k)
                            /\ keySettled[k] \in Nat /\ keyReserved[k] \in Nat
        BY <2>1 DEF InForce, TypeOK
      <4> QED
        BY <3>1, <4>1 DEF LifetimeStep, NoOverrun
    <3>4. ReversesUnused
      BY <3>1 DEF ReversesUnused
    <3> QED
      BY <3>2, <3>3, <3>4
  <2>4. \/ [Next]_vars
        \/ SubscriptionEvent \/ Adjustment
    BY <1>1 DEF EntitlementNext, allVars
  <2> QED
    BY <1>1, <2>2, <2>3, <2>4, EventsAreApart
<1>2. Held => /\ [\A k \in Keys : LifetimeStep(k)]_vars
              /\ [\A k \in Keys : BudgetStep(k)]_vars
              /\ [ReversesUnused]_vars
  OBVIOUS
<1> HIDE DEF Held
<1>3. EntitlementSpec => /\ [][\A k \in Keys : LifetimeStep(k)]_vars
                         /\ [][\A k \in Keys : BudgetStep(k)]_vars
                         /\ [][ReversesUnused]_vars
  BY <1>1, <1>2, AlwaysFunded, AlwaysMetered, PTL DEF EntitlementSpec
<1> QED
  BY <1>3 DEF LifetimeBudgetRespected, WindowBudgetsRespected, ReversalsUnused, ReversesUnused

-----------------------------------------------------------------------------
\* What the counters cover.

\* A sum of numbers covers each of them.
LEMMA SumCovers ==
  ASSUME NEW S \in SUBSET Reservations, NEW f, \A q \in Reservations : f[q] \in Nat, NEW r \in S
  PROVE  f[r] <= SumFunctionOnSet(f, S)
<1>1. IsFiniteSet(S) /\ \A q \in S : f[q] \in Nat
  BY RowsAreFinite
<1> QED
  BY <1>1, SumOfNats

\* The hold of every active prepaid reservation is still in the totals that a
\* settlement or a resize takes it from: the key's, behind `reserved_micros >=`
\* in the WHERE clause whose failure aborts with settlement_site_3, the
\* account's, and the rate window's, so that the clamp at zero has nothing to do.
HoldsAreCovered ==
  \A r \in Reservations : Active(r) /\ Prepaid(r) =>
    /\ res[r].micros <= keyReserved[KeyOf[r]]
    /\ res[r].micros <= held[Account(r)]
    /\ res[r].tpmApplied /\ rate[KeyOf[r]][res[r].window].live =>
         res[r].tokens <= rate[KeyOf[r]][res[r].window].tokens

\* Counters that are sums of the rows cover each row.
LEMMA CountersCover == ASSUME Counted PROVE HoldsAreCovered
<1> SUFFICES ASSUME NEW r \in Reservations, Active(r), Prepaid(r)
             PROVE  /\ res[r].micros <= keyReserved[KeyOf[r]]
                    /\ res[r].micros <= held[Account(r)]
                    /\ res[r].tpmApplied /\ rate[KeyOf[r]][res[r].window].live =>
                         res[r].tokens <= rate[KeyOf[r]][res[r].window].tokens
  BY DEF HoldsAreCovered
<1>1. /\ res \in [Reservations -> ReservationType] /\ KeyOf[r] \in Keys /\ Account(r) \in Accounts
      /\ \A q \in Reservations : res[q].micros \in Nat /\ res[q].tokens \in Nat
                                 /\ res[q].used \in Nat /\ res[q].window \in Minutes
  BY KeysAssumption DEF Counted, TypeOK, ReservationType, Account
<1>2. res[r].micros <= keyReserved[KeyOf[r]] /\ res[r].micros <= held[Account(r)]
  <2> DEFINE f == PrepaidHold
  <2>1. \A q \in Reservations : f[q] \in Nat
    BY <1>1 DEF PrepaidHold
  <2>2. f[r] = res[r].micros
    BY DEF PrepaidHold
  <2>3. r \in KeyRows(KeyOf[r]) /\ r \in AccountRows(Account(r))
    BY DEF KeyRows, AccountRows
  <2>4. /\ keyReserved[KeyOf[r]] = SumFunctionOnSet(f, KeyRows(KeyOf[r]))
        /\ held[Account(r)] = SumFunctionOnSet(f, AccountRows(Account(r)))
    BY <1>1 DEF Counted, HoldsMatchReservations, KeyRows, AccountRows
  <2>5. \A k : KeyRows(k) \in SUBSET Reservations
    BY DEF KeyRows
  <2>6. \A a : AccountRows(a) \in SUBSET Reservations
    BY DEF AccountRows
  <2> HIDE DEF f
  <2>7. f[r] <= SumFunctionOnSet(f, KeyRows(KeyOf[r]))
    BY <2>1, <2>3, <2>5, SumCovers
  <2>8. f[r] <= SumFunctionOnSet(f, AccountRows(Account(r)))
    BY <2>1, <2>3, <2>6, SumCovers
  <2> QED
    BY <2>2, <2>4, <2>7, <2>8
<1>3. ASSUME res[r].tpmApplied, rate[KeyOf[r]][res[r].window].live
      PROVE  res[r].tokens <= rate[KeyOf[r]][res[r].window].tokens
  <2> DEFINE k == KeyOf[r]
             w == res[r].window
             f == Tokens
  <2>1. \A q \in Reservations : f[q] \in Nat
    BY <1>1 DEF Tokens, TokensOf
  <2>2. f[r] = res[r].tokens
    BY DEF Tokens, TokensOf
  <2>3. r \in WindowRows(k, w) /\ WindowRows(k, w) \in SUBSET Reservations
    BY <1>3 DEF WindowRows, Active
  <2>4. rate[k][w].tokens = SumFunctionOnSet(f, WindowRows(k, w))
    BY <1>1, <1>3, WindowsAreSums DEF Counted
  <2> HIDE DEF f
  <2>5. f[r] <= SumFunctionOnSet(f, WindowRows(k, w))
    BY <2>1, <2>3, SumCovers
  <2> QED
    BY <2>2, <2>4, <2>5
<1> QED
  BY <1>2, <1>3

\* A settlement or a resize is never refused because the hold it releases is
\* missing from a total, which would strand the reservation: neither by other
\* requests of the key, whatever they reserved, resized, settled or pruned, nor
\* beside subscription events and rebates.
THEOREM HoldsNeverMissing ==
  /\ Spec => []HoldsAreCovered
  /\ EntitlementSpec => []HoldsAreCovered
<1>1. Counted => HoldsAreCovered
  BY CountersCover
<1>2. Metered => HoldsAreCovered
  BY <1>1 DEF Metered
<1>3. Spec => []HoldsAreCovered
  BY <1>1, CountedInit, CountedNext, PTL DEF Spec
<1>4. EntitlementSpec => []HoldsAreCovered
  BY <1>2, AlwaysMetered, PTL
<1> QED
  BY <1>3, <1>4

-----------------------------------------------------------------------------
\* The charge of a settlement.

\* The settled figures that the budgets are compared with are numbers.
LEMMA SettledFigures ==
  ASSUME TypeOK, NEW k \in Keys
  PROVE  DailySettled(k) \in Nat /\ WeeklySettled(k) \in Nat /\ keySettled[k] \in Nat
<1>1. DailySettled(k) \in Nat /\ keySettled[k] \in Nat
  <2>1. Day(now) \in Days
    BY ClockRows DEF TypeOK
  <2> QED
    BY <2>1 DEF TypeOK, DailySettled
<1> DEFINE D == {d \in Days : d >= FirstFullDay}
           E == {e \in events : /\ KeyOf[e] = k /\ res[e].settledAt >= WeekCutoff
                                /\ res[e].settledAt < FirstFullDay * DayLen}
           f == rollup[k]
           g == [e \in Reservations |-> res[e].actual]
<1>2. IsFiniteSet(D) /\ \A d \in D : f[d] \in Nat
  <2>1. IsFiniteSet(Days)
    <3>1. MaxTime \div DayLen \in Int
      BY TimeAssumption, SMT
    <3> QED
      BY <3>1, FS_Interval DEF Days
  <2>2. D \in SUBSET Days /\ \A d \in D : f[d] \in Nat
    BY DEF TypeOK
  <2> QED
    BY <2>1, <2>2, FS_Subset
<1>3. IsFiniteSet(E) /\ \A e \in E : g[e] \in Nat
  <2>1. E \in SUBSET Reservations
    BY DEF TypeOK
  <2>2. \A e \in Reservations : g[e] \in Nat
    BY DEF TypeOK, ReservationType
  <2> QED
    BY <2>1, <2>2, RowsAreFinite
<1>4. WeeklySettled(k) = SumFunctionOnSet(f, D) + SumFunctionOnSet(g, E)
  BY DEF WeeklySettled
<1> HIDE DEF D, E, f, g
<1>5. SumFunctionOnSet(f, D) \in Nat
  BY <1>2, SumOfNats
<1>6. SumFunctionOnSet(g, E) \in Nat
  BY <1>3, SumOfNats
<1> QED
  BY <1>1, <1>4, <1>5, <1>6

\* The code's arithmetic: what the balance and the hold can pay, lowered to
\* what remains of each configured budget beside the other holds, or to zero.
Lowered(x, budget, settled, others) ==
  IF budget = NoLimit THEN x ELSE Smaller(x, Larger(budget - settled - others, 0))
MaximumCharge(r) ==
  LET k      == KeyOf[r]
      p      == policy[k]
      others == Larger(keyReserved[k] - res[r].micros, 0)
      funds  == Larger(available[Account(r)], 0) + res[r].micros
  IN Lowered(Lowered(Lowered(funds, p.daily, DailySettled(k), others),
                     p.weekly, WeeklySettled(k), others),
             p.lifetime, keySettled[k], others)

\* n is m, lowered to what remains of a budget b or to zero.
IsLowered(n, m, b, s, o) ==
  n \in Nat /\ \A x \in Nat : x <= n <=> x <= m /\ (x = 0 \/ (b # NoLimit => s + o + x <= b))

\* Lowering an amount to what remains of one budget.
LEMMA LoweredBy ==
  ASSUME NEW m \in Nat, NEW b \in Budgets, NEW s \in Nat, NEW o \in Nat
  PROVE  IsLowered(Lowered(m, b, s, o), m, b, s, o)
<1> USE DEF IsLowered
<1>1. CASE b = NoLimit
  BY <1>1 DEF Lowered
<1>2. CASE b # NoLimit
  <2>1. b \in Nat
    BY <1>2 DEF Budgets
  <2>2. Lowered(m, b, s, o) = IF m <= (IF b - s - o >= 0 THEN b - s - o ELSE 0) THEN m
                              ELSE (IF b - s - o >= 0 THEN b - s - o ELSE 0)
    BY <1>2 DEF Lowered, Smaller, Larger
  <2> QED
    BY <1>2, <2>1, <2>2
<1> QED
  BY <1>1, <1>2

\* Chargeable amounts are the ones up to that maximum.
LEMMA ChargeableUpTo ==
  ASSUME TypeOK, NEW r \in Reservations
  PROVE  /\ MaximumCharge(r) \in Nat
         /\ \A x \in Nat : Chargeable(r, x) <=> x <= MaximumCharge(r)
<1> DEFINE k == KeyOf[r]
           p == policy[k]
           o == Larger(keyReserved[k] - res[r].micros, 0)
           m == Larger(available[Account(r)], 0) + res[r].micros
           d == DailySettled(k)
           w == WeeklySettled(k)
           l == keySettled[k]
           m1 == Lowered(m, p.daily, d, o)
           m2 == Lowered(m1, p.weekly, w, o)
           m3 == Lowered(m2, p.lifetime, l, o)
<1>1. k \in Keys /\ Account(r) \in Accounts
  BY KeysAssumption DEF Account
<1>2. p.daily \in Budgets /\ p.weekly \in Budgets /\ p.lifetime \in Budgets
  BY <1>1, PolicyAssumption DEF TypeOK, PolicyType
<1>3. o \in Nat /\ m \in Nat
  <2>1. keyReserved[k] \in Int /\ available[Account(r)] \in Int /\ res[r].micros \in Nat
    BY <1>1 DEF TypeOK, ReservationType
  <2> QED
    BY <2>1 DEF Larger
<1>4. d \in Nat /\ w \in Nat /\ l \in Nat
  BY <1>1, SettledFigures
<1>5. MaximumCharge(r) = m3
  BY DEF MaximumCharge
<1>6. \A x : Chargeable(r, x) <=> x <= m /\ (x = 0 \/ (/\ p.daily # NoLimit => d + o + x <= p.daily
                                                       /\ p.weekly # NoLimit => w + o + x <= p.weekly
                                                       /\ p.lifetime # NoLimit => l + o + x <= p.lifetime))
  BY DEF Chargeable, FitsBudgets
<1> DEFINE P == p.daily
           Q == p.weekly
           R == p.lifetime
<1> HIDE DEF k, p, o, m, d, w, l
<1>7. IsLowered(m1, m, P, d, o)
  BY <1>2, <1>3, <1>4, LoweredBy
<1>8. IsLowered(m2, m1, Q, w, o)
  <2>1. m1 \in Nat
    BY <1>7 DEF IsLowered
  <2> HIDE DEF m1
  <2> QED
    BY <1>2, <1>3, <1>4, <2>1, LoweredBy
<1>9. IsLowered(m3, m2, R, l, o)
  <2>1. m2 \in Nat
    BY <1>8 DEF IsLowered
  <2> HIDE DEF m2
  <2> QED
    BY <1>2, <1>3, <1>4, <2>1, LoweredBy
<1> HIDE DEF m1, m2, m3
<1>10. ASSUME NEW x \in Nat PROVE Chargeable(r, x) <=> x <= m3
  BY <1>6, <1>7, <1>8, <1>9 DEF IsLowered
<1>11. m3 \in Nat
  BY <1>9 DEF IsLowered
<1> QED
  BY <1>5, <1>10, <1>11

\* A settlement has one charge, the smaller of the calculated price and the
\* maximum, whatever an operator has done to the key's budgets meanwhile.
ChargeIsDetermined ==
  \A r \in Reservations, calculated \in Charges : \A x \in 0 .. calculated :
    IsCharge(r, calculated, x) <=> x = Smaller(calculated, MaximumCharge(r))

\* So the choice of a largest chargeable amount in SettlePrepaid is the number
\* that settle_token_usage_with_explicit_charge computes, and there always is
\* one: no settlement is refused for its price.
THEOREM OneCharge ==
  /\ Spec => []ChargeIsDetermined
  /\ EntitlementSpec => []ChargeIsDetermined
<1>1. TypeOK => ChargeIsDetermined
  <2> SUFFICES ASSUME TypeOK, NEW r \in Reservations, NEW calculated \in Charges,
                      NEW x \in 0 .. calculated
               PROVE  IsCharge(r, calculated, x) <=> x = Smaller(calculated, MaximumCharge(r))
    BY DEF ChargeIsDetermined
  <2> DEFINE m == MaximumCharge(r)
  <2>1. calculated \in Nat /\ x \in Nat /\ x <= calculated
    BY AmountAssumption
  <2>2. m \in Nat /\ \A y \in Nat : Chargeable(r, y) <=> y <= m
    BY ChargeableUpTo
  <2> HIDE DEF m
  <2>3. IsCharge(r, calculated, x) <=> x <= m /\ \A y \in (x + 1) .. calculated : ~(y <= m)
    BY <2>1, <2>2 DEF IsCharge
  <2>4. x <= m /\ (\A y \in (x + 1) .. calculated : ~(y <= m)) <=> x = Smaller(calculated, m)
    <3>1. ASSUME x <= m, \A y \in (x + 1) .. calculated : ~(y <= m)
          PROVE  x = Smaller(calculated, m)
      <4>1. x < calculated => ~(x + 1 <= m)
        BY <2>1, <3>1
      <4> QED
        BY <2>1, <2>2, <3>1, <4>1 DEF Smaller
    <3>2. ASSUME x = Smaller(calculated, m)
          PROVE  x <= m /\ \A y \in (x + 1) .. calculated : ~(y <= m)
      BY <2>1, <2>2, <3>2 DEF Smaller
    <3> QED
      BY <3>1, <3>2
  <2> QED
    BY <2>3, <2>4 DEF m
<1>2. Spec => []TypeOK
  BY TypeCorrect
<1>3. EntitlementSpec => []TypeOK
  <2>1. Funded => TypeOK
    BY DEF Funded, EntitlementTypes
  <2> QED
    BY <2>1, AlwaysFunded, PTL
<1>4. Spec => []ChargeIsDetermined
  BY <1>1, <1>2, PTL
<1>5. EntitlementSpec => []ChargeIsDetermined
  BY <1>1, <1>3, PTL
<1> QED
  BY <1>4, <1>5

-----------------------------------------------------------------------------
\* The cycles a settlement draws on.

\* The order of the cycles, by end and by number, is total.
LEMMA DrawnInOrder ==
  ASSUME TypeOK
  PROVE  /\ \A c \in Cycles : ~DrawnBefore(c, c)
         /\ \A c, d \in Cycles : c = d \/ DrawnBefore(c, d) \/ DrawnBefore(d, c)
         /\ \A c, d \in Cycles : ~(DrawnBefore(c, d) /\ DrawnBefore(d, c))
         /\ \A c, d, e \in Cycles : DrawnBefore(c, d) /\ DrawnBefore(d, e) => DrawnBefore(c, e)
<1>1. \A c \in Cycles : cycle[c].end \in Nat /\ c \in Int
  BY KeysAssumption DEF TypeOK, CycleType
<1> QED
  BY <1>1 DEF DrawnBefore

\* So among finitely many there is one that is drawn last.
LEMMA LastDrawn ==
  ASSUME TypeOK, NEW S \in SUBSET Cycles, S # {}
  PROVE  \E m \in S : \A c \in S \ {m} : DrawnBefore(c, m)
<1> DEFINE Last(s, m) == \A c \in s \ {m} : DrawnBefore(c, m)
           B == {s \in SUBSET Cycles : s # {} /\ ~\E m \in s : Last(s, m)}
<1>1. ASSUME B # {} PROVE FALSE
  <2>1. PICK T \in B : \A t \in B : ~(t \subseteq T /\ t # T)
    <3>1. B \in SUBSET SUBSET Cycles
      OBVIOUS
    <3> HIDE DEF B
    <3> QED
      BY <1>1, <3>1, Smallest, FiniteAssumption
  <2>2. PICK x \in T : TRUE
    OBVIOUS
  <2>3. T \in SUBSET Cycles /\ x \in Cycles
    OBVIOUS
  <2>4. CASE T = {x}
    <3>1. Last(T, x)
      BY <2>4
    <3> QED
      BY <2>2, <3>1
  <2>5. CASE T # {x}
    <3>1. T \ {x} # {} /\ T \ {x} \in SUBSET Cycles /\ T \ {x} \notin B
      BY <2>1, <2>2, <2>3, <2>5
    <3>2. PICK y \in T \ {x} : Last(T \ {x}, y)
      BY <3>1
    <3>3. y \in Cycles /\ y # x /\ \A c \in T \ {x, y} : DrawnBefore(c, y)
      BY <2>3, <3>2
    <3>4. CASE DrawnBefore(x, y)
      <4>1. Last(T, y)
        BY <3>3, <3>4
      <4> QED
        BY <3>2, <4>1
    <3>5. CASE DrawnBefore(y, x)
      <4>1. Last(T, x)
        <5> SUFFICES ASSUME NEW c \in T \ {x} PROVE DrawnBefore(c, x)
          OBVIOUS
        <5>1. c = y \/ DrawnBefore(c, y)
          BY <3>3
        <5> QED
          BY <2>3, <3>3, <3>5, <5>1, DrawnInOrder
      <4> QED
        BY <2>2, <4>1
    <3> QED
      BY <2>3, <3>3, <3>4, <3>5, DrawnInOrder
  <2> QED
    BY <2>4, <2>5
<1> QED
  BY <1>1

\* Amounts below others that add up to the same are the same.
LEMMA SumIsFull ==
  ASSUME NEW S, IsFiniteSet(S), NEW f, NEW g,
         \A x \in S : f[x] \in Nat /\ g[x] \in Nat /\ f[x] <= g[x],
         SumFunctionOnSet(f, S) = SumFunctionOnSet(g, S)
  PROVE  \A x \in S : f[x] = g[x]
<1> DEFINE d == [x \in S |-> g[x] - f[x]]
<1>1. \A x \in S : d[x] \in Nat /\ g[x] = f[x] + d[x] /\ f[x] \in Int /\ d[x] \in Int
  OBVIOUS
<1> HIDE DEF d
<1>2. /\ SumFunctionOnSet(f, S) \in Int /\ SumFunctionOnSet(d, S) \in Int
      /\ SumFunctionOnSet(g, S) = SumFunctionOnSet(f, S) + SumFunctionOnSet(d, S)
  BY <1>1, SumAdds
<1>3. SumFunctionOnSet(d, S) = 0
  BY <1>2
<1>4. \A x \in S : d[x] <= SumFunctionOnSet(d, S)
  BY <1>1, SumOfNats
<1>5. \A x \in S : d[x] = 0
  BY <1>1, <1>3, <1>4
<1> QED
  BY <1>1, <1>5

\* What cycles have left, and a greedy draw of n on the cycles S.
Left == [c \in Cycles |-> Remaining(c)]
Draws(S, n, give) ==
  /\ give \in [S -> 0 .. n]
  /\ \A c \in S : give[c] <= Left[c]
  /\ \A c, d \in S : DrawnBefore(c, d) /\ give[d] > 0 => give[c] = Left[c]
  /\ SumFunctionOnSet(give, S) = Smaller(n, SumFunctionOnSet(Left, S))

\* One cycle more, drawn last, gives what the others have left over.
LEMMA DrawsMore ==
  ASSUME TypeOK, NEW T \in SUBSET Cycles, \A c \in T : Left[c] \in Nat, NEW n \in Nat,
         NEW m \in T, \A c \in T \ {m} : DrawnBefore(c, m),
         NEW give, Draws(T \ {m}, n, give)
  PROVE  \E more : Draws(T, n, more)
<1> DEFINE U == T \ {m}
           f == Left
           R == SumFunctionOnSet(f, U)
           g == SumFunctionOnSet(give, U)
           v == f[m]
           last == Smaller(n - g, v)
           more == [c \in T |-> IF c = m THEN last ELSE give[c]]
<1>1. IsFiniteSet(T) /\ IsFiniteSet(U)
  BY FiniteAssumption, FS_Subset
<1>2. /\ give \in [U -> 0 .. n] /\ g = Smaller(n, R)
      /\ \A c \in U : give[c] \in Nat /\ give[c] <= f[c] /\ f[c] \in Nat
      /\ \A c, d \in U : DrawnBefore(c, d) /\ give[d] > 0 => give[c] = f[c]
  BY DEF Draws
<1>3. v \in Nat /\ \A c \in T : f[c] \in Int
  OBVIOUS
<1>4. R \in Nat
  <2> HIDE DEF U, f
  <2> QED
    BY <1>1, <1>2, SumOfNats
<1>5. SumFunctionOnSet(f, T) = v + R
  <2> HIDE DEF f
  <2> QED
    BY <1>1, <1>3, SumOfOthers
<1> HIDE DEF R, g, v, f
<1>6. g \in Nat /\ g <= n /\ last \in Nat /\ last <= v /\ last <= n
  BY <1>2, <1>3, <1>4 DEF Smaller
<1>7. last > 0 => g = R
  BY <1>2, <1>3, <1>4 DEF Smaller
<1>8. g + last = Smaller(n, v + R)
  BY <1>2, <1>3, <1>4 DEF Smaller
<1>9. last > 0 => \A c \in U : give[c] = f[c]
  <2> HIDE DEF last, U
  <2>1. g = R => \A c \in U : give[c] = f[c]
    BY <1>1, <1>2, SumIsFull DEF g, R
  <2> QED
    BY <1>7, <2>1
<1> HIDE DEF last
<1>10. /\ more \in [T -> 0 .. n] /\ more[m] = last /\ \A c \in U : more[c] = give[c]
  <2>1. last \in 0 .. n
    BY <1>6
  <2> QED
    BY <1>2, <2>1
<1>11. \A c \in T : more[c] <= f[c]
  BY <1>2, <1>6, <1>10 DEF v
<1> HIDE DEF more
<1>12. SumFunctionOnSet(more, T) = last + g
  <2>1. \A c \in T : more[c] \in Int
    BY <1>10
  <2>2. SumFunctionOnSet(more, T) = more[m] + SumFunctionOnSet(more, U)
    BY <1>1, <2>1, SumOfOthers
  <2>3. SumFunctionOnSet(more, U) = SumFunctionOnSet(give, U)
    <3> HIDE DEF U
    <3> QED
      BY <1>1, <1>10, SumOfSame
  <2> QED
    BY <1>10, <2>2, <2>3 DEF g
<1>13. ASSUME NEW c \in T, NEW d \in T, DrawnBefore(c, d), more[d] > 0 PROVE more[c] = f[c]
  <2>1. c # d /\ ~DrawnBefore(d, c)
    BY <1>13, DrawnInOrder
  <2>2. c # m
    BY <1>13, <2>1
  <2>3. c \in U /\ more[c] = give[c]
    BY <1>10, <2>2
  <2>4. CASE d = m
    BY <1>9, <1>10, <1>13, <2>3, <2>4
  <2>5. CASE d # m
    BY <1>2, <1>10, <1>13, <2>3, <2>5
  <2> QED
    BY <2>4, <2>5
<1>14. SumFunctionOnSet(more, T) = Smaller(n, SumFunctionOnSet(f, T))
  BY <1>5, <1>6, <1>8, <1>12
<1>15. Draws(T, n, more)
  BY <1>10, <1>11, <1>13, <1>14 DEF Draws, f
<1> QED
  BY <1>15

\* A greedy draw exists on any cycles.
LEMMA DrawExists ==
  ASSUME TypeOK, NEW S \in SUBSET Cycles, \A c \in S : Left[c] \in Nat, NEW n \in Nat
  PROVE  \E give : Draws(S, n, give)
<1> DEFINE B == {s \in SUBSET S : ~\E give : Draws(s, n, give)}
<1>1. ASSUME B # {} PROVE FALSE
  <2>1. PICK T \in B : \A t \in B : ~(t \subseteq T /\ t # T)
    <3>1. B \in SUBSET SUBSET S /\ IsFiniteSet(S)
      BY FiniteAssumption, FS_Subset
    <3> HIDE DEF B
    <3> QED
      BY <1>1, <3>1, Smallest
  <2>2. T \in SUBSET Cycles /\ \A c \in T : Left[c] \in Nat
    OBVIOUS
  <2>3. CASE T = {}
    <3> DEFINE none == [c \in {} |-> 0]
    <3>1. SumFunctionOnSet(none, {}) = 0 /\ SumFunctionOnSet(Left, {}) = 0
      BY FS_EmptySet, SumStep
    <3>2. none \in [{} -> 0 .. n]
      OBVIOUS
    <3> HIDE DEF none
    <3>3. Draws({}, n, none)
      BY <3>1, <3>2 DEF Draws, Smaller
    <3> QED
      BY <2>3, <3>3
  <2>4. CASE T # {}
    <3>1. PICK m \in T : \A c \in T \ {m} : DrawnBefore(c, m)
      BY <2>2, <2>4, LastDrawn
    <3>2. T \ {m} \notin B /\ T \ {m} \in SUBSET S
      BY <2>1, <3>1
    <3>3. PICK give : Draws(T \ {m}, n, give)
      BY <3>2
    <3>4. \E more : Draws(T, n, more)
      BY <2>2, <3>1, <3>3, DrawsMore
    <3> QED
      BY <3>4
  <2> QED
    BY <2>3, <2>4
<1> QED
  BY <1>1

\* Everything that SettlePrepaid asks for can be found: the hold is in the
\* key's total, some amount is the charge, and the live cycles of the account
\* can be drawn on in their order for it.
SettlementIsPossible ==
  \A r \in Reservations : Active(r) /\ Prepaid(r) =>
    /\ keyReserved[KeyOf[r]] >= res[r].micros
    /\ \A calculated \in Charges : \E actual \in 0 .. calculated :
         /\ IsCharge(r, calculated, actual)
         /\ \E give \in [LiveCycles(Account(r)) -> 0 .. actual] :
              IsAllocation(Account(r), actual, give)

\* An active reservation can be settled at every moment and for every price:
\* no interleaving of requests, cleanups, policy edits, subscription events and
\* rebates leaves a state in which settle_token_usage_with_explicit_charge
\* fails on its own figures and the reservation stays active for ever.
THEOREM SettlementAlwaysPossible ==
  /\ Spec => []SettlementIsPossible
  /\ EntitlementSpec => []SettlementIsPossible
<1>1. TypeOK /\ HoldsAreCovered /\ ChargeIsDetermined => SettlementIsPossible
  <2> SUFFICES ASSUME TypeOK, HoldsAreCovered, ChargeIsDetermined,
                      NEW r \in Reservations, Active(r), Prepaid(r)
               PROVE  /\ keyReserved[KeyOf[r]] >= res[r].micros
                      /\ \A calculated \in Charges : \E actual \in 0 .. calculated :
                           /\ IsCharge(r, calculated, actual)
                           /\ \E give \in [LiveCycles(Account(r)) -> 0 .. actual] :
                                IsAllocation(Account(r), actual, give)
    BY DEF SettlementIsPossible
  <2>1. keyReserved[KeyOf[r]] >= res[r].micros
    <3>1. res[r].micros <= keyReserved[KeyOf[r]]
      BY DEF HoldsAreCovered
    <3>2. KeyOf[r] \in Keys
      BY KeysAssumption
    <3>3. res[r].micros \in Int /\ keyReserved[KeyOf[r]] \in Int
      BY <3>2 DEF TypeOK, ReservationType
    <3> QED
      BY <3>1, <3>3
  <2>2. ASSUME NEW calculated \in Charges
        PROVE  \E actual \in 0 .. calculated :
                 /\ IsCharge(r, calculated, actual)
                 /\ \E give \in [LiveCycles(Account(r)) -> 0 .. actual] :
                      IsAllocation(Account(r), actual, give)
    <3> DEFINE actual == Smaller(calculated, MaximumCharge(r))
               live == LiveCycles(Account(r))
    <3>1. calculated \in Nat /\ MaximumCharge(r) \in Nat
      BY AmountAssumption, ChargeableUpTo
    <3>2. actual \in 0 .. calculated /\ actual \in Nat
      BY <3>1 DEF Smaller
    <3>3. IsCharge(r, calculated, actual)
      BY <3>2 DEF ChargeIsDetermined
    <3>4. live \in SUBSET Cycles /\ \A c \in live : Left[c] \in Nat
      <4>1. live \in SUBSET Cycles /\ \A c \in live : Remaining(c) > 0
        BY DEF LiveCycles
      <4>2. \A c \in Cycles : Remaining(c) \in Int
        BY DEF Remaining, TypeOK, CycleType
      <4> QED
        BY <4>1, <4>2 DEF Left
    <3> HIDE DEF actual, live
    <3>5. PICK give : Draws(live, actual, give)
      BY <3>2, <3>4, DrawExists
    <3>6. give \in [live -> 0 .. actual]
      BY <3>5 DEF Draws
    <3>7. IsAllocation(Account(r), actual, give)
      <4>1. \A c \in live : Left[c] = Remaining(c)
        BY <3>4 DEF Left
      <4>2. SumFunctionOnSet(give, live)
              = Smaller(actual, SumFunctionOnSet([c \in Cycles |-> Remaining(c)], live))
        BY <3>5 DEF Draws, Left
      <4>3. /\ \A c \in live : give[c] <= Remaining(c)
            /\ \A c, d \in live : DrawnBefore(c, d) /\ give[d] > 0 => give[c] = Remaining(c)
        BY <3>5, <4>1 DEF Draws
      <4> QED
        BY <4>2, <4>3 DEF IsAllocation, live
    <3> QED
      BY <3>2, <3>3, <3>6, <3>7 DEF live
  <2> QED
    BY <2>1, <2>2
<1>2. Spec => []TypeOK
  BY TypeCorrect
<1>3. EntitlementSpec => []TypeOK
  <2>1. Funded => TypeOK
    BY DEF Funded, EntitlementTypes
  <2> QED
    BY <2>1, AlwaysFunded, PTL
<1>4. Spec => []SettlementIsPossible
  BY <1>1, <1>2, HoldsNeverMissing, OneCharge, PTL
<1>5. EntitlementSpec => []SettlementIsPossible
  BY <1>1, <1>3, HoldsNeverMissing, OneCharge, PTL
<1> QED
  BY <1>4, <1>5

=============================================================================
