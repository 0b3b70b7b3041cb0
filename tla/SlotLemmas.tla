----------------------------- MODULE SlotLemmas -----------------------------
(***************************************************************************)
(* Arithmetic behind the fixed-size tables of the program, which all       *)
(* address an unbounded number by its remainder: the reorder window        *)
(* (seq % kReorderWindow) and the ring of the SPSC queue (pos & kMask).    *)
(* Then sums of quantities, which the book's levels and the bars keep      *)
(* up to date one order or trade at a time.                                *)
(***************************************************************************)
EXTENDS Integers, SequencesExt, FiniteSetsExt, TLAPS, WellFoundedInduction, FiniteSetTheorems

\* A remainder is an index of the table.
LEMMA ModRange ==
  ASSUME NEW C \in Nat \ {0}, NEW a \in Nat
  PROVE  a % C \in 0 .. (C - 1)
OBVIOUS

\* A number and the one a whole table further share an index.
LEMMA ModWraps ==
  ASSUME NEW C \in Nat \ {0}, NEW a \in Nat
  PROVE  (a + C) % C = a % C
<1> DEFINE q == a \div C
           r == (a + C) \div C
<1>1. a = (C * q) + (a % C) /\ q \in Int /\ a % C \in 0 .. (C - 1)
  OBVIOUS
<1>2. a + C = (C * r) + ((a + C) % C) /\ r \in Int /\ (a + C) % C \in 0 .. (C - 1)
  OBVIOUS
<1> HIDE DEF q, r
<1>3. C * (r - q - 1) = (a % C) - ((a + C) % C)
  BY <1>1, <1>2
<1>4. r - q - 1 >= 1 \/ r - q - 1 <= -1 \/ r = q + 1
  BY <1>1, <1>2
<1>5. CASE r - q - 1 >= 1
  <2>1. C * (r - q - 1) >= C
    BY <1>1, <1>2, <1>5
  <2> QED
    BY <1>1, <1>2, <1>3, <2>1
<1>6. CASE r - q - 1 <= -1
  <2>1. C * (r - q - 1) <= -C
    BY <1>1, <1>2, <1>6
  <2> QED
    BY <1>1, <1>2, <1>3, <2>1
<1>7. CASE r = q + 1
  BY <1>1, <1>2, <1>7
<1> QED
  BY <1>4, <1>5, <1>6, <1>7

\* Two different numbers less than a whole table apart have different indexes.
LEMMA ModDistinct ==
  ASSUME NEW C \in Nat \ {0}, NEW a \in Nat, NEW b \in Nat, a < b, b < a + C
  PROVE  a % C # b % C
<1> DEFINE q == a \div C
           r == b \div C
<1>1. a = (C * q) + (a % C) /\ q \in Int /\ a % C \in 0 .. (C - 1)
  OBVIOUS
<1>2. b = (C * r) + (b % C) /\ r \in Int /\ b % C \in 0 .. (C - 1)
  OBVIOUS
<1> HIDE DEF q, r
<1>3. SUFFICES ASSUME a % C = b % C PROVE FALSE
  OBVIOUS
<1>4. b - a = C * (r - q)
  BY <1>1, <1>2, <1>3
<1>5. CASE r - q >= 1
  <2>1. C * (r - q) >= C
    BY <1>1, <1>2, <1>5
  <2> QED
    BY <1>4, <2>1
<1>6. CASE r - q <= 0
  <2>1. C * (r - q) <= 0
    BY <1>1, <1>2, <1>6
  <2> QED
    BY <1>4, <2>1
<1> QED
  BY <1>1, <1>2, <1>5, <1>6

\* A loop that counts up until a condition fails stops at a first such number.
LEMMA LeastNumber ==
  ASSUME NEW S \in SUBSET Nat, S # {}
  PROVE  \E x \in S : \A y \in S : x <= y
<1> DEFINE R == {ss \in Nat \X Nat : ss[1] < ss[2]}
<1>1. IsWellFoundedOn(R, Nat)
  BY NatLessThanWellFounded, Zenon DEF OpToRel
<1>2. \A x, y \in Nat : x < y => <<x, y>> \in R
  OBVIOUS
<1> HIDE DEF R
<1>3. PICK x \in S : \A y \in S : ~(<<y, x>> \in R)
  BY <1>1, WFMin, Zenon
<1>4. ASSUME NEW y \in S PROVE x <= y
  <2>1. x \in Nat /\ y \in Nat
    OBVIOUS
  <2>2. ~(y < x)
    BY <1>2, <1>3, <2>1, Zenon
  <2> QED
    BY <2>1, <2>2
<1> QED
  BY <1>4

-----------------------------------------------------------------------------
(***************************************************************************)
(* Sums.  The library sums over a set by a recursive function on its       *)
(* subsets: its equation is proved first (SumsExist, QtySumIsSum), then    *)
(* that any element may be taken out of the sum (SumOfAny).  The           *)
(* inductions on the size of a set look at a smallest counterexample       *)
(* (SmallestSet).                                                          *)
(***************************************************************************)
Some(S) == CHOOSE x \in S : TRUE

SumOn(D, o, g) ==
  \A S \in D : g[S] = IF S = {} THEN 0 ELSE o[Some(S)].qty + g[S \ {Some(S)}]

QtySum(o, S) == MapThenSumSet(LAMBDA id : o[id].qty, S)

LEMMA RemoveSome ==
  ASSUME NEW S, IsFiniteSet(S), NEW x \in S
  PROVE  /\ IsFiniteSet(S \ {x}) /\ Cardinality(S) \in Nat /\ Cardinality(S \ {x}) \in Nat
         /\ Cardinality(S \ {x}) = Cardinality(S) - 1
BY FS_RemoveElement, FS_CardinalityType

LEMMA SomeIsElement == ASSUME NEW S, S # {} PROVE Some(S) \in S
BY DEF Some

\* A smallest counterexample, by the size of the set.
LEMMA SmallestSet ==
  ASSUME NEW S, IsFiniteSet(S), NEW Bad \in SUBSET (SUBSET S), Bad # {}
  PROVE  \E B \in Bad : \A C \in SUBSET S : Cardinality(C) < Cardinality(B) => C \notin Bad
<1>1. \A B \in SUBSET S : IsFiniteSet(B) /\ Cardinality(B) \in Nat
  BY FS_Subset, FS_CardinalityType
<1> DEFINE Sizes == {Cardinality(B) : B \in Bad}
<1>2. Sizes \in SUBSET Nat /\ Sizes # {}
  BY <1>1
<1>3. PICK n \in Sizes : \A m \in Sizes : n <= m
  BY <1>2, LeastNumber
<1>4. PICK B \in Bad : Cardinality(B) = n
  BY <1>3
<1>5. ASSUME NEW C \in SUBSET S, Cardinality(C) < Cardinality(B), C \in Bad PROVE FALSE
  BY <1>1, <1>2, <1>3, <1>4, <1>5
<1> QED
  BY <1>5

\* The sums exist, for sets of every size.
LEMMA SumsExist ==
  ASSUME NEW o, NEW S, IsFiniteSet(S)
  PROVE  \E g : SumOn(SUBSET S, o, g) /\ DOMAIN g = SUBSET S
<1>1. \A B \in SUBSET S : IsFiniteSet(B) /\ Cardinality(B) \in Nat
  BY FS_Subset, FS_CardinalityType
<1> DEFINE D(n) == {B \in SUBSET S : Cardinality(B) <= n}
           Fail == {n \in Nat : ~ \E g : SumOn(D(n), o, g)}
<1>2. Fail = {}
  <2> SUFFICES ASSUME Fail # {} PROVE FALSE
    OBVIOUS
  <2>1. PICK n \in Fail : \A m \in Fail : n <= m
    BY LeastNumber
  <2>2. \A B \in SUBSET S : B # {} =>
          /\ Some(B) \in B /\ B \ {Some(B)} \in SUBSET S
          /\ Cardinality(B \ {Some(B)}) = Cardinality(B) - 1
    BY <1>1, SomeIsElement, RemoveSome
  <2>3. PICK f : \A B \in D(n) : B # {} => B \ {Some(B)} \in D(n - 1) /\ SumOn(D(n - 1), o, f)
    <3>1. CASE n = 0
      <4>1. \A B \in D(n) : B = {}
        BY <1>1, <3>1, FS_EmptySet
      <4> QED
        BY <4>1
    <3>2. CASE n # 0
      <4>1. n - 1 \in Nat /\ ~(n <= n - 1)
        BY <3>2
      <4>2. PICK f : SumOn(D(n - 1), o, f)
        BY <2>1, <4>1
      <4>3. \A B \in D(n) : B # {} => B \ {Some(B)} \in D(n - 1)
        BY <1>1, <2>1, <2>2
      <4> QED
        BY <4>2, <4>3
    <3> QED
      BY <3>1, <3>2
  <2> DEFINE g == [B \in D(n) |-> IF B = {} THEN 0 ELSE o[Some(B)].qty + f[B \ {Some(B)}]]
  <2>4. ASSUME NEW B \in D(n), B # {} PROVE g[B \ {Some(B)}] = f[B \ {Some(B)}]
    <3> DEFINE C == B \ {Some(B)}
    <3>1. C \in D(n - 1) /\ SumOn(D(n - 1), o, f)
      BY <2>3, <2>4
    <3>2. C \in D(n)
      BY <1>1, <2>1, <3>1
    <3>3. f[C] = IF C = {} THEN 0 ELSE o[Some(C)].qty + f[C \ {Some(C)}]
      BY <3>1 DEF SumOn
    <3> QED
      BY <3>2, <3>3
  <2>5. \A B \in D(n) : g[B] = IF B = {} THEN 0 ELSE o[Some(B)].qty + f[B \ {Some(B)}]
    OBVIOUS
  <2> HIDE DEF g
  <2>6. SumOn(D(n), o, g)
    BY <2>4, <2>5 DEF SumOn
  <2> QED
    BY <2>1, <2>6
<1>3. Cardinality(S) \in Nat /\ D(Cardinality(S)) = SUBSET S
  <2>1. \A B \in SUBSET S : Cardinality(B) <= Cardinality(S)
    BY FS_Subset
  <2> QED
    BY <1>1, <2>1
<1>4. PICK f : SumOn(SUBSET S, o, f)
  BY <1>2, <1>3
<1> DEFINE g == [B \in SUBSET S |-> f[B]]
<1>5. SumOn(SUBSET S, o, g) /\ DOMAIN g = SUBSET S
  BY <1>4 DEF SumOn
<1> HIDE DEF g
<1> QED
  BY <1>5

\* The sum of the library is such a function.
LEMMA QtySumIsSum ==
  ASSUME NEW o, NEW S, IsFiniteSet(S)
  PROVE  \E g : SumOn(SUBSET S, o, g) /\ QtySum(o, S) = g[S]
<1> DEFINE Eq(g) == g = [B \in SUBSET S |-> IF B = {} THEN 0 ELSE o[CHOOSE x \in B : TRUE].qty
                                                          + g[B \ {CHOOSE x \in B : TRUE}]]
           iter == CHOOSE g : Eq(g)
<1>1. QtySum(o, S) = iter[S]
  BY DEF QtySum, MapThenSumSet, MapThenFoldSet
<1>2. PICK f : SumOn(SUBSET S, o, f) /\ DOMAIN f = SUBSET S
  BY SumsExist
<1> DEFINE h == [B \in SUBSET S |-> f[B]]
<1>3. Eq(h)
  BY <1>2 DEF SumOn, Some
<1>4. Eq(iter)
  BY <1>3
<1> HIDE DEF iter
<1>5. SumOn(SUBSET S, o, iter)
  BY <1>4 DEF SumOn, Some
<1> QED
  BY <1>1, <1>5

LEMMA SumsAreNumbers ==
  ASSUME NEW o, NEW S, IsFiniteSet(S), NEW g, SumOn(SUBSET S, o, g), \A x \in S : o[x].qty \in Nat
  PROVE  \A B \in SUBSET S : g[B] \in Nat
<1> DEFINE Bad == {B \in SUBSET S : g[B] \notin Nat}
<1> SUFFICES ASSUME Bad # {} PROVE FALSE
  OBVIOUS
<1>1. PICK B \in Bad : \A C \in SUBSET S : Cardinality(C) < Cardinality(B) => C \notin Bad
  BY SmallestSet
<1>2. g[B] = IF B = {} THEN 0 ELSE o[Some(B)].qty + g[B \ {Some(B)}]
  BY DEF SumOn
<1>3. B # {} /\ Some(B) \in B /\ IsFiniteSet(B)
  BY <1>2, SomeIsElement, FS_Subset
<1>4. Cardinality(B \ {Some(B)}) < Cardinality(B)
  BY <1>3, RemoveSome
<1>5. g[B \ {Some(B)}] \in Nat
  BY <1>1, <1>4
<1> QED
  BY <1>2, <1>3, <1>5

\* A function that sums over every subset of T sums over every subset of S.
LEMMA SumOnLess ==
  ASSUME NEW o, NEW S, NEW T, S \subseteq T, NEW g, SumOn(SUBSET T, o, g)
  PROVE  SumOn(SUBSET S, o, g)
<1>1. \A B \in SUBSET S : B \in SUBSET T
  OBVIOUS
<1> QED
  BY <1>1 DEF SumOn

LEMMA SmallerSubset ==
  ASSUME NEW S, IsFiniteSet(S), NEW B \in SUBSET S, NEW x \in B
  PROVE  B \ {x} \in SUBSET S /\ Cardinality(B \ {x}) < Cardinality(B)
<1>1. IsFiniteSet(B)
  BY FS_Subset
<1>2. /\ Cardinality(B) \in Nat /\ Cardinality(B \ {x}) \in Nat
      /\ Cardinality(B \ {x}) = Cardinality(B) - 1
  BY <1>1, RemoveSome
<1>3. Cardinality(B \ {x}) < Cardinality(B)
  BY <1>2
<1> QED
  BY <1>3

\* Equal quantities have equal sums, whatever the functions are defined on.
LEMMA SumsAgree ==
  ASSUME NEW o, NEW q, NEW S, IsFiniteSet(S),
         NEW g, SumOn(SUBSET S, o, g), NEW h, SumOn(SUBSET S, q, h),
         \A x \in S : o[x].qty = q[x].qty
  PROVE  g[S] = h[S]
<1> DEFINE Bad == {B \in SUBSET S : g[B] # h[B]}
<1>1. Bad \in SUBSET (SUBSET S)
  OBVIOUS
<1>2. \A B \in SUBSET S : B \in Bad <=> g[B] # h[B]
  OBVIOUS
<1> HIDE DEF Bad
<1> SUFFICES ASSUME Bad # {} PROVE FALSE
  BY <1>2
<1>3. \E B \in Bad : \A C \in SUBSET S : Cardinality(C) < Cardinality(B) => C \notin Bad
  BY <1>1, SmallestSet
<1>4. PICK B \in SUBSET S : /\ B \in Bad
                            /\ \A C \in SUBSET S : Cardinality(C) < Cardinality(B) => C \notin Bad
  BY <1>1, <1>3
<1>5. g[B] = IF B = {} THEN 0 ELSE o[Some(B)].qty + g[B \ {Some(B)}]
  BY DEF SumOn
<1>6. h[B] = IF B = {} THEN 0 ELSE q[Some(B)].qty + h[B \ {Some(B)}]
  BY DEF SumOn
<1>7. B # {} /\ g[B] # h[B]
  BY <1>2, <1>4, <1>5, <1>6
<1>8. Some(B) \in B
  BY <1>7, SomeIsElement
<1>9. B \ {Some(B)} \in SUBSET S /\ Cardinality(B \ {Some(B)}) < Cardinality(B)
  BY <1>8, SmallerSubset
<1>10. g[B \ {Some(B)}] = h[B \ {Some(B)}]
  BY <1>2, <1>4, <1>9
<1>11. o[Some(B)].qty = q[Some(B)].qty
  BY <1>8
<1> QED
  BY <1>5, <1>6, <1>7, <1>10, <1>11

\* Any element may be added last.
LEMMA SumOfAny ==
  ASSUME NEW o, NEW S, IsFiniteSet(S), NEW g, SumOn(SUBSET S, o, g), \A x \in S : o[x].qty \in Nat,
         NEW y \in S
  PROVE  g[S] = o[y].qty + g[S \ {y}]
<1> DEFINE Bad == {B \in SUBSET S : \E x \in B : g[B] # o[x].qty + g[B \ {x}]}
<1>1. Bad \in SUBSET (SUBSET S)
  OBVIOUS
<1>2. \A B \in SUBSET S : B \in Bad <=> \E x \in B : g[B] # o[x].qty + g[B \ {x}]
  OBVIOUS
<1> HIDE DEF Bad
<1> SUFFICES ASSUME Bad # {} PROVE FALSE
  BY <1>2
<1>3. \E B \in Bad : \A C \in SUBSET S : Cardinality(C) < Cardinality(B) => C \notin Bad
  BY <1>1, SmallestSet
<1>4. PICK B \in SUBSET S : /\ B \in Bad
                            /\ \A C \in SUBSET S : Cardinality(C) < Cardinality(B) => C \notin Bad
  BY <1>1, <1>3
<1>5. PICK x \in B : g[B] # o[x].qty + g[B \ {x}]
  BY <1>2, <1>4
<1>6. PICK c \in B : c = Some(B)
  BY <1>5, SomeIsElement
<1>7. g[B] = o[c].qty + g[B \ {c}]
  BY <1>5, <1>6 DEF SumOn
<1>8. x # c
  BY <1>5, <1>7
<1>9. /\ B \ {c} \in SUBSET S /\ Cardinality(B \ {c}) < Cardinality(B)
      /\ B \ {x} \in SUBSET S /\ Cardinality(B \ {x}) < Cardinality(B)
  BY SmallerSubset
<1>10. B \ {c} \notin Bad /\ B \ {x} \notin Bad
  BY <1>4, <1>9
<1>11. x \in B \ {c} /\ c \in B \ {x}
  BY <1>8
<1>12. g[B \ {c}] = o[x].qty + g[(B \ {c}) \ {x}]
  BY <1>2, <1>9, <1>10, <1>11
<1>13. g[B \ {x}] = o[c].qty + g[(B \ {x}) \ {c}]
  BY <1>2, <1>9, <1>10, <1>11
<1>14. (B \ {c}) \ {x} = (B \ {x}) \ {c} /\ (B \ {x}) \ {c} \in SUBSET S
  OBVIOUS
<1>15. o[x].qty \in Nat /\ o[c].qty \in Nat
  OBVIOUS
<1>16. g[(B \ {x}) \ {c}] \in Nat
  BY <1>14, SumsAreNumbers
<1> DEFINE n == g[(B \ {x}) \ {c}]   a == o[x].qty   b == o[c].qty
<1>17. g[B] = b + (a + n)
  BY <1>7, <1>12, <1>14
<1>18. g[B] # a + (b + n)
  BY <1>5, <1>13
<1>19. n \in Nat /\ a \in Nat /\ b \in Nat
  BY <1>15, <1>16
<1> HIDE DEF n, a, b
<1>20. b + (a + n) = a + (b + n)
  BY <1>19
<1> QED
  BY <1>17, <1>18, <1>20

LEMMA QtySumEmpty == ASSUME NEW o PROVE QtySum(o, {}) = 0
<1>1. IsFiniteSet({})
  BY FS_EmptySet
<1>2. PICK g : SumOn(SUBSET {}, o, g) /\ QtySum(o, {}) = g[{}]
  BY <1>1, QtySumIsSum
<1> QED
  BY <1>2 DEF SumOn

LEMMA QtySumRemove ==
  ASSUME NEW o, NEW S, IsFiniteSet(S), \A x \in S : o[x].qty \in Nat, NEW y \in S
  PROVE  /\ QtySum(o, S) = o[y].qty + QtySum(o, S \ {y})
         /\ QtySum(o, S \ {y}) \in Nat
<1> DEFINE R == S \ {y}
<1>1. IsFiniteSet(R) /\ R \subseteq S
  BY FS_Subset
<1>2. PICK g : SumOn(SUBSET S, o, g) /\ QtySum(o, S) = g[S]
  BY QtySumIsSum
<1>3. g[S] = o[y].qty + g[R]
  <2>1. SumOn(SUBSET S, o, g)
    BY <1>2
  <2> QED
    BY <2>1, SumOfAny
<1>4. \A B \in SUBSET S : g[B] \in Nat
  BY <1>2, SumsAreNumbers
<1> HIDE DEF R
<1>5. SumOn(SUBSET R, o, g)
  BY <1>1, <1>2, SumOnLess
<1>6. PICK h : SumOn(SUBSET R, o, h) /\ QtySum(o, R) = h[R]
  BY <1>1, QtySumIsSum
<1>7. g[R] = h[R]
  BY <1>1, <1>5, <1>6, SumsAgree
<1>8. g[R] \in Nat
  BY <1>1, <1>4
<1>9. QtySum(o, S) = o[y].qty + QtySum(o, R) /\ QtySum(o, R) \in Nat
  BY <1>2, <1>3, <1>6, <1>7, <1>8
<1> QED
  BY <1>9 DEF R

LEMMA QtySumSame ==
  ASSUME NEW o, NEW q, NEW S, IsFiniteSet(S), \A x \in S : o[x].qty = q[x].qty
  PROVE  QtySum(o, S) = QtySum(q, S)
<1>1. PICK g : SumOn(SUBSET S, o, g) /\ QtySum(o, S) = g[S]
  BY QtySumIsSum
<1>2. PICK h : SumOn(SUBSET S, q, h) /\ QtySum(q, S) = h[S]
  BY QtySumIsSum
<1>3. g[S] = h[S]
  BY <1>1, <1>2, SumsAgree
<1> QED
  BY <1>1, <1>2, <1>3

\* A sum of positive quantities is zero only over the empty set.
LEMMA QtySumPositive ==
  ASSUME NEW o, NEW S, IsFiniteSet(S), \A x \in S : o[x].qty \in Nat \ {0}
  PROVE  QtySum(o, S) \in Nat /\ (QtySum(o, S) = 0 <=> S = {})
<1>1. CASE S = {}
  BY <1>1, QtySumEmpty
<1>2. CASE S # {}
  <2>1. PICK y \in S : TRUE
    BY <1>2
  <2>2. QtySum(o, S) = o[y].qty + QtySum(o, S \ {y}) /\ QtySum(o, S \ {y}) \in Nat
    BY QtySumRemove
  <2> QED
    BY <1>2, <2>2
<1> QED
  BY <1>1, <1>2

-----------------------------------------------------------------------------
(* Sequences put together. *)

\* f joins the first sequences of F.
Joins(F, f, m) == \A n \in 1 .. m : f[n] = IF n = 1 THEN F[n] ELSE f[n - 1] \o F[n]

LEMMA JoinsExist ==
  ASSUME NEW F, NEW m \in Nat
  PROVE  \E f : Joins(F, f, m)
<1> DEFINE Fail == {n \in Nat : ~ \E f : Joins(F, f, n)}
<1> SUFFICES ASSUME Fail # {} PROVE FALSE
  OBVIOUS
<1>1. PICK n \in Fail : \A k \in Fail : n <= k
  BY LeastNumber
<1>2. n # 0
  <2>1. \A f : Joins(F, f, 0)
    BY DEF Joins
  <2> QED
    BY <1>1, <2>1
<1>3. n - 1 \in Nat /\ ~(n <= n - 1) /\ n \in Nat
  BY <1>1, <1>2
<1>4. PICK f : Joins(F, f, n - 1)
  BY <1>1, <1>3
<1> DEFINE top == IF n = 1 THEN F[n] ELSE f[n - 1] \o F[n]
<1> HIDE DEF top
<1> DEFINE g == [i \in 1 .. n |-> IF i < n THEN f[i] ELSE top]
<1>5. (\A i \in 1 .. (n - 1) : g[i] = f[i]) /\ g[n] = top
  BY <1>2, <1>3
<1> HIDE DEF g
<1>6. ASSUME NEW i \in 1 .. n PROVE g[i] = IF i = 1 THEN F[i] ELSE g[i - 1] \o F[i]
  <2>1. CASE i = n
    <3>1. i # 1 => n - 1 \in 1 .. (n - 1)
      BY <1>3, <2>1
    <3>2. i # 1 => g[n - 1] = f[n - 1]
      BY <1>5, <3>1
    <3> QED
      BY <1>5, <2>1, <3>2 DEF top
  <2>2. CASE i # n
    <3>1. i \in 1 .. (n - 1) /\ (i # 1 => i - 1 \in 1 .. (n - 1))
      BY <1>3, <2>2
    <3>2. f[i] = IF i = 1 THEN F[i] ELSE f[i - 1] \o F[i]
      BY <1>4, <3>1 DEF Joins
    <3>3. g[i] = f[i] /\ (i # 1 => g[i - 1] = f[i - 1])
      BY <1>5, <3>1
    <3> QED
      BY <3>2, <3>3
  <2> QED
    BY <2>1, <2>2
<1>7. Joins(F, g, n)
  BY <1>6 DEF Joins
<1> QED
  BY <1>1, <1>7

LEMMA FlattenJoins ==
  ASSUME NEW F, Len(F) \in Nat \ {0}
  PROVE  \E f : Joins(F, f, Len(F)) /\ FlattenSeq(F) = f[Len(F)]
<1> DEFINE Eq(f) == f = [n \in 1 .. Len(F) |-> IF n = 1 THEN F[n] ELSE f[n - 1] \o F[n]]
           of == CHOOSE f : Eq(f)
<1>1. FlattenSeq(F) = of[Len(F)]
  BY DEF FlattenSeq
<1>2. PICK f : Joins(F, f, Len(F))
  BY JoinsExist
<1> DEFINE h == [i \in 1 .. Len(F) |-> f[i]]
<1>3. Eq(h)
  <2>1. \A n \in 1 .. Len(F) : n # 1 => n - 1 \in 1 .. Len(F)
    OBVIOUS
  <2> QED
    BY <1>2, <2>1 DEF Joins
<1>4. Eq(of)
  BY <1>3
<1> HIDE DEF of
<1>5. Joins(F, of, Len(F))
  BY <1>4 DEF Joins
<1> QED
  BY <1>1, <1>5
=============================================================================
