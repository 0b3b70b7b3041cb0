--------------------------- MODULE WireFeedProofs ---------------------------
(***************************************************************************)
(* The receive path on bytes, for every session, every byte base and       *)
(* however recv() cuts the stream.                                         *)
(*                                                                         *)
(* First the codec: store and load of a number, of a struct and of a       *)
(* message, up to parse_message() being the inverse of the encoders.       *)
(* Then the payload of a recovery, frames one after the other, and the     *)
(* invariant WireInv of the receive path, which says what the connection   *)
(* carries and where the loops of try_recover() are in it.  From it follow *)
(* the two invariants of WireFeed and the refinement of RecoveringFeed.    *)
(***************************************************************************)
EXTENDS WireFeed, RecoveringFeedProofs, SlotLemmas, SequenceTheorems, TLAPS

-----------------------------------------------------------------------------
(* Recursive definitions over numbers. *)

Iterates(f, a, G, m) == f \in [0 .. m -> Nat] /\ f[0] = a /\ \A n \in 1 .. m : f[n] = G[n][f[n - 1]]

LEMMA IterationExists ==
  ASSUME NEW a \in Nat, NEW m \in Nat, NEW G, \A n \in 1 .. m : G[n] \in [Nat -> Nat]
  PROVE  \E f : Iterates(f, a, G, m)
<1> DEFINE Fail == {n \in Nat : n <= m /\ ~ \E f : Iterates(f, a, G, n)}
<1>0. m <= m
  OBVIOUS
<1> SUFFICES ASSUME Fail # {} PROVE FALSE
  BY <1>0
<1>1. PICK n \in Fail : \A k \in Fail : n <= k
  BY LeastNumber
<1>2. n # 0
  <2> DEFINE f == [i \in 0 .. 0 |-> a]
  <2>1. f \in [0 .. 0 -> Nat] /\ f[0] = a /\ \A i \in 1 .. 0 : FALSE
    OBVIOUS
  <2> HIDE DEF f
  <2>2. Iterates(f, a, G, 0)
    BY <2>1 DEF Iterates
  <2> QED
    BY <1>1, <2>2
<1>3. n - 1 \in Nat /\ ~(n <= n - 1) /\ n \in Nat /\ n <= m /\ n - 1 <= m /\ n \in 1 .. m
  BY <1>1, <1>2
<1>4. PICK f : Iterates(f, a, G, n - 1)
  BY <1>1, <1>3
<1>5. f \in [0 .. (n - 1) -> Nat] /\ f[0] = a /\ \A i \in 1 .. (n - 1) : f[i] = G[i][f[i - 1]]
  BY <1>4 DEF Iterates
<1> DEFINE top == G[n][f[n - 1]]
<1>6. top \in Nat
  <2>1. n - 1 \in 0 .. (n - 1) /\ G[n] \in [Nat -> Nat]
    BY <1>3
  <2>2. f[n - 1] \in Nat
    BY <1>5, <2>1
  <2> QED
    BY <2>1, <2>2
<1> HIDE DEF top
<1> DEFINE g == [i \in 0 .. n |-> IF i < n THEN f[i] ELSE top]
<1>7. \A i \in 0 .. n : i < n => i \in 0 .. (n - 1)
  BY <1>3
<1>8. /\ g \in [0 .. n -> Nat] /\ g[n] = top /\ \A i \in 0 .. (n - 1) : g[i] = f[i]
  BY <1>3, <1>5, <1>6, <1>7
<1> HIDE DEF g
<1>9. g[0] = a
  BY <1>3, <1>5, <1>8
<1>10. ASSUME NEW i \in 1 .. n PROVE g[i] = G[i][g[i - 1]]
  <2>1. i - 1 \in 0 .. (n - 1)
    BY <1>3
  <2>2. g[i - 1] = f[i - 1]
    BY <1>8, <2>1
  <2>3. CASE i = n
    BY <1>8, <2>2, <2>3 DEF top
  <2>4. CASE i # n
    <3>1. i \in 1 .. (n - 1) /\ i \in 0 .. (n - 1)
      BY <1>3, <2>4
    <3> QED
      BY <1>5, <1>8, <2>2, <3>1
  <2> QED
    BY <2>3, <2>4
<1>11. Iterates(g, a, G, n)
  BY <1>8, <1>9, <1>10 DEF Iterates
<1> QED
  BY <1>1, <1>11

\* A function that takes the steps on numbers, as long as it has numbers.
LEMMA SolutionIterates ==
  ASSUME NEW a \in Nat, NEW m \in Nat, NEW G, \A n \in 1 .. m : G[n] \in [Nat -> Nat],
         NEW g, g = [i \in 0 .. m |-> g[i]], g[0] = a,
         \A i \in 1 .. m : g[i - 1] \in Nat => g[i] = G[i][g[i - 1]]
  PROVE  Iterates(g, a, G, m)
<1> DEFINE Bad == {n \in Nat : n <= m /\ g[n] \notin Nat}
<1>1. Bad = {}
  <2> SUFFICES ASSUME Bad # {} PROVE FALSE
    OBVIOUS
  <2>1. PICK n \in Bad : \A x \in Bad : n <= x
    BY LeastNumber
  <2>2. n # 0
    BY <2>1
  <2>3. n \in 1 .. m /\ n - 1 \in Nat /\ n - 1 <= m /\ ~(n <= n - 1)
    BY <2>1, <2>2
  <2>4. g[n - 1] \in Nat
    BY <2>1, <2>3
  <2>5. g[n] = G[n][g[n - 1]] /\ G[n] \in [Nat -> Nat]
    BY <2>3, <2>4
  <2> QED
    BY <2>1, <2>4, <2>5
<1>2. \A n \in 0 .. m : g[n] \in Nat
  <2>1. \A n \in 0 .. m : n \in Nat /\ n <= m
    OBVIOUS
  <2> QED
    BY <1>1, <2>1
<1>3. \A i \in 1 .. m : i - 1 \in 0 .. m
  OBVIOUS
<1>4. g \in [0 .. m -> Nat]
  BY <1>2
<1> QED
  BY <1>2, <1>3, <1>4 DEF Iterates

\* Two iterations of the same steps agree as far as both go.
LEMMA IterationsAgree ==
  ASSUME NEW a, NEW m \in Nat, NEW G, NEW f, NEW g, Iterates(f, a, G, m), NEW H, NEW k \in Nat, k <= m,
         Iterates(g, a, H, k), \A n \in 1 .. k : G[n] = H[n]
  PROVE  f[k] = g[k]
<1> DEFINE Bad == {n \in Nat : n <= k /\ f[n] # g[n]}
<1> SUFFICES ASSUME Bad # {} PROVE FALSE
  OBVIOUS
<1>1. PICK n \in Bad : \A x \in Bad : n <= x
  BY LeastNumber
<1>2. n # 0
  BY <1>1 DEF Iterates
<1>3. n \in 1 .. k /\ n \in 1 .. m /\ n - 1 \in Nat /\ n - 1 <= k /\ ~(n <= n - 1)
  BY <1>1, <1>2
<1>4. f[n - 1] = g[n - 1]
  BY <1>1, <1>3
<1>5. f[n] = G[n][f[n - 1]] /\ g[n] = H[n][g[n - 1]] /\ G[n] = H[n]
  BY <1>3 DEF Iterates
<1> QED
  BY <1>1, <1>4, <1>5

-----------------------------------------------------------------------------
(* Bytes of a number. *)

Shift == [x \in Nat |-> x \div ByteBase]

LEMMA Division ==
  ASSUME NEW q \in Nat \ {0}, NEW x \in Nat
  PROVE  x \div q \in Nat /\ x % q \in 0 .. (q - 1) /\ x = (x \div q) * q + (x % q)
<1> DEFINE d == x \div q
           r == x % q
<1>2. x = (q * d) + r /\ d \in Int /\ r \in 0 .. (q - 1)
  OBVIOUS
<1> HIDE DEF d, r
<1>3. d \in Nat
  <2> SUFFICES ASSUME d < 0 PROVE FALSE
    BY <1>2
  <2>1. d + 1 <= 0 /\ d + 1 \in Int
    BY <1>2
  <2> DEFINE e == -(d + 1)
  <2>2. e \in Nat /\ d = -1 - e
    BY <1>2, <2>1
  <2> HIDE DEF e
  <2>3. q * d = (-q) - (q * e) /\ q * e \in Nat
    BY <2>2
  <2> QED
    BY <1>2, <2>3
<1>4. q * d = d * q
  BY <1>2
<1>5. x = d * q + r
  BY <1>2, <1>4
<1> QED
  BY <1>2, <1>3, <1>5 DEF d, r

LEMMA DivideIsNat ==
  ASSUME NEW x \in Nat
  PROVE  /\ x \div ByteBase \in Nat /\ x % ByteBase \in 0 .. (ByteBase - 1)
         /\ x = (x \div ByteBase) * ByteBase + (x % ByteBase)
<1>1. ByteBase \in Nat \ {0}
  BY ByteBaseAssumption
<1> QED
  BY <1>1, Division

LEMMA ShiftedIterates ==
  ASSUME NEW v \in Nat, NEW n \in Nat
  PROVE  \E f : Iterates(f, v, [i \in Nat |-> Shift], n) /\ Shifted(v, n) = f[n]
<1> DEFINE Eq(f) == f = [i \in 0 .. n |-> IF i = 0 THEN v ELSE f[i - 1] \div ByteBase]
           of == CHOOSE f : Eq(f)
           G == [i \in Nat |-> Shift]
<1>1. Shifted(v, n) = of[n]
  BY DEF Shifted
<1>2. Shift \in [Nat -> Nat] /\ \A x \in Nat : Shift[x] = x \div ByteBase
  BY DivideIsNat DEF Shift
<1>3. \A i \in 1 .. n : G[i] = Shift
  OBVIOUS
<1> HIDE DEF G
<1>4. PICK f : Iterates(f, v, G, n)
  BY <1>2, <1>3, IterationExists
<1>5. ASSUME NEW i \in 0 .. n PROVE f[i] = IF i = 0 THEN v ELSE f[i - 1] \div ByteBase
  <2>1. CASE i = 0
    BY <1>4, <2>1 DEF Iterates
  <2>2. CASE i # 0
    <3>1. i \in 1 .. n /\ i - 1 \in 0 .. n
      BY <2>2
    <3>2. f[i] = G[i][f[i - 1]] /\ f[i - 1] \in Nat
      BY <1>4, <3>1 DEF Iterates
    <3> QED
      BY <1>2, <1>3, <2>2, <3>1, <3>2
  <2> QED
    BY <2>1, <2>2
<1>6. Eq(f)
  BY <1>4, <1>5 DEF Iterates
<1>7. Eq(of)
  BY <1>6
<1> HIDE DEF of
<1>8. of = [i \in 0 .. n |-> of[i]] /\ of[0] = v
  BY <1>7
<1>9. ASSUME NEW i \in 1 .. n, of[i - 1] \in Nat PROVE of[i] = G[i][of[i - 1]]
  <2>1. i \in 0 .. n /\ i # 0
    OBVIOUS
  <2> QED
    BY <1>2, <1>3, <1>7, <1>9, <2>1
<1>10. Iterates(of, v, G, n)
  BY <1>2, <1>3, <1>8, <1>9, SolutionIterates
<1> QED
  BY <1>1, <1>10 DEF G

LEMMA ShiftedFacts ==
  ASSUME NEW v \in Nat, NEW n \in Nat
  PROVE  /\ Shifted(v, n) \in Nat
         /\ n = 0 => Shifted(v, n) = v
         /\ n > 0 => Shifted(v, n) = Shifted(v, n - 1) \div ByteBase
<1> DEFINE G == [i \in Nat |-> Shift]
<1>1. PICK f : Iterates(f, v, G, n) /\ Shifted(v, n) = f[n]
  BY ShiftedIterates
<1>2. Shifted(v, n) \in Nat /\ (n = 0 => Shifted(v, n) = v)
  BY <1>1 DEF Iterates
<1>3. ASSUME n > 0 PROVE Shifted(v, n) = Shifted(v, n - 1) \div ByteBase
  <2> DEFINE k == n - 1
  <2>1. k \in Nat /\ k <= n /\ n \in 1 .. n /\ k \in 0 .. n
    BY <1>3
  <2> HIDE DEF k
  <2>2. PICK g : Iterates(g, v, G, k) /\ Shifted(v, k) = g[k]
    BY <2>1, ShiftedIterates
  <2>3. f[k] = g[k]
    <3> HIDE DEF G
    <3> QED
      BY <1>1, <2>1, <2>2, IterationsAgree
  <2>4. f[n] = G[n][f[n - 1]] /\ f[n - 1] \in Nat
    BY <1>1, <2>1 DEF Iterates, k
  <2>5. G[n] = Shift
    OBVIOUS
  <2> QED
    BY <1>1, <2>2, <2>3, <2>4, <2>5 DEF k, Shift
<1> QED
  BY <1>2, <1>3

\* What the loop of a load does with one byte.
Loads(bytes) == [n \in 1 .. Len(bytes) |-> [x \in Nat |-> x * ByteBase + bytes[n]]]

LEMMA LoadBeIterates ==
  ASSUME NEW bytes \in Seq(Nat)
  PROVE  \E f : Iterates(f, 0, Loads(bytes), Len(bytes)) /\ LoadBe(bytes) = f[Len(bytes)]
<1> DEFINE m == Len(bytes)
           Eq(f) == f = [n \in 0 .. m |-> IF n = 0 THEN 0 ELSE f[n - 1] * ByteBase + bytes[n]]
           of == CHOOSE f : Eq(f)
           G == Loads(bytes)
<1>1. LoadBe(bytes) = of[m]
  BY DEF LoadBe
<1>2. m \in Nat /\ ByteBase \in Nat /\ \A n \in 1 .. m : bytes[n] \in Nat
  BY LenProperties, ElementOfSeq, ByteBaseAssumption
<1>3. \A n \in 1 .. m : G[n] \in [Nat -> Nat] /\ \A x \in Nat : G[n][x] = x * ByteBase + bytes[n]
  <2>1. \A n \in 1 .. m, x \in Nat : x * ByteBase + bytes[n] \in Nat
    BY <1>2
  <2> QED
    BY <2>1 DEF Loads
<1> HIDE DEF G
<1>4. 0 \in Nat
  OBVIOUS
<1> HIDE DEF m
<1>5. PICK f : Iterates(f, 0, G, m)
  BY <1>2, <1>3, <1>4, IterationExists
<1>6. Eq(f)
  <2>1. f = [i \in 0 .. m |-> f[i]] /\ f[0] = 0
    BY <1>5 DEF Iterates
  <2>2. ASSUME NEW i \in 0 .. m, i # 0 PROVE f[i] = f[i - 1] * ByteBase + bytes[i]
    <3>1. i \in 1 .. m /\ i - 1 \in 0 .. m
      BY <1>2, <2>2
    <3>2. f[i] = G[i][f[i - 1]] /\ f[i - 1] \in Nat
      BY <1>5, <3>1 DEF Iterates
    <3> QED
      BY <1>3, <3>1, <3>2
  <2> QED
    BY <2>1, <2>2
<1>7. Eq(of)
  BY <1>6
<1> HIDE DEF of
<1>8. of = [i \in 0 .. m |-> of[i]] /\ of[0] = 0
  BY <1>2, <1>7
<1>9. ASSUME NEW i \in 1 .. m, of[i - 1] \in Nat PROVE of[i] = G[i][of[i - 1]]
  <2>1. i \in 0 .. m /\ i # 0
    BY <1>2
  <2>2. of[i] = of[i - 1] * ByteBase + bytes[i]
    BY <1>7, <2>1
  <2> QED
    BY <1>3, <1>9, <2>2
<1>10. Iterates(of, 0, G, m)
  BY <1>2, <1>3, <1>4, <1>8, <1>9, SolutionIterates
<1> QED
  BY <1>1, <1>10 DEF G, m

LEMMA StoreBeIsBytes ==
  ASSUME NEW v \in Nat, NEW width \in Nat
  PROVE  /\ StoreBe(v, width) \in Seq(Nat) /\ Len(StoreBe(v, width)) = width
         /\ \A i \in 1 .. width : StoreBe(v, width)[i] = Shifted(v, width - i) % ByteBase
<1>1. ASSUME NEW i \in 1 .. width PROVE Shifted(v, width - i) % ByteBase \in Nat
  <2> DEFINE x == Shifted(v, width - i)
  <2>1. width - i \in Nat
    OBVIOUS
  <2>2. x \in Nat
    BY <2>1, ShiftedFacts
  <2> HIDE DEF x
  <2>3. x % ByteBase \in 0 .. (ByteBase - 1) /\ ByteBase \in Nat
    BY <2>2, DivideIsNat, ByteBaseAssumption
  <2> QED
    BY <2>3 DEF x
<1>2. StoreBe(v, width) \in [1 .. width -> Nat]
  BY <1>1 DEF StoreBe
<1> QED
  BY <1>2 DEF StoreBe

LEMMA LoadsWhatWasStored ==
  ASSUME NEW width \in Nat, NEW v, Fits(v, width), NEW bytes \in Seq(Nat), Len(bytes) = width,
         \A i \in 1 .. width : bytes[i] = StoreBe(v, width)[i]
  PROVE  LoadBe(bytes) = v
<1>1. v \in Nat /\ Shifted(v, width) = 0
  BY DEF Fits
<1>2. PICK f : Iterates(f, 0, Loads(bytes), width) /\ LoadBe(bytes) = f[width]
  BY LoadBeIterates
<1> DEFINE Bad == {n \in Nat : n <= width /\ f[n] # Shifted(v, width - n)}
<1>3. Bad = {}
  <2> SUFFICES ASSUME Bad # {} PROVE FALSE
    OBVIOUS
  <2>1. PICK n \in Bad : \A x \in Bad : n <= x
    BY LeastNumber
  <2>2. n # 0
    <3>1. width - 0 = width /\ f[0] = 0
      BY <1>2 DEF Iterates
    <3> QED
      BY <1>1, <2>1, <3>1
  <2>3. n \in 1 .. width /\ n - 1 \in Nat /\ n - 1 <= width /\ ~(n <= n - 1) /\ n - 1 \in 0 .. width
    BY <2>1, <2>2
  <2> DEFINE k == width - n
  <2>4. k \in Nat /\ k + 1 \in Nat /\ k + 1 > 0 /\ (k + 1) - 1 = k /\ width - (n - 1) = k + 1
    BY <2>3
  <2>5. f[n - 1] = Shifted(v, k + 1)
    BY <2>1, <2>3, <2>4
  <2> HIDE DEF k
  <2>6. Shifted(v, k + 1) = Shifted(v, k) \div ByteBase
    <3> DEFINE j == k + 1
    <3>1. j \in Nat /\ j > 0
      BY <2>4
    <3> HIDE DEF j
    <3>2. Shifted(v, j) = Shifted(v, j - 1) \div ByteBase
      BY <1>1, <3>1, ShiftedFacts
    <3> QED
      BY <2>4, <3>2 DEF j
  <2> DEFINE x == Shifted(v, k)
  <2>7. x \in Nat
    BY <1>1, <2>4, ShiftedFacts
  <2>8. bytes[n] = x % ByteBase
    BY <1>1, <2>3, StoreBeIsBytes DEF k
  <2>9. f[n] = f[n - 1] * ByteBase + bytes[n]
    <3>1. f[n] = Loads(bytes)[n][f[n - 1]] /\ f[n - 1] \in Nat
      BY <1>2, <2>3 DEF Iterates
    <3> QED
      BY <2>3, <3>1 DEF Loads
  <2> HIDE DEF x
  <2>10. x = (x \div ByteBase) * ByteBase + (x % ByteBase)
    BY <2>7, DivideIsNat
  <2>11. f[n] = x
    BY <2>5, <2>6, <2>8, <2>9, <2>10 DEF x
  <2> QED
    BY <2>1, <2>11 DEF x, k
<1>4. width <= width /\ width - width = 0 /\ 0 \in Nat
  OBVIOUS
<1>5. f[width] = Shifted(v, 0)
  BY <1>3, <1>4
<1>6. Shifted(v, 0) = v
  BY <1>1, <1>4, ShiftedFacts
<1> QED
  BY <1>2, <1>5, <1>6

-----------------------------------------------------------------------------
(* What a sequence of sequences is put together from. *)

UpTo(F, k) == FlattenSeq(SubSeq(F, 1, k))

Begins(p, q) == Len(p) <= Len(q) /\ \A i \in 1 .. Len(p) : q[i] = p[i]

LEMMA JoinsAgree ==
  ASSUME NEW F, NEW G, NEW f, NEW g, NEW m \in Nat, NEW k \in Nat \ {0}, k <= m,
         Joins(F, f, m), Joins(G, g, k), \A n \in 1 .. k : F[n] = G[n]
  PROVE  f[k] = g[k]
<1> DEFINE Bad == {n \in Nat : n \in 1 .. k /\ f[n] # g[n]}
<1>0. k \in 1 .. k
  OBVIOUS
<1> SUFFICES ASSUME Bad # {} PROVE FALSE
  BY <1>0
<1>1. PICK n \in Bad : \A x \in Bad : n <= x
  BY LeastNumber
<1>2. n \in 1 .. k /\ n \in 1 .. m /\ n \in Nat
  BY <1>1
<1>3. f[n] = (IF n = 1 THEN F[n] ELSE f[n - 1] \o F[n]) /\ g[n] = (IF n = 1 THEN G[n] ELSE g[n - 1] \o G[n])
  BY <1>2 DEF Joins
<1>4. n # 1
  BY <1>1, <1>2, <1>3
<1>5. n - 1 \in 1 .. k /\ n - 1 \in Nat /\ ~(n <= n - 1)
  BY <1>2, <1>4
<1>6. f[n - 1] = g[n - 1]
  BY <1>1, <1>5
<1> QED
  BY <1>1, <1>2, <1>3, <1>4, <1>6

LEMMA UpToSteps ==
  ASSUME NEW S, NEW F \in Seq(Seq(S)), NEW k \in 1 .. Len(F), UpTo(F, k - 1) \in Seq(S)
  PROVE  UpTo(F, k) = UpTo(F, k - 1) \o F[k]
<1> DEFINE P == SubSeq(F, 1, k)
           j == k - 1
           Q == SubSeq(F, 1, j)
<1>1. Len(F) \in Nat /\ k \in Nat \ {0} /\ j \in Nat /\ j < k /\ k <= Len(F) /\ F[k] \in Seq(S)
      /\ j = k - 1
  BY LenProperties, ElementOfSeq
<1>2. Len(P) = k /\ \A n \in 1 .. k : P[n] = F[n]
  BY <1>1, SubSeqProperties
<1>3. Len(Q) = j /\ \A n \in 1 .. j : Q[n] = F[n]
  BY <1>1, SubSeqProperties
<1>4. UpTo(F, k) = FlattenSeq(P) /\ UpTo(F, k - 1) = FlattenSeq(Q)
  BY DEF UpTo
<1> HIDE DEF P, Q, j
<1>5. PICK f : Joins(P, f, k) /\ FlattenSeq(P) = f[k]
  BY <1>1, <1>2, FlattenJoins
<1>6. k \in 1 .. k /\ P[k] = F[k]
  BY <1>1, <1>2
<1>7. f[k] = IF k = 1 THEN F[k] ELSE f[k - 1] \o F[k]
  BY <1>5, <1>6 DEF Joins
<1>8. CASE k = 1
  <2>1. Len(Q) = 0
    BY <1>1, <1>3, <1>8
  <2>2. FlattenSeq(Q) = Q
    BY <2>1 DEF FlattenSeq
  <2>3. FlattenSeq(Q) = <<>>
    BY <1>4, <2>1, <2>2, EmptySeq
  <2> QED
    BY <1>1, <1>4, <1>5, <1>7, <1>8, <2>3
<1>9. CASE k # 1
  <2>1. j \in Nat \ {0} /\ j \in 1 .. j
    BY <1>1, <1>9
  <2>2. PICK g : Joins(Q, g, j) /\ FlattenSeq(Q) = g[j]
    BY <1>3, <2>1, FlattenJoins
  <2>3. \A n \in 1 .. j : P[n] = Q[n]
    <3>1. \A n \in 1 .. j : n \in 1 .. k
      BY <1>1
    <3> QED
      BY <1>2, <1>3, <3>1
  <2>4. j <= k
    BY <1>1
  <2>6. f[j] = g[j]
    <3>1. Joins(P, f, k) /\ Joins(Q, g, j) /\ k \in Nat /\ j \in Nat \ {0}
      BY <1>1, <1>5, <2>1, <2>2
    <3> QED
      BY <2>3, <2>4, <3>1, JoinsAgree
  <2> QED
    BY <1>4, <1>5, <1>7, <1>9, <2>2, <2>6 DEF j
<1> QED
  BY <1>8, <1>9

LEMMA UpToFacts ==
  ASSUME NEW S, NEW F \in Seq(Seq(S))
  PROVE  /\ \A k \in 0 .. Len(F) : UpTo(F, k) \in Seq(S)
         /\ UpTo(F, 0) = <<>>
         /\ \A k \in 1 .. Len(F) : UpTo(F, k) = UpTo(F, k - 1) \o F[k]
         /\ UpTo(F, Len(F)) = FlattenSeq(F) /\ FlattenSeq(F) \in Seq(S)
<1>0. Len(F) \in Nat
  BY LenProperties
<1>1. UpTo(F, 0) = <<>> /\ <<>> \in Seq(S)
  <2>1. SubSeq(F, 1, 0) = <<>>
    BY SubSeqEmpty
  <2> QED
    BY <2>1 DEF UpTo, FlattenSeq
<1> DEFINE Bad == {k \in Nat : k <= Len(F) /\ UpTo(F, k) \notin Seq(S)}
<1>2. Bad = {}
  <2> SUFFICES ASSUME Bad # {} PROVE FALSE
    OBVIOUS
  <2>1. PICK k \in Bad : \A x \in Bad : k <= x
    BY LeastNumber
  <2>2. k # 0
    BY <1>1, <2>1
  <2>3. k \in 1 .. Len(F) /\ k - 1 \in Nat /\ k - 1 <= Len(F) /\ ~(k <= k - 1)
    BY <1>0, <2>1, <2>2
  <2>4. UpTo(F, k - 1) \in Seq(S)
    BY <2>1, <2>3
  <2>5. UpTo(F, k) = UpTo(F, k - 1) \o F[k] /\ F[k] \in Seq(S)
    BY <2>3, <2>4, UpToSteps, ElementOfSeq
  <2> DEFINE p == UpTo(F, k - 1)
             q == F[k]
  <2>6. p \in Seq(S) /\ q \in Seq(S) /\ UpTo(F, k) = p \o q
    BY <2>4, <2>5
  <2> HIDE DEF p, q
  <2>7. p \o q \in Seq(S)
    BY <2>6, ConcatProperties
  <2> QED
    BY <2>1, <2>6, <2>7
<1>3. \A k \in 0 .. Len(F) : k \in Nat /\ k <= Len(F)
  BY <1>0
<1>4. \A k \in 0 .. Len(F) : UpTo(F, k) \in Seq(S)
  BY <1>2, <1>3
<1>5. \A k \in 1 .. Len(F) : k - 1 \in 0 .. Len(F)
  BY <1>0
<1>6. \A k \in 1 .. Len(F) : UpTo(F, k) = UpTo(F, k - 1) \o F[k]
  BY <1>4, <1>5, UpToSteps
<1>7. SubSeq(F, 1, Len(F)) = F
  BY SubSeqFull
<1>8. UpTo(F, Len(F)) = FlattenSeq(F) /\ Len(F) \in 0 .. Len(F)
  <2>1. Len(F) \in 0 .. Len(F)
    BY <1>0
  <2> QED
    BY <1>7, <2>1 DEF UpTo
<1> QED
  BY <1>1, <1>4, <1>6, <1>8

\* The k-th sequence begins where the ones before it end.
LEMMA PartInWhole ==
  ASSUME NEW S, NEW F \in Seq(Seq(S)), NEW k \in 1 .. Len(F)
  PROVE  /\ Len(UpTo(F, k)) = Len(UpTo(F, k - 1)) + Len(F[k])
         /\ Begins(UpTo(F, k), FlattenSeq(F))
         /\ \A i \in 1 .. Len(F[k]) : FlattenSeq(F)[Len(UpTo(F, k - 1)) + i] = F[k][i]
<1> DEFINE B(j) == UpTo(F, j)
<1>0. Len(F) \in Nat /\ k \in Nat /\ k - 1 \in 0 .. Len(F) /\ k \in 0 .. Len(F) /\ k <= Len(F)
  BY LenProperties
<1>1. /\ \A j \in 0 .. Len(F) : B(j) \in Seq(S)
      /\ \A j \in 1 .. Len(F) : B(j) = B(j - 1) \o F[j]
      /\ B(Len(F)) = FlattenSeq(F)
      /\ \A j \in 1 .. Len(F) : F[j] \in Seq(S)
  BY UpToFacts, ElementOfSeq
<1> HIDE DEF B
<1> DEFINE Bad == {j \in Nat : k <= j /\ j <= Len(F) /\ ~Begins(B(k), B(j))}
<1>2. Bad = {}
  <2> SUFFICES ASSUME Bad # {} PROVE FALSE
    OBVIOUS
  <2>1. PICK j \in Bad : \A x \in Bad : j <= x
    BY LeastNumber
  <2>2. j # k
    <3>1. Len(B(k)) \in Nat
      BY <1>0, <1>1, LenProperties
    <3>2. Begins(B(k), B(k))
      BY <3>1 DEF Begins
    <3> QED
      BY <2>1, <3>2
  <2>3. j - 1 \in Nat /\ k <= j - 1 /\ j - 1 <= Len(F) /\ ~(j <= j - 1) /\ j \in 1 .. Len(F) /\ j - 1 \in 0 .. Len(F)
    BY <1>0, <2>1, <2>2
  <2>4. Begins(B(k), B(j - 1))
    BY <2>1, <2>3
  <2> DEFINE p == B(j - 1)
             q == F[j]
             b == B(k)
  <2>5. p \in Seq(S) /\ q \in Seq(S) /\ b \in Seq(S) /\ B(j) = p \o q
    BY <1>0, <1>1, <2>3
  <2>6. Begins(b, p)
    BY <2>4
  <2> HIDE DEF p, q, b
  <2>7. Begins(b, p \o q)
    <3>1. Len(p) \in Nat /\ Len(q) \in Nat /\ Len(b) \in Nat /\ Len(p \o q) = Len(p) + Len(q)
          /\ \A i \in 1 .. Len(p) : (p \o q)[i] = p[i]
      BY <2>5, LenProperties, ConcatProperties
    <3>2. Len(b) <= Len(p) /\ \A i \in 1 .. Len(b) : p[i] = b[i]
      BY <2>6 DEF Begins
    <3>3. \A i \in 1 .. Len(b) : i \in 1 .. Len(p)
      BY <3>1, <3>2
    <3> QED
      BY <3>1, <3>2, <3>3 DEF Begins
  <2> QED
    BY <2>1, <2>5, <2>7 DEF b
<1>3. Begins(B(k), FlattenSeq(F))
  <2>1. Len(F) <= Len(F)
    BY <1>0
  <2> QED
    BY <1>0, <1>1, <1>2, <2>1
<1> DEFINE p == B(k - 1)
           q == F[k]
           w == FlattenSeq(F)
<1>4. p \in Seq(S) /\ q \in Seq(S) /\ B(k) = p \o q
  BY <1>0, <1>1
<1>5. Begins(p \o q, w)
  BY <1>3, <1>4
<1> HIDE DEF p, q, w
<1>6. Len(p) \in Nat /\ Len(q) \in Nat /\ Len(p \o q) = Len(p) + Len(q)
      /\ \A i \in 1 .. Len(q) : (p \o q)[Len(p) + i] = q[i]
  <2>1. Len(p) \in Nat /\ Len(q) \in Nat /\ Len(p \o q) = Len(p) + Len(q)
    BY <1>4, LenProperties, ConcatProperties
  <2>2. ASSUME NEW i \in 1 .. Len(q) PROVE (p \o q)[Len(p) + i] = q[i]
    BY <1>4, <2>1
  <2> QED
    BY <2>1, <2>2
<1>7. ASSUME NEW i \in 1 .. Len(q) PROVE w[Len(p) + i] = q[i]
  <2>1. Len(p) + i \in 1 .. Len(p \o q)
    BY <1>6
  <2>2. w[Len(p) + i] = (p \o q)[Len(p) + i]
    BY <1>5, <2>1 DEF Begins
  <2> QED
    BY <1>6, <2>2
<1>8. Len(B(k)) = Len(p) + Len(q)
  BY <1>4, <1>6
<1> QED
  BY <1>3, <1>7, <1>8 DEF B, p, q, w

-----------------------------------------------------------------------------
(* Sizes. *)

FieldNames ==
  {"pad", "type", "length", "seq", "ts_ns", "order_id", "trade_id", "symbol_id", "side", "price", "qty",
   "exchange_ts_ns", "start_seq", "end_seq", "payload_bytes"}

IsStruct(T) == T \in Seq([name : FieldNames, width : Nat])

Widen(T) == [n \in 1 .. Len(T) |-> [x \in Nat |-> x + T[n].width]]

LEMMA FieldsHaveWidths ==
  ASSUME NEW T, IsStruct(T)
  PROVE  Len(T) \in Nat /\ \A n \in 1 .. Len(T) : T[n].width \in Nat
<1> DEFINE S == [name : FieldNames, width : Nat]
<1>1. T \in Seq(S) /\ \A f \in S : f.width \in Nat
  BY DEF IsStruct
<1> HIDE DEF S
<1> QED
  BY <1>1, LenProperties, ElementOfSeq

LEMMA SizeOfIterates ==
  ASSUME NEW T, IsStruct(T)
  PROVE  \E f : Iterates(f, 0, Widen(T), Len(T)) /\ SizeOf(T) = f[Len(T)]
<1> DEFINE m == Len(T)
           Eq(f) == f = [n \in 0 .. m |-> IF n = 0 THEN 0 ELSE f[n - 1] + T[n].width]
           of == CHOOSE f : Eq(f)
           G == Widen(T)
<1>1. SizeOf(T) = of[m]
  BY DEF SizeOf
<1>2. m \in Nat /\ \A n \in 1 .. m : T[n].width \in Nat
  BY FieldsHaveWidths
<1>3. \A n \in 1 .. m : G[n] \in [Nat -> Nat] /\ \A x \in Nat : G[n][x] = x + T[n].width
  <2>1. \A n \in 1 .. m, x \in Nat : x + T[n].width \in Nat
    BY <1>2
  <2> QED
    BY <2>1 DEF Widen
<1> HIDE DEF G
<1>4. 0 \in Nat
  OBVIOUS
<1> HIDE DEF m
<1>5. PICK f : Iterates(f, 0, G, m)
  BY <1>2, <1>3, <1>4, IterationExists
<1>6. Eq(f)
  <2>1. f = [i \in 0 .. m |-> f[i]] /\ f[0] = 0
    BY <1>5 DEF Iterates
  <2>2. ASSUME NEW i \in 0 .. m, i # 0 PROVE f[i] = f[i - 1] + T[i].width
    <3>1. i \in 1 .. m /\ i - 1 \in 0 .. m
      BY <1>2, <2>2
    <3>2. f[i] = G[i][f[i - 1]] /\ f[i - 1] \in Nat
      BY <1>5, <3>1 DEF Iterates
    <3> QED
      BY <1>3, <3>1, <3>2
  <2> QED
    BY <2>1, <2>2
<1>7. Eq(of)
  BY <1>6
<1> HIDE DEF of
<1>8. of = [i \in 0 .. m |-> of[i]] /\ of[0] = 0
  BY <1>2, <1>7
<1>9. ASSUME NEW i \in 1 .. m, of[i - 1] \in Nat PROVE of[i] = G[i][of[i - 1]]
  <2>1. i \in 0 .. m /\ i # 0
    BY <1>2
  <2>2. of[i] = of[i - 1] + T[i].width
    BY <1>7, <2>1
  <2> QED
    BY <1>3, <1>9, <2>2
<1>10. Iterates(of, 0, G, m)
  BY <1>2, <1>3, <1>4, <1>8, <1>9, SolutionIterates
<1> QED
  BY <1>1, <1>10 DEF G, m

\* The size of the fields before the k-th is where the k-th begins.
Offset(T, k) == SizeOf(SubSeq(T, 1, k))

LEMMA OffsetFacts ==
  ASSUME NEW T, IsStruct(T)
  PROVE  /\ \A k \in 0 .. Len(T) : Offset(T, k) \in Nat
         /\ Offset(T, 0) = 0
         /\ \A k \in 1 .. Len(T) : Offset(T, k) = Offset(T, k - 1) + T[k].width
         /\ Offset(T, Len(T)) = SizeOf(T) /\ SizeOf(T) \in Nat
<1>0. Len(T) \in Nat /\ T \in Seq([name : FieldNames, width : Nat]) /\ \A n \in 1 .. Len(T) : T[n].width \in Nat
  BY FieldsHaveWidths DEF IsStruct
<1>1. PICK f : Iterates(f, 0, Widen(T), Len(T))
  BY SizeOfIterates
<1>2. ASSUME NEW k \in 0 .. Len(T) PROVE Offset(T, k) = f[k]
  <2> DEFINE P == SubSeq(T, 1, k)
  <2>1. k \in Nat /\ k <= Len(T)
    BY <1>0
  <2> DEFINE S == [name : FieldNames, width : Nat]
  <2>a. T \in Seq(S)
    BY <1>0
  <2> HIDE DEF S
  <2>b. \A i \in 1 .. k : T[i] \in S
    BY <2>1, <2>a, ElementOfSeq
  <2>2. Len(P) = k /\ \A n \in 1 .. k : P[n] = T[n]
    BY <2>1, <2>b, SubSeqProperties
  <2>3. P \in Seq(S)
    BY <2>1, <2>b, SubSeqProperties
  <2>4. Offset(T, k) = SizeOf(P) /\ IsStruct(P)
    BY <2>3 DEF Offset, IsStruct, S
  <2> HIDE DEF P
  <2>5. PICK g : Iterates(g, 0, Widen(P), k) /\ SizeOf(P) = g[k]
    BY <2>2, <2>4, SizeOfIterates
  <2>6. \A n \in 1 .. k : Widen(T)[n] = Widen(P)[n]
    <3>1. \A n \in 1 .. k : n \in 1 .. Len(T) /\ n \in 1 .. Len(P) /\ P[n] = T[n]
      BY <1>0, <2>1, <2>2
    <3> QED
      BY <3>1 DEF Widen
  <2> DEFINE G == Widen(T)
             H == Widen(P)
  <2>7. Iterates(f, 0, G, Len(T)) /\ Iterates(g, 0, H, k) /\ \A n \in 1 .. k : G[n] = H[n]
    BY <1>1, <2>5, <2>6
  <2> HIDE DEF G, H
  <2>8. f[k] = g[k]
    BY <1>0, <2>1, <2>7, IterationsAgree
  <2> QED
    BY <2>4, <2>5, <2>8
<1>3. f \in [0 .. Len(T) -> Nat] /\ f[0] = 0 /\ \A n \in 1 .. Len(T) : f[n] = Widen(T)[n][f[n - 1]]
  BY <1>1 DEF Iterates
<1>4. \A k \in 0 .. Len(T) : Offset(T, k) \in Nat
  BY <1>2, <1>3
<1>5. Offset(T, 0) = 0 /\ Len(T) \in 0 .. Len(T)
  BY <1>0, <1>2, <1>3
<1>6. ASSUME NEW k \in 1 .. Len(T) PROVE Offset(T, k) = Offset(T, k - 1) + T[k].width
  <2>1. k - 1 \in 0 .. Len(T) /\ k \in 0 .. Len(T)
    BY <1>0
  <2>2. f[k - 1] \in Nat /\ f[k] = Widen(T)[k][f[k - 1]]
    BY <1>3, <2>1
  <2>3. f[k] = f[k - 1] + T[k].width
    BY <2>2 DEF Widen
  <2> QED
    BY <1>2, <2>1, <2>3
<1>7. SubSeq(T, 1, Len(T)) = T
  BY <1>0, SubSeqFull
<1>8. Offset(T, Len(T)) = SizeOf(T)
  BY <1>7 DEF Offset
<1>9. SizeOf(T) \in Nat
  BY <1>4, <1>5, <1>8
<1> QED
  BY <1>4, <1>5, <1>6, <1>8, <1>9

-----------------------------------------------------------------------------
(* Structs as bytes. *)

Value(field, msg) == IF field.name = "pad" THEN 0 ELSE msg[field.name]

HasFields(T, msg) == \A k \in 1 .. Len(T) : Fits(Value(T[k], msg), T[k].width)

Parts(T, msg) == [k \in DOMAIN T |-> StoreBe(Value(T[k], msg), T[k].width)]

LEMMA StructFields ==
  ASSUME NEW T, IsStruct(T)
  PROVE  Len(T) \in Nat /\ DOMAIN T = 1 .. Len(T) /\ \A k \in 1 .. Len(T) : T[k].width \in Nat
<1> DEFINE S == [name : FieldNames, width : Nat]
<1>1. T \in Seq(S) /\ \A f \in S : f.width \in Nat
  BY DEF IsStruct
<1> HIDE DEF S
<1> QED
  BY <1>1, LenProperties, ElementOfSeq

LEMMA PartsFacts ==
  ASSUME NEW T, IsStruct(T), NEW msg, HasFields(T, msg)
  PROVE  /\ Parts(T, msg) \in Seq(Seq(Nat)) /\ Len(Parts(T, msg)) = Len(T)
         /\ \A k \in 1 .. Len(T) : /\ Parts(T, msg)[k] = StoreBe(Value(T[k], msg), T[k].width)
                                   /\ Len(Parts(T, msg)[k]) = T[k].width
         /\ EncodeStruct(T, msg) = FlattenSeq(Parts(T, msg))
<1>1. Len(T) \in Nat /\ DOMAIN T = 1 .. Len(T) /\ \A k \in 1 .. Len(T) : T[k].width \in Nat
  BY StructFields
<1>2. ASSUME NEW k \in 1 .. Len(T)
      PROVE  /\ StoreBe(Value(T[k], msg), T[k].width) \in Seq(Nat)
             /\ Len(StoreBe(Value(T[k], msg), T[k].width)) = T[k].width
  <2> DEFINE v == Value(T[k], msg)
             w == T[k].width
  <2>1. v \in Nat /\ w \in Nat
    BY <1>1 DEF HasFields, Fits
  <2> HIDE DEF v, w
  <2>2. StoreBe(v, w) \in Seq(Nat) /\ Len(StoreBe(v, w)) = w
    BY <2>1, StoreBeIsBytes
  <2> QED
    BY <2>2 DEF v, w
<1>3. Parts(T, msg) \in [1 .. Len(T) -> Seq(Nat)]
  BY <1>1, <1>2 DEF Parts
<1>4. Parts(T, msg) \in Seq(Seq(Nat)) /\ Len(Parts(T, msg)) = Len(T)
  BY <1>1, <1>3
<1>5. \A k \in 1 .. Len(T) : Parts(T, msg)[k] = StoreBe(Value(T[k], msg), T[k].width)
  BY <1>1 DEF Parts
<1>6. EncodeStruct(T, msg) = FlattenSeq(Parts(T, msg))
  BY DEF EncodeStruct, Parts, Value
<1> QED
  BY <1>2, <1>4, <1>5, <1>6

LEMMA EncodeFacts ==
  ASSUME NEW T, IsStruct(T), NEW msg, HasFields(T, msg)
  PROVE  /\ EncodeStruct(T, msg) \in Seq(Nat) /\ Len(EncodeStruct(T, msg)) = SizeOf(T)
         /\ \A k \in 1 .. Len(T) :
              /\ Offset(T, k) <= SizeOf(T)
              /\ \A i \in 1 .. T[k].width :
                   EncodeStruct(T, msg)[Offset(T, k - 1) + i] = StoreBe(Value(T[k], msg), T[k].width)[i]
<1> DEFINE F == Parts(T, msg)
           E == EncodeStruct(T, msg)
<1>1. /\ F \in Seq(Seq(Nat)) /\ Len(F) = Len(T) /\ E = FlattenSeq(F)
      /\ \A k \in 1 .. Len(T) : F[k] = StoreBe(Value(T[k], msg), T[k].width) /\ Len(F[k]) = T[k].width
  BY PartsFacts
<1>2. Len(T) \in Nat /\ \A k \in 1 .. Len(T) : T[k].width \in Nat
  BY StructFields
<1>3. /\ \A k \in 0 .. Len(T) : Offset(T, k) \in Nat
      /\ Offset(T, 0) = 0
      /\ \A k \in 1 .. Len(T) : Offset(T, k) = Offset(T, k - 1) + T[k].width
      /\ Offset(T, Len(T)) = SizeOf(T) /\ SizeOf(T) \in Nat
  BY OffsetFacts
<1> HIDE DEF F, E
<1>4. UpTo(F, 0) = <<>> /\ UpTo(F, Len(T)) = E /\ E \in Seq(Nat)
  BY <1>1, UpToFacts
<1>5. ASSUME NEW k \in 1 .. Len(T)
      PROVE  /\ Len(UpTo(F, k)) = Len(UpTo(F, k - 1)) + Len(F[k])
             /\ Begins(UpTo(F, k), E)
             /\ \A i \in 1 .. Len(F[k]) : E[Len(UpTo(F, k - 1)) + i] = F[k][i]
  <2>1. k \in 1 .. Len(F)
    BY <1>1
  <2> QED
    BY <1>1, <2>1, PartInWhole, Zenon
<1> DEFINE Bad == {k \in Nat : k <= Len(T) /\ Len(UpTo(F, k)) # Offset(T, k)}
<1>6. Bad = {}
  <2> SUFFICES ASSUME Bad # {} PROVE FALSE
    OBVIOUS
  <2>1. PICK k \in Bad : \A x \in Bad : k <= x
    BY LeastNumber
  <2>2. k # 0
    BY <1>3, <1>4, <2>1
  <2>3. k \in 1 .. Len(T) /\ k - 1 \in Nat /\ k - 1 <= Len(T) /\ ~(k <= k - 1)
    BY <1>2, <2>1, <2>2
  <2>4. Len(UpTo(F, k - 1)) = Offset(T, k - 1)
    BY <2>1, <2>3
  <2> QED
    BY <1>1, <1>3, <1>5, <2>1, <2>3, <2>4
<1>7. \A k \in 0 .. Len(T) : Len(UpTo(F, k)) = Offset(T, k)
  <2>1. \A k \in 0 .. Len(T) : k \in Nat /\ k <= Len(T)
    BY <1>2
  <2> QED
    BY <1>6, <2>1
<1>8. Len(E) = SizeOf(T)
  <2>1. Len(T) \in 0 .. Len(T)
    BY <1>2
  <2> QED
    BY <1>3, <1>4, <1>7, <2>1
<1>9. ASSUME NEW k \in 1 .. Len(T)
      PROVE  /\ Offset(T, k) <= SizeOf(T)
             /\ \A i \in 1 .. T[k].width : E[Offset(T, k - 1) + i] = StoreBe(Value(T[k], msg), T[k].width)[i]
  <2>1. k \in 0 .. Len(T) /\ k - 1 \in 0 .. Len(T)
    BY <1>2
  <2>2. Len(UpTo(F, k)) = Offset(T, k) /\ Len(UpTo(F, k - 1)) = Offset(T, k - 1)
    BY <1>7, <2>1
  <2>3. Len(UpTo(F, k)) <= Len(E)
    BY <1>5 DEF Begins
  <2> QED
    BY <1>1, <1>5, <1>8, <2>2, <2>3
<1> QED
  BY <1>4, <1>8, <1>9 DEF E

LEMMA Slice ==
  ASSUME NEW S, NEW s \in Seq(S), NEW a \in Nat, NEW w \in Nat, a + w <= Len(s)
  PROVE  /\ SubSeq(s, a + 1, a + w) \in Seq(S)
         /\ Len(SubSeq(s, a + 1, a + w)) = w
         /\ \A i \in 1 .. w : SubSeq(s, a + 1, a + w)[i] = s[a + i]
<1> DEFINE x == a + 1
           y == a + w
           p == SubSeq(s, x, y)
<1>1. x \in Int /\ y \in Int /\ (IF x <= y THEN y - x + 1 ELSE 0) = w /\ y - x + 1 = w
      /\ \A i \in 1 .. w : x + i - 1 = a + i
  OBVIOUS
<1>2. \A i \in x .. y : s[i] \in S
  <2>1. Len(s) \in Nat
    BY LenProperties
  <2>2. \A i \in x .. y : i \in 1 .. Len(s)
    BY <2>1
  <2> QED
    BY <2>2, ElementOfSeq
<1> HIDE DEF x, y
<1>3. p \in Seq(S) /\ Len(p) = (IF x <= y THEN y - x + 1 ELSE 0)
      /\ \A i \in 1 .. (y - x + 1) : p[i] = s[x + i - 1]
  BY <1>1, <1>2, SubSeqProperties
<1> HIDE DEF p
<1>4. p \in Seq(S) /\ Len(p) = w /\ \A i \in 1 .. w : p[i] = s[a + i]
  BY <1>1, <1>3
<1> QED
  BY <1>4 DEF p, x, y

\* A field is read back from bytes that hold the struct up to its end.
LEMMA FieldLoads ==
  ASSUME NEW T, IsStruct(T), NEW msg, HasFields(T, msg), NEW k \in 1 .. Len(T), T[k].name # "pad",
         NEW bytes \in Seq(Nat), Len(bytes) >= Offset(T, k),
         \A i \in 1 .. Offset(T, k) : bytes[i] = EncodeStruct(T, msg)[i]
  PROVE  LoadBe(SubSeq(bytes, Offset(T, k - 1) + 1, Offset(T, k - 1) + T[k].width)) = msg[T[k].name]
<1> DEFINE a == Offset(T, k - 1)
           w == T[k].width
           b == Offset(T, k)
           v == Value(T[k], msg)
           E == EncodeStruct(T, msg)
           p == SubSeq(bytes, a + 1, a + w)
<1>1. a \in Nat /\ w \in Nat /\ b = a + w /\ b \in Nat
  <2>1. Len(T) \in Nat /\ w \in Nat
    BY StructFields
  <2>2. k - 1 \in 0 .. Len(T) /\ k \in 0 .. Len(T)
    BY <2>1
  <2> QED
    BY <2>1, <2>2, OffsetFacts
<1>2. \A i \in 1 .. w : E[a + i] = StoreBe(v, w)[i]
  BY EncodeFacts
<1>3. Fits(v, w) /\ v = msg[T[k].name]
  BY DEF HasFields, Value
<1>4. Len(bytes) >= b /\ \A i \in 1 .. b : bytes[i] = E[i]
  OBVIOUS
<1> HIDE DEF a, w, b, v, E
<1>6. p \in Seq(Nat) /\ Len(p) = w /\ \A i \in 1 .. w : p[i] = bytes[a + i]
  <2>1. a + w <= Len(bytes)
    BY <1>1, <1>4
  <2> QED
    BY <1>1, <2>1, Slice
<1> HIDE DEF p
<1>7. \A i \in 1 .. w : p[i] = StoreBe(v, w)[i]
  <2>1. \A i \in 1 .. w : a + i \in 1 .. b
    BY <1>1
  <2> QED
    BY <1>2, <1>4, <1>6, <2>1
<1>8. LoadBe(p) = v
  <2>1. w \in Nat /\ Fits(v, w) /\ p \in Seq(Nat) /\ Len(p) = w
    BY <1>1, <1>3, <1>6
  <2> QED
    BY <1>7, <2>1, LoadsWhatWasStored
<1> QED
  BY <1>3, <1>8 DEF a, w, p

-----------------------------------------------------------------------------
(* One struct after another. *)

LEMMA ConcatStructs ==
  ASSUME NEW H, NEW B, IsStruct(H), IsStruct(B)
  PROVE  /\ IsStruct(H \o B) /\ Len(H \o B) = Len(H) + Len(B)
         /\ \A k \in 1 .. Len(H) : (H \o B)[k] = H[k]
         /\ \A k \in 1 .. Len(B) : (H \o B)[Len(H) + k] = B[k]
         /\ \A k \in 0 .. Len(H) : Offset(H \o B, k) = Offset(H, k)
         /\ \A k \in 0 .. Len(B) : Offset(H \o B, Len(H) + k) = SizeOf(H) + Offset(B, k)
         /\ SizeOf(H \o B) = SizeOf(H) + SizeOf(B)
<1> DEFINE S == [name : FieldNames, width : Nat]
           T == H \o B
<1>1. H \in Seq(S) /\ B \in Seq(S)
  BY DEF IsStruct
<1> HIDE DEF S
<1>2. T \in Seq(S) /\ Len(T) = Len(H) + Len(B) /\ Len(H) \in Nat /\ Len(B) \in Nat
  BY <1>1, ConcatProperties, LenProperties
<1>3. \A k \in 1 .. Len(H) : T[k] = H[k]
  BY <1>1, <1>2, ConcatProperties
<1>4. ASSUME NEW k \in 1 .. Len(B) PROVE T[Len(H) + k] = B[k]
  BY <1>1, <1>2
<1>5. IsStruct(T)
  BY <1>2 DEF IsStruct, S
<1> HIDE DEF T
<1>6. /\ \A k \in 0 .. Len(T) : Offset(T, k) \in Nat
      /\ Offset(T, 0) = 0
      /\ \A k \in 1 .. Len(T) : Offset(T, k) = Offset(T, k - 1) + T[k].width
      /\ Offset(T, Len(T)) = SizeOf(T)
  BY <1>5, OffsetFacts
<1>7. /\ \A k \in 0 .. Len(H) : Offset(H, k) \in Nat
      /\ Offset(H, 0) = 0
      /\ \A k \in 1 .. Len(H) : Offset(H, k) = Offset(H, k - 1) + H[k].width
      /\ Offset(H, Len(H)) = SizeOf(H)
  BY OffsetFacts
<1>8. /\ \A k \in 0 .. Len(B) : Offset(B, k) \in Nat
      /\ Offset(B, 0) = 0
      /\ \A k \in 1 .. Len(B) : Offset(B, k) = Offset(B, k - 1) + B[k].width
      /\ Offset(B, Len(B)) = SizeOf(B)
  BY OffsetFacts
<1> DEFINE BadH == {k \in Nat : k <= Len(H) /\ Offset(T, k) # Offset(H, k)}
           BadB == {k \in Nat : k <= Len(B) /\ Offset(T, Len(H) + k) # SizeOf(H) + Offset(B, k)}
<1>9. BadH = {}
  <2> SUFFICES ASSUME BadH # {} PROVE FALSE
    OBVIOUS
  <2>1. PICK k \in BadH : \A x \in BadH : k <= x
    BY LeastNumber
  <2>2. k # 0
    BY <1>6, <1>7, <2>1
  <2>3. k \in 1 .. Len(H) /\ k \in 1 .. Len(T) /\ k - 1 \in Nat /\ k - 1 <= Len(H) /\ ~(k <= k - 1)
    BY <1>2, <2>1, <2>2
  <2>4. Offset(T, k - 1) = Offset(H, k - 1)
    BY <2>1, <2>3
  <2> QED
    BY <1>3, <1>6, <1>7, <2>1, <2>3, <2>4
<1>10. \A k \in 0 .. Len(H) : Offset(T, k) = Offset(H, k)
  <2>1. \A k \in 0 .. Len(H) : k \in Nat /\ k <= Len(H)
    BY <1>2
  <2> QED
    BY <1>9, <2>1
<1>11. Offset(T, Len(H)) = SizeOf(H) /\ SizeOf(H) \in Nat
  <2>1. Len(H) \in 0 .. Len(H)
    BY <1>2
  <2> QED
    BY <1>7, <1>10, <2>1
<1>12. BadB = {}
  <2> SUFFICES ASSUME BadB # {} PROVE FALSE
    OBVIOUS
  <2>1. PICK k \in BadB : \A x \in BadB : k <= x
    BY LeastNumber
  <2>2. k # 0
    <3>1. Len(H) + 0 = Len(H) /\ SizeOf(H) + 0 = SizeOf(H)
      BY <1>2, <1>11
    <3> QED
      BY <1>8, <1>11, <2>1, <3>1
  <2>3. k \in 1 .. Len(B) /\ Len(H) + k \in 1 .. Len(T) /\ k - 1 \in Nat /\ k - 1 <= Len(B)
        /\ ~(k <= k - 1) /\ (Len(H) + k) - 1 = Len(H) + (k - 1) /\ k - 1 \in 0 .. Len(B)
    BY <1>2, <2>1, <2>2
  <2>4. Offset(T, Len(H) + (k - 1)) = SizeOf(H) + Offset(B, k - 1)
    BY <2>1, <2>3
  <2>5. Offset(T, Len(H) + k) = Offset(T, (Len(H) + k) - 1) + T[Len(H) + k].width
    BY <1>6, <2>3
  <2>6. Offset(B, k) = Offset(B, k - 1) + B[k].width /\ T[Len(H) + k] = B[k]
        /\ Offset(B, k - 1) \in Nat /\ B[k].width \in Nat
    BY <1>4, <1>8, <2>3, StructFields
  <2>7. Offset(T, Len(H) + k) = (SizeOf(H) + Offset(B, k - 1)) + B[k].width
    BY <2>3, <2>4, <2>5, <2>6
  <2>8. Offset(T, Len(H) + k) = SizeOf(H) + Offset(B, k)
    BY <1>11, <2>6, <2>7
  <2> QED
    BY <2>1, <2>8
<1>13. \A k \in 0 .. Len(B) : Offset(T, Len(H) + k) = SizeOf(H) + Offset(B, k)
  <2>1. \A k \in 0 .. Len(B) : k \in Nat /\ k <= Len(B)
    BY <1>2
  <2> QED
    BY <1>12, <2>1
<1>14. SizeOf(T) = SizeOf(H) + SizeOf(B)
  <2>1. Len(B) \in 0 .. Len(B)
    BY <1>2
  <2> QED
    BY <1>2, <1>6, <1>8, <1>13, <2>1
<1> QED
  BY <1>2, <1>3, <1>4, <1>5, <1>10, <1>13, <1>14 DEF T

\* Both structs of a header and a body are read back.
LEMMA StructsLoad ==
  ASSUME NEW H, NEW B, IsStruct(H), IsStruct(B), NEW msg, HasFields(H \o B, msg), NEW bytes \in Seq(Nat)
  PROVE  /\ Len(bytes) >= SizeOf(H) /\ (\A i \in 1 .. SizeOf(H) : bytes[i] = EncodeStruct(H \o B, msg)[i])
              => DecodeStruct(H, bytes, 0) = [name \in Names(H) |-> msg[name]]
         /\ Begins(EncodeStruct(H \o B, msg), bytes)
              => DecodeStruct(B, bytes, SizeOf(H)) = [name \in Names(B) |-> msg[name]]
<1> DEFINE T == H \o B
           E == EncodeStruct(T, msg)
<1>1. /\ IsStruct(T) /\ Len(T) = Len(H) + Len(B)
      /\ \A k \in 1 .. Len(H) : T[k] = H[k]
      /\ \A k \in 1 .. Len(B) : T[Len(H) + k] = B[k]
      /\ \A k \in 0 .. Len(H) : Offset(T, k) = Offset(H, k)
      /\ \A k \in 0 .. Len(B) : Offset(T, Len(H) + k) = SizeOf(H) + Offset(B, k)
  BY ConcatStructs
<1>2. HasFields(T, msg)
  OBVIOUS
<1> HIDE DEF T
<1>3. Len(H) \in Nat /\ Len(B) \in Nat /\ DOMAIN H = 1 .. Len(H) /\ DOMAIN B = 1 .. Len(B)
  BY StructFields
<1>4. Len(E) = SizeOf(T) /\ \A k \in 1 .. Len(T) : Offset(T, k) <= SizeOf(T)
  BY <1>1, <1>2, EncodeFacts
<1>5. /\ \A k \in 0 .. Len(T) : Offset(T, k) \in Nat
      /\ SizeOf(T) \in Nat
  BY <1>1, OffsetFacts
<1> HIDE DEF E
<1>6. ASSUME Len(bytes) >= SizeOf(H), \A i \in 1 .. SizeOf(H) : bytes[i] = E[i],
             NEW name \in Names(H), NEW k \in DOMAIN H, H[k].name = name
      PROVE  LoadBe(SubSeq(bytes, (0 + SizeOf(SubSeq(H, 1, k - 1))) + 1, (0 + SizeOf(SubSeq(H, 1, k - 1))) + H[k].width)) = msg[name]
  <2>1. k \in 1 .. Len(H) /\ k \in 1 .. Len(T) /\ k - 1 \in 0 .. Len(H) /\ k \in 0 .. Len(H) /\ T[k] = H[k] /\ name # "pad"
    BY <1>1, <1>3, <1>6 DEF Names
  <2>2. /\ \A j \in 0 .. Len(H) : Offset(H, j) \in Nat
        /\ Offset(H, k) <= SizeOf(H) /\ SizeOf(H) \in Nat
    <3>1. IsStruct(H) /\ HasFields(H, msg)
      <4>1. \A j \in 1 .. Len(H) : j \in 1 .. Len(T) /\ T[j] = H[j]
        BY <1>1, <1>3
      <4> QED
        BY <1>2, <4>1 DEF HasFields
    <3> QED
      BY <2>1, <3>1, OffsetFacts, EncodeFacts
  <2>3. Offset(T, k) = Offset(H, k) /\ Offset(T, k - 1) = Offset(H, k - 1)
    BY <1>1, <2>1
  <2>4. Len(bytes) >= Offset(T, k) /\ \A i \in 1 .. Offset(T, k) : bytes[i] = E[i]
    <3>1. Offset(H, k) \in Nat /\ Len(bytes) \in Nat
      BY <2>1, <2>2, LenProperties
    <3>2. Len(bytes) >= Offset(H, k) /\ \A i \in 1 .. Offset(H, k) : i \in 1 .. SizeOf(H)
      BY <1>6, <2>2, <3>1
    <3> QED
      BY <1>6, <2>3, <3>2
  <2>5. LoadBe(SubSeq(bytes, Offset(T, k - 1) + 1, Offset(T, k - 1) + T[k].width)) = msg[T[k].name]
    <3>1. IsStruct(T) /\ HasFields(T, msg) /\ T[k].name # "pad"
      BY <1>1, <1>2, <1>6, <2>1
    <3> QED
      BY <2>1, <2>4, <3>1, FieldLoads DEF E
  <2>6. 0 + SizeOf(SubSeq(H, 1, k - 1)) = Offset(T, k - 1)
    BY <2>1, <2>2, <2>3 DEF Offset
  <2> QED
    BY <1>6, <2>1, <2>5, <2>6
<1>7. ASSUME Begins(E, bytes), NEW name \in Names(B), NEW k \in DOMAIN B, B[k].name = name
      PROVE  LoadBe(SubSeq(bytes, (SizeOf(H) + SizeOf(SubSeq(B, 1, k - 1))) + 1, (SizeOf(H) + SizeOf(SubSeq(B, 1, k - 1))) + B[k].width)) = msg[name]
  <2> DEFINE n == Len(H) + k
  <2>1. k \in 1 .. Len(B) /\ n \in 1 .. Len(T) /\ n \in 0 .. Len(T) /\ k - 1 \in 0 .. Len(B) /\ n - 1 = Len(H) + (k - 1)
        /\ T[n] = B[k] /\ name # "pad"
    BY <1>1, <1>3, <1>7 DEF Names
  <2>2. Offset(T, n - 1) = SizeOf(H) + Offset(B, k - 1)
    BY <1>1, <2>1
  <2> HIDE DEF n
  <2>3. Len(bytes) >= Offset(T, n) /\ \A i \in 1 .. Offset(T, n) : bytes[i] = E[i]
    <3>1. Len(E) <= Len(bytes) /\ \A i \in 1 .. Len(E) : bytes[i] = E[i]
      BY <1>7 DEF Begins
    <3>2. Offset(T, n) \in Nat /\ Len(bytes) \in Nat /\ Offset(T, n) <= Len(E) /\ Len(E) \in Nat
      BY <1>4, <1>5, <2>1, LenProperties
    <3>3. Len(bytes) >= Offset(T, n) /\ \A i \in 1 .. Offset(T, n) : i \in 1 .. Len(E)
      BY <3>1, <3>2
    <3> QED
      BY <3>1, <3>3
  <2>4. LoadBe(SubSeq(bytes, Offset(T, n - 1) + 1, Offset(T, n - 1) + T[n].width)) = msg[T[n].name]
    <3>1. IsStruct(T) /\ HasFields(T, msg) /\ T[n].name # "pad"
      BY <1>1, <1>2, <1>7, <2>1
    <3> QED
      BY <2>1, <2>3, <3>1, FieldLoads DEF E
  <2>5. SizeOf(H) + SizeOf(SubSeq(B, 1, k - 1)) = Offset(T, n - 1)
    BY <2>2 DEF Offset
  <2> QED
    BY <1>7, <2>1, <2>4, <2>5
<1>8. ASSUME Len(bytes) >= SizeOf(H), \A i \in 1 .. SizeOf(H) : bytes[i] = E[i]
      PROVE  DecodeStruct(H, bytes, 0) = [name \in Names(H) |-> msg[name]]
  <2>1. \A name \in Names(H) : (CHOOSE k \in DOMAIN H : H[k].name = name) \in DOMAIN H
                               /\ H[CHOOSE k \in DOMAIN H : H[k].name = name].name = name
    BY DEF Names
  <2> QED
    BY <1>6, <1>8, <2>1 DEF DecodeStruct
<1>9. ASSUME Begins(E, bytes)
      PROVE  DecodeStruct(B, bytes, SizeOf(H)) = [name \in Names(B) |-> msg[name]]
  <2>1. \A name \in Names(B) : (CHOOSE k \in DOMAIN B : B[k].name = name) \in DOMAIN B
                               /\ B[CHOOSE k \in DOMAIN B : B[k].name = name].name = name
    BY DEF Names
  <2> QED
    BY <1>7, <1>9, <2>1 DEF DecodeStruct
<1> QED
  BY <1>8, <1>9 DEF E, T

-----------------------------------------------------------------------------
(* The structs of protocol.hpp. *)

Fields == [name : FieldNames, width : Nat]

LEMMA FieldIsField ==
  ASSUME NEW name \in FieldNames, NEW width \in Nat
  PROVE  Field(name, width) \in Fields /\ Padding(width) \in Fields
BY DEF Fields, Field, Padding, FieldNames

LEMMA Tuple1 == ASSUME NEW S, NEW a \in S PROVE <<a>> \in Seq(S) /\ Len(<<a>>) = 1
OBVIOUS

LEMMA Tuple2 == ASSUME NEW S, NEW a \in S, NEW b \in S PROVE <<a, b>> \in Seq(S) /\ Len(<<a, b>>) = 2
OBVIOUS

LEMMA Tuple3 ==
  ASSUME NEW S, NEW a \in S, NEW b \in S, NEW c \in S
  PROVE  <<a, b, c>> \in Seq(S) /\ Len(<<a, b, c>>) = 3
OBVIOUS

LEMMA Tuple5 ==
  ASSUME NEW S, NEW a \in S, NEW b \in S, NEW c \in S, NEW d \in S, NEW e \in S
  PROVE  <<a, b, c, d, e>> \in Seq(S) /\ Len(<<a, b, c, d, e>>) = 5
OBVIOUS

LEMMA Tuple6 ==
  ASSUME NEW S, NEW a \in S, NEW b \in S, NEW c \in S, NEW d \in S, NEW e \in S, NEW f \in S
  PROVE  <<a, b, c, d, e, f>> \in Seq(S) /\ Len(<<a, b, c, d, e, f>>) = 6
OBVIOUS

LEMMA WireHeaderFacts ==
  /\ IsStruct(WireHeader) /\ Len(WireHeader) = 5 /\ HeaderSize = 20
  /\ {"type", "length", "seq"} \subseteq Names(WireHeader)
<1> DEFINE T == WireHeader
<1>1. IsStruct(T) /\ Len(T) = 5 /\ DOMAIN T = 1 .. 5
  <2> DEFINE a == Field("type", 1)
             b == Padding(1)
             c == Field("length", 2)
             d == Field("seq", 8)
             e == Field("ts_ns", 8)
  <2>1. a \in Fields /\ b \in Fields /\ c \in Fields /\ d \in Fields /\ e \in Fields
    BY FieldIsField DEF FieldNames
  <2>2. T = <<a, b, c, d, e>>
    BY DEF WireHeader
  <2> HIDE DEF a, b, c, d, e, T
  <2>3. T \in Seq(Fields) /\ Len(T) = 5
    BY <2>1, <2>2, Tuple5
  <2>4. IsStruct(T)
    BY <2>3 DEF IsStruct, Fields
  <2> QED
    BY <2>3, <2>4, StructFields
<1>2. T[1].width = 1 /\ T[2].width = 1 /\ T[3].width = 2 /\ T[4].width = 8 /\ T[5].width = 8
      /\ T[1].name = "type" /\ T[3].name = "length" /\ T[4].name = "seq"
  BY DEF WireHeader, Field, Padding
<1> HIDE DEF T
<1>3. /\ Offset(T, 0) = 0
      /\ \A k \in 1 .. Len(T) : Offset(T, k) = Offset(T, k - 1) + T[k].width
      /\ Offset(T, Len(T)) = SizeOf(T)
  BY <1>1, OffsetFacts
<1>4. 1 \in 1 .. 5 /\ 2 \in 1 .. 5 /\ 3 \in 1 .. 5 /\ 4 \in 1 .. 5 /\ 5 \in 1 .. 5
      /\ 1 - 1 = 0 /\ 2 - 1 = 1 /\ 3 - 1 = 2 /\ 4 - 1 = 3 /\ 5 - 1 = 4
  OBVIOUS
<1>5. Offset(T, 1) = 1 /\ Offset(T, 2) = 2
  BY <1>1, <1>2, <1>3, <1>4
<1>6. Offset(T, 3) = 4 /\ Offset(T, 4) = 12
  BY <1>1, <1>2, <1>3, <1>4, <1>5
<1>7. Offset(T, 5) = 20
  BY <1>1, <1>2, <1>3, <1>4, <1>6
<1>8. {"type", "length", "seq"} \subseteq Names(T)
  BY <1>1, <1>2, <1>4 DEF Names
<1> QED
  BY <1>1, <1>3, <1>7, <1>8 DEF T, HeaderSize

LEMMA OneField ==
  ASSUME NEW T, IsStruct(T), Len(T) = 1
  PROVE  SizeOf(T) = T[1].width
<1>1. /\ Offset(T, 0) = 0
      /\ \A k \in 1 .. Len(T) : Offset(T, k) = Offset(T, k - 1) + T[k].width
      /\ Offset(T, Len(T)) = SizeOf(T)
  BY OffsetFacts
<1>2. T[1].width \in Nat /\ 1 \in 1 .. Len(T) /\ 1 - 1 = 0
  BY StructFields
<1> QED
  BY <1>1, <1>2

LEMMA TwoFields ==
  ASSUME NEW T, IsStruct(T), Len(T) = 2
  PROVE  SizeOf(T) = T[1].width + T[2].width
<1>1. /\ Offset(T, 0) = 0
      /\ \A k \in 1 .. Len(T) : Offset(T, k) = Offset(T, k - 1) + T[k].width
      /\ Offset(T, Len(T)) = SizeOf(T)
  BY OffsetFacts
<1>2. T[1].width \in Nat /\ T[2].width \in Nat /\ 1 \in 1 .. Len(T) /\ 2 \in 1 .. Len(T) /\ 1 - 1 = 0 /\ 2 - 1 = 1
  <2>1. 1 \in 1 .. Len(T) /\ 2 \in 1 .. Len(T) /\ 1 - 1 = 0 /\ 2 - 1 = 1
    OBVIOUS
  <2>2. \A k \in 1 .. Len(T) : T[k].width \in Nat
    BY StructFields
  <2> QED
    BY <2>1, <2>2
<1>3. Offset(T, 1) = T[1].width
  BY <1>1, <1>2
<1> QED
  BY <1>1, <1>2, <1>3

LEMMA ThreeFields ==
  ASSUME NEW T, IsStruct(T), Len(T) = 3
  PROVE  SizeOf(T) = T[1].width + T[2].width + T[3].width
<1>1. /\ Offset(T, 0) = 0
      /\ \A k \in 1 .. Len(T) : Offset(T, k) = Offset(T, k - 1) + T[k].width
      /\ Offset(T, Len(T)) = SizeOf(T)
  BY OffsetFacts
<1>2. T[1].width \in Nat /\ T[2].width \in Nat /\ T[3].width \in Nat /\ 1 - 1 = 0 /\ 2 - 1 = 1 /\ 3 - 1 = 2
      /\ 1 \in 1 .. Len(T) /\ 2 \in 1 .. Len(T) /\ 3 \in 1 .. Len(T)
  <2>1. 1 - 1 = 0 /\ 2 - 1 = 1 /\ 3 - 1 = 2
        /\ 1 \in 1 .. Len(T) /\ 2 \in 1 .. Len(T) /\ 3 \in 1 .. Len(T)
    OBVIOUS
  <2>2. \A k \in 1 .. Len(T) : T[k].width \in Nat
    BY StructFields
  <2> QED
    BY <2>1, <2>2
<1>3. Offset(T, 1) = T[1].width
  BY <1>1, <1>2
<1>4. Offset(T, 2) = T[1].width + T[2].width
  BY <1>1, <1>2, <1>3
<1> QED
  BY <1>1, <1>2, <1>4

LEMMA OrderBodySize ==
  ASSUME NEW id \in FieldNames
  PROVE  IsStruct(OrderBody(id)) /\ SizeOf(OrderBody(id)) = 24
<1> DEFINE T == OrderBody(id)
<1>1. IsStruct(T) /\ Len(T) = 6
  <2> DEFINE a == Field(id, 8)
             b == Field("symbol_id", 4)
             c == Field("side", 1)
             d == Padding(3)
             e == Field("price", 4)
             f == Field("qty", 4)
  <2>1. a \in Fields /\ b \in Fields /\ c \in Fields /\ d \in Fields /\ e \in Fields /\ f \in Fields
    BY FieldIsField DEF FieldNames
  <2>2. T = <<a, b, c, d, e, f>>
    BY DEF OrderBody
  <2> HIDE DEF a, b, c, d, e, f, T
  <2>3. T \in Seq(Fields) /\ Len(T) = 6
    BY <2>1, <2>2, Tuple6
  <2> QED
    BY <2>3 DEF IsStruct, Fields
<1>2. T[1].width = 8 /\ T[2].width = 4 /\ T[3].width = 1 /\ T[4].width = 3 /\ T[5].width = 4 /\ T[6].width = 4
  BY DEF OrderBody, Field, Padding
<1> HIDE DEF T
<1>3. /\ Offset(T, 0) = 0
      /\ \A k \in 1 .. Len(T) : Offset(T, k) = Offset(T, k - 1) + T[k].width
      /\ Offset(T, Len(T)) = SizeOf(T)
  BY <1>1, OffsetFacts
<1>4. 1 \in 1 .. 6 /\ 2 \in 1 .. 6 /\ 3 \in 1 .. 6 /\ 4 \in 1 .. 6 /\ 5 \in 1 .. 6 /\ 6 \in 1 .. 6
      /\ 1 - 1 = 0 /\ 2 - 1 = 1 /\ 3 - 1 = 2 /\ 4 - 1 = 3 /\ 5 - 1 = 4 /\ 6 - 1 = 5
  OBVIOUS
<1>5. Offset(T, 1) = 8 /\ Offset(T, 2) = 12
  BY <1>1, <1>2, <1>3, <1>4
<1>6. Offset(T, 3) = 13 /\ Offset(T, 4) = 16
  BY <1>1, <1>2, <1>3, <1>4, <1>5
<1>7. Offset(T, 5) = 20 /\ Offset(T, 6) = 24
  BY <1>1, <1>2, <1>3, <1>4, <1>6
<1> QED
  BY <1>1, <1>3, <1>7 DEF T

LEMMA WireBodyFacts ==
  ASSUME NEW type \in MsgTypes
  PROVE  /\ IsStruct(WireBody[type]) /\ SizeOf(WireBody[type]) \in 8 .. 24
         /\ type = 1 => SizeOf(WireBody[type]) = 24
<1>1. CASE type \in {1, 2, 4}
  <2>1. WireBody[type] = OrderBody("order_id") \/ WireBody[type] = OrderBody("trade_id")
    <3>1. WireBody[1] = OrderBody("order_id") /\ WireBody[2] = OrderBody("order_id") /\ WireBody[4] = OrderBody("trade_id")
      BY DEF WireBody
    <3> QED
      BY <1>1, <3>1
  <2>2. "order_id" \in FieldNames /\ "trade_id" \in FieldNames
    BY DEF FieldNames
  <2>3. IsStruct(WireBody[type]) /\ SizeOf(WireBody[type]) = 24
    BY <2>1, <2>2, OrderBodySize
  <2> QED
    BY <2>3
<1>2. CASE type = 3
  <2> DEFINE T == <<Field("order_id", 8), Field("symbol_id", 4), Padding(4)>>
  <2>1. WireBody[type] = T
    BY <1>2 DEF WireBody
  <2>2. IsStruct(T) /\ Len(T) = 3 /\ T[1].width = 8 /\ T[2].width = 4 /\ T[3].width = 4
    <3>1. T \in Seq(Fields) /\ Len(T) = 3
      BY FieldIsField, Tuple3 DEF FieldNames
    <3>2. T[1].width = 8 /\ T[2].width = 4 /\ T[3].width = 4
      BY DEF Field, Padding
    <3> QED
      BY <3>1, <3>2 DEF IsStruct, Fields
  <2> HIDE DEF T
  <2>3. SizeOf(T) = 16
    BY <2>2, ThreeFields
  <2> QED
    BY <1>2, <2>1, <2>2, <2>3
<1>3. CASE type = 5
  <2> DEFINE T == <<Field("exchange_ts_ns", 8)>>
  <2>1. WireBody[type] = T
    BY <1>3 DEF WireBody
  <2>2. IsStruct(T) /\ Len(T) = 1 /\ T[1].width = 8
    <3>1. T \in Seq(Fields) /\ Len(T) = 1
      BY FieldIsField, Tuple1 DEF FieldNames
    <3>2. T[1].width = 8
      BY DEF Field
    <3> QED
      BY <3>1, <3>2 DEF IsStruct, Fields
  <2> HIDE DEF T
  <2>3. SizeOf(T) = 8
    BY <2>2, OneField
  <2> QED
    BY <1>3, <2>1, <2>2, <2>3
<1>g. IsStruct(GapRange) /\ SizeOf(GapRange) = 16
  <2>2. IsStruct(GapRange) /\ Len(GapRange) = 2 /\ GapRange[1].width = 8 /\ GapRange[2].width = 8
    <3>1. GapRange \in Seq(Fields) /\ Len(GapRange) = 2
      BY FieldIsField, Tuple2 DEF GapRange, FieldNames
    <3>2. GapRange[1].width = 8 /\ GapRange[2].width = 8
      BY DEF Field, GapRange
    <3> QED
      BY <3>1, <3>2 DEF IsStruct, Fields
  <2> QED
    BY <2>2, TwoFields
<1>4. CASE type = 6
  <2>1. WireBody[type] = GapRange
    BY <1>4 DEF WireBody
  <2> QED
    BY <1>4, <1>g, <2>1
<1>5. CASE type = 7
  <2> DEFINE T == <<Field("payload_bytes", 4), Padding(4)>>
  <2>1. WireBody[type] = GapRange \o T
    BY <1>5 DEF WireBody
  <2>2. IsStruct(T) /\ Len(T) = 2 /\ T[1].width = 4 /\ T[2].width = 4
    <3>1. T \in Seq(Fields) /\ Len(T) = 2
      BY FieldIsField, Tuple2 DEF FieldNames
    <3>2. T[1].width = 4 /\ T[2].width = 4
      BY DEF Field, Padding
    <3> QED
      BY <3>1, <3>2 DEF IsStruct, Fields
  <2> HIDE DEF T
  <2>3. SizeOf(T) = 8
    BY <2>2, TwoFields
  <2>4. IsStruct(GapRange \o T) /\ SizeOf(GapRange \o T) = SizeOf(GapRange) + SizeOf(T)
    BY <1>g, <2>2, ConcatStructs
  <2>5. SizeOf(GapRange \o T) = 24
    BY <1>g, <2>3, <2>4
  <2> QED
    BY <1>5, <2>1, <2>4, <2>5
<1> QED
  BY <1>1, <1>2, <1>3, <1>4, <1>5 DEF MsgTypes

LEMMA LengthFacts ==
  /\ kMaxMessageSize = 44
  /\ \A type \in MsgTypes : /\ wire_length_for(type) \in 28 .. 44
                            /\ wire_length_for(type) = SizeOf(MessageStruct(type))
                            /\ IsStruct(MessageStruct(type))
<1>1. 1 \in MsgTypes /\ MsgType.AddOrder = 1 /\ HeaderSize = 20 /\ IsStruct(WireHeader)
  BY WireHeaderFacts DEF MsgTypes, MsgType
<1>2. kMaxMessageSize = 44
  BY <1>1, WireBodyFacts DEF kMaxMessageSize
<1>3. ASSUME NEW type \in MsgTypes
      PROVE  /\ wire_length_for(type) \in 28 .. 44 /\ wire_length_for(type) = SizeOf(MessageStruct(type))
             /\ IsStruct(MessageStruct(type))
  <2> DEFINE B == WireBody[type]
  <2>1. IsStruct(B) /\ SizeOf(B) \in 8 .. 24 /\ wire_length_for(type) = HeaderSize + SizeOf(B)
        /\ MessageStruct(type) = WireHeader \o B
    BY WireBodyFacts DEF wire_length_for, MessageStruct
  <2> HIDE DEF B
  <2>2. IsStruct(WireHeader \o B) /\ SizeOf(WireHeader \o B) = SizeOf(WireHeader) + SizeOf(B)
    BY <1>1, <2>1, ConcatStructs
  <2>3. SizeOf(WireHeader) = 20
    BY <1>1 DEF HeaderSize
  <2>4. wire_length_for(type) \in 28 .. 44
    <3>1. \A n \in 8 .. 24 : 20 + n \in 28 .. 44
      OBVIOUS
    <3>2. wire_length_for(type) = 20 + SizeOf(B) /\ SizeOf(B) \in 8 .. 24
      BY <1>1, <2>1
    <3> QED
      BY <3>1, <3>2
  <2> QED
    BY <1>1, <2>1, <2>2, <2>3, <2>4
<1> QED
  BY <1>2, <1>3

-----------------------------------------------------------------------------
(* Messages as bytes. *)

LEMMA ZeroFits == ASSUME NEW width \in Nat PROVE Fits(0, width)
<1> DEFINE Bad == {n \in Nat : Shifted(0, n) # 0}
<1> SUFFICES ASSUME Bad # {} PROVE FALSE
  BY DEF Fits
<1>0. 0 \in Nat /\ 0 \div ByteBase = 0
  BY ByteBaseAssumption
<1>1. PICK n \in Bad : \A x \in Bad : n <= x
  BY LeastNumber
<1>2. n # 0 /\ n \in Nat
  BY <1>0, <1>1, ShiftedFacts
<1>3. n - 1 \in Nat /\ ~(n <= n - 1) /\ n > 0
  BY <1>2
<1>4. Shifted(0, n - 1) = 0
  BY <1>1, <1>3
<1> QED
  BY <1>0, <1>1, <1>2, <1>3, <1>4, ShiftedFacts

LEMMA MessageHasFields ==
  ASSUME NEW msg, IsMessage(msg)
  PROVE  /\ msg.type \in MsgTypes /\ HasFields(MessageStruct(msg.type), msg)
         /\ IsStruct(WireHeader) /\ IsStruct(WireBody[msg.type])
         /\ MessageStruct(msg.type) = WireHeader \o WireBody[msg.type]
<1> DEFINE T == MessageStruct(msg.type)
<1>1. msg.type \in MsgTypes /\ IsStruct(T)
  BY LengthFacts DEF IsMessage
<1>2. DOMAIN T = 1 .. Len(T) /\ \A k \in 1 .. Len(T) : T[k].width \in Nat
  BY <1>1, StructFields
<1>3. ASSUME NEW k \in 1 .. Len(T) PROVE Fits(Value(T[k], msg), T[k].width)
  <2>1. T[k].name # "pad" => Fits(msg[T[k].name], T[k].width)
    BY <1>2 DEF IsMessage
  <2>2. Fits(0, T[k].width)
    BY <1>2, ZeroFits
  <2> QED
    BY <2>1, <2>2 DEF Value
<1>4. HasFields(T, msg)
  BY <1>3 DEF HasFields
<1> QED
  BY <1>1, <1>4, WireHeaderFacts, WireBodyFacts DEF MessageStruct

LEMMA EncodedFacts ==
  ASSUME NEW msg, IsMessage(msg)
  PROVE  /\ EncodeMessage(msg) \in Seq(Nat) /\ Len(EncodeMessage(msg)) = msg.length
         /\ msg.length \in 28 .. 44 /\ msg.length = wire_length_for(msg.type)
<1>1. msg.type \in MsgTypes /\ HasFields(MessageStruct(msg.type), msg) /\ IsStruct(MessageStruct(msg.type))
  BY MessageHasFields, LengthFacts
<1>2. EncodeMessage(msg) \in Seq(Nat) /\ Len(EncodeMessage(msg)) = SizeOf(MessageStruct(msg.type))
  BY <1>1, EncodeFacts DEF EncodeMessage
<1> QED
  BY <1>1, <1>2, LengthFacts DEF IsMessage

\* The header is read back from any bytes that hold all of it.
LEMMA HeaderLoads ==
  ASSUME NEW msg, IsMessage(msg), NEW bytes \in Seq(Nat), Len(bytes) >= HeaderSize,
         \A i \in 1 .. HeaderSize : bytes[i] = EncodeMessage(msg)[i]
  PROVE  /\ decode_header(bytes) = [name \in Names(WireHeader) |-> msg[name]]
         /\ decode_header(bytes).type = msg.type /\ decode_header(bytes).length = msg.length
         /\ decode_header(bytes).seq = msg.seq
<1> DEFINE H == WireHeader
           B == WireBody[msg.type]
<1>1. IsStruct(H) /\ IsStruct(B) /\ HasFields(H \o B, msg) /\ EncodeMessage(msg) = EncodeStruct(H \o B, msg)
      /\ HeaderSize = SizeOf(H)
  BY MessageHasFields DEF EncodeMessage, HeaderSize
<1> HIDE DEF B, H
<1>2. Len(bytes) >= SizeOf(H) /\ \A i \in 1 .. SizeOf(H) : bytes[i] = EncodeStruct(H \o B, msg)[i]
  BY <1>1
<1>3. DecodeStruct(H, bytes, 0) = [name \in Names(H) |-> msg[name]]
  BY <1>1, <1>2, StructsLoad
<1>4. decode_header(bytes) = [name \in Names(WireHeader) |-> msg[name]]
  BY <1>3 DEF decode_header, H
<1>5. "type" \in Names(WireHeader) /\ "length" \in Names(WireHeader) /\ "seq" \in Names(WireHeader)
  BY WireHeaderFacts
<1> QED
  BY <1>4, <1>5

LEMMA NamesConcat ==
  ASSUME NEW H, NEW B, IsStruct(H), IsStruct(B)
  PROVE  Names(H \o B) = Names(H) \cup Names(B)
<1> DEFINE T == H \o B
<1>1. /\ IsStruct(T) /\ Len(T) = Len(H) + Len(B)
      /\ \A k \in 1 .. Len(H) : T[k] = H[k]
      /\ \A k \in 1 .. Len(B) : T[Len(H) + k] = B[k]
  BY ConcatStructs
<1> HIDE DEF T
<1>2. DOMAIN T = 1 .. Len(T) /\ DOMAIN H = 1 .. Len(H) /\ DOMAIN B = 1 .. Len(B) /\ Len(H) \in Nat /\ Len(B) \in Nat
  BY <1>1, StructFields
<1>3. ASSUME NEW k \in DOMAIN T PROVE (\E j \in DOMAIN H : T[k] = H[j]) \/ (\E j \in DOMAIN B : T[k] = B[j])
  <2>1. CASE k <= Len(H)
    BY <1>1, <1>2, <2>1
  <2>2. CASE ~(k <= Len(H))
    <3> DEFINE j == k - Len(H)
    <3>1. j \in 1 .. Len(B) /\ Len(H) + j = k
      BY <1>1, <1>2, <2>2
    <3> HIDE DEF j
    <3> QED
      BY <1>1, <1>2, <3>1
  <2> QED
    BY <2>1, <2>2
<1>4. \A j \in DOMAIN H : j \in DOMAIN T
  BY <1>1, <1>2
<1>5. \A j \in DOMAIN B : Len(H) + j \in DOMAIN T
  BY <1>1, <1>2
<1>6. Names(T) \subseteq Names(H) \cup Names(B)
  BY <1>3 DEF Names
<1>7. Names(H) \cup Names(B) \subseteq Names(T)
  BY <1>1, <1>2, <1>4, <1>5 DEF Names
<1> QED
  BY <1>6, <1>7 DEF T

LEMMA BodyLoads ==
  ASSUME NEW msg, IsMessage(msg), NEW bytes \in Seq(Nat), Begins(EncodeMessage(msg), bytes)
  PROVE  DecodeStruct(WireBody[msg.type], bytes, HeaderSize) = [name \in Names(WireBody[msg.type]) |-> msg[name]]
<1> DEFINE H == WireHeader
           B == WireBody[msg.type]
<1>1. IsStruct(H) /\ IsStruct(B) /\ HasFields(H \o B, msg) /\ EncodeMessage(msg) = EncodeStruct(H \o B, msg)
      /\ HeaderSize = SizeOf(H)
  BY MessageHasFields DEF EncodeMessage, HeaderSize
<1> HIDE DEF B, H
<1>2. Begins(EncodeStruct(H \o B, msg), bytes)
  BY <1>1
<1>3. DecodeStruct(B, bytes, SizeOf(H)) = [name \in Names(B) |-> msg[name]]
  BY <1>1, <1>2, StructsLoad
<1> QED
  BY <1>1, <1>3 DEF B

(***************************************************************************)
(* parse_message() is the inverse of the encoders, whatever follows the    *)
(* message: all its fields come back and consumed is its length.           *)
(***************************************************************************)
THEOREM ParsesWhatWasEncoded ==
  ASSUME NEW msg, IsMessage(msg), SideIsKnown(msg), NEW bytes \in Seq(Nat), Begins(EncodeMessage(msg), bytes)
  PROVE  ParseMessage(bytes) = Parsed("Ok", Len(EncodeMessage(msg)), msg)
<1> DEFINE E == EncodeMessage(msg)
           hdr == decode_header(bytes)
           body == DecodeStruct(WireBody[hdr.type], bytes, HeaderSize)
<1>1. E \in Seq(Nat) /\ Len(E) = msg.length /\ msg.length \in 28 .. 44 /\ msg.length = wire_length_for(msg.type)
      /\ msg.type \in MsgTypes
  BY EncodedFacts, MessageHasFields
<1>2. HeaderSize = 20 /\ kMaxMessageSize = 44
  BY WireHeaderFacts, LengthFacts
<1>3. Len(E) <= Len(bytes) /\ Len(bytes) \in Nat /\ \A i \in 1 .. Len(E) : bytes[i] = E[i]
  BY LenProperties DEF Begins
<1> HIDE DEF E
<1>4. Len(bytes) >= HeaderSize /\ \A i \in 1 .. HeaderSize : bytes[i] = E[i]
  <2>1. HeaderSize <= Len(E) /\ Len(E) \in Nat
    BY <1>1, <1>2
  <2>2. Len(bytes) >= HeaderSize /\ \A i \in 1 .. HeaderSize : i \in 1 .. Len(E)
    BY <1>2, <1>3, <2>1
  <2> QED
    BY <1>3, <2>2
<1>5. hdr = [name \in Names(WireHeader) |-> msg[name]] /\ hdr.type = msg.type /\ hdr.length = msg.length
  BY <1>4, HeaderLoads DEF E
<1>6. body = [name \in Names(WireBody[msg.type]) |-> msg[name]]
  BY <1>5, BodyLoads
<1>7. Followed(hdr, body) = msg
  <2> DEFINE N == Names(WireHeader)
             M == Names(WireBody[msg.type])
  <2>1. msg \in [N \cup M -> Nat]
    BY MessageHasFields, NamesConcat DEF IsMessage
  <2>2. hdr = [name \in N |-> msg[name]] /\ body = [name \in M |-> msg[name]]
    BY <1>5, <1>6
  <2> HIDE DEF N, M, hdr, body
  <2> QED
    BY <2>1, <2>2 DEF Followed
<1> HIDE DEF hdr
<1>8. ParseBody(hdr, bytes) = Parsed("Ok", msg.length, msg)
  BY <1>5, <1>7 DEF ParseBody
<1>9. /\ Arrived(bytes, HeaderSize) /\ ~(hdr.length < HeaderSize \/ hdr.length > kMaxMessageSize)
      /\ Arrived(bytes, hdr.length) /\ wire_length_for(hdr.type) # 0 /\ LengthFits(hdr)
  <2>1. hdr.length = wire_length_for(hdr.type)
    BY <1>1, <1>5
  <2>2. hdr.length \in 28 .. 44 /\ hdr.length <= Len(bytes)
    BY <1>1, <1>3, <1>5
  <2>3. ~(hdr.length < HeaderSize \/ hdr.length > kMaxMessageSize) /\ hdr.length # 0
    <3>1. \A n \in 28 .. 44 : ~(n < 20 \/ n > 44) /\ n # 0
      OBVIOUS
    <3>2. HeaderSize = 20 /\ kMaxMessageSize = 44 /\ hdr.length \in 28 .. 44
      BY <1>2, <2>2
    <3> QED
      BY <3>1, <3>2
  <2>4. Len(bytes) >= hdr.length
    BY <1>3, <2>2
  <2> QED
    BY <1>4, <2>1, <2>3, <2>4 DEF Arrived, LengthFits
<1>10. ParseMessage(bytes) = ParseBody(hdr, bytes)
  BY <1>9 DEF ParseMessage, hdr
<1> QED
  BY <1>1, <1>8, <1>10 DEF E

(***************************************************************************)
(* A message cut short never parses: parse_message() asks for more bytes.  *)
(***************************************************************************)
THEOREM CutMessageIsTruncated ==
  ASSUME NEW msg, IsMessage(msg), NEW bytes \in Seq(Nat), Begins(bytes, EncodeMessage(msg)),
         Len(bytes) < Len(EncodeMessage(msg))
  PROVE  ParseMessage(bytes) = Parsed("Truncated", 0, NoPayload)
<1> DEFINE E == EncodeMessage(msg)
           hdr == decode_header(bytes)
<1>1. E \in Seq(Nat) /\ Len(E) = msg.length /\ msg.length \in 28 .. 44
  BY EncodedFacts
<1>2. HeaderSize = 20 /\ kMaxMessageSize = 44
  BY WireHeaderFacts, LengthFacts
<1>3. Len(bytes) \in Nat /\ \A i \in 1 .. Len(bytes) : bytes[i] = E[i]
  BY LenProperties DEF Begins
<1>4. CASE ~(Len(bytes) >= HeaderSize)
  BY <1>4 DEF ParseMessage, Arrived
<1>5. CASE Len(bytes) >= HeaderSize
  <2>1. \A i \in 1 .. HeaderSize : bytes[i] = E[i]
    BY <1>2, <1>3, <1>5
  <2>2. hdr.length = msg.length
    BY <1>5, <2>1, HeaderLoads
  <2> HIDE DEF hdr
  <2>3. Arrived(bytes, HeaderSize) /\ ~(hdr.length < HeaderSize \/ hdr.length > kMaxMessageSize) /\ ~Arrived(bytes, hdr.length)
    <3>1. Len(bytes) < hdr.length /\ hdr.length \in 28 .. 44
      BY <1>1, <2>2
    <3>2. ~(hdr.length < HeaderSize \/ hdr.length > kMaxMessageSize) /\ ~(Len(bytes) >= hdr.length)
      <4>1. \A n \in Nat, m \in 28 .. 44 : n < m => ~(m < 20 \/ m > 44) /\ ~(n >= m)
        OBVIOUS
      <4>2. Len(bytes) \in Nat
        BY <1>3
      <4> QED
        BY <1>2, <3>1, <4>1, <4>2
    <3> QED
      BY <1>5, <3>2 DEF Arrived
  <2> QED
    BY <2>3 DEF ParseMessage, hdr
<1> QED
  BY <1>4, <1>5

-----------------------------------------------------------------------------
(* The session as bytes. *)

\* Every frame of the session holds the bytes of its message, and its number.
LEMMA SessionBytes ==
  ASSUME NEW s \in 1 .. Len(Session)
  PROVE  /\ IsMessage(Messages[s]) /\ SideIsKnown(Messages[s]) /\ Messages[s].seq = s
         /\ Session[s].body = EncodeMessage(Messages[s])
         /\ Session[s].body \in Seq(Nat) /\ Len(Session[s].body) \in 28 .. 44
         /\ Session[s] = [seq |-> s, body |-> Session[s].body]
<1>1. s \in DOMAIN Session
  BY SessionLen
<1>2. /\ IsMessage(Messages[s]) /\ SideIsKnown(Messages[s]) /\ Messages[s].seq = s
      /\ Session[s].body = EncodeMessage(Messages[s])
  BY <1>1, MessagesAssumption
<1>3. Session[s].body \in Seq(Nat) /\ Len(Session[s].body) \in 28 .. 44
  BY <1>2, EncodedFacts
<1>4. Session[s] \in Frame /\ Session[s].seq = s
  BY SessionFrame
<1>5. Session[s] = [seq |-> s, body |-> Session[s].body]
  BY <1>4 DEF Frame
<1> QED
  BY <1>2, <1>3, <1>5

LEMMA BeginsItself == ASSUME NEW S, NEW p \in Seq(S) PROVE Begins(p, p)
BY LenProperties DEF Begins

\* Bytes that begin with a frame of the session parse to its message, and those bytes are the frame.
LEMMA SessionParses ==
  ASSUME NEW s \in 1 .. Len(Session), NEW bytes \in Seq(Nat), Begins(Session[s].body, bytes)
  PROVE  /\ ParseMessage(bytes) = Parsed("Ok", Len(Session[s].body), Messages[s])
         /\ SubSeq(bytes, 1, Len(Session[s].body)) = Session[s].body
         /\ StoresFrame(Session[s].body)
         /\ [seq |-> decode_header(Session[s].body).seq, body |-> Session[s].body] = Session[s]
<1> DEFINE E == Session[s].body
           m == Messages[s]
<1>1. IsMessage(m) /\ SideIsKnown(m) /\ m.seq = s /\ E = EncodeMessage(m) /\ E \in Seq(Nat) /\ Len(E) \in 28 .. 44
      /\ Session[s] = [seq |-> s, body |-> E]
  BY SessionBytes
<1>2. Begins(E, bytes)
  OBVIOUS
<1>3. HeaderSize = 20 /\ kMaxMessageSize = 44
  BY WireHeaderFacts, LengthFacts
<1> HIDE DEF E, m
<1>4. ParseMessage(bytes) = Parsed("Ok", Len(E), m)
  BY <1>1, <1>2, ParsesWhatWasEncoded
<1>5. SubSeq(bytes, 1, Len(E)) = E
  <2>1. Len(bytes) \in Nat /\ Len(E) \in Nat /\ Len(E) <= Len(bytes) /\ \A i \in 1 .. Len(E) : bytes[i] = E[i]
    BY <1>1, <1>2, LenProperties DEF Begins
  <2> DEFINE p == SubSeq(bytes, 0 + 1, 0 + Len(E))
  <2>2. 0 \in Nat /\ 0 + Len(E) <= Len(bytes)
    BY <2>1
  <2>3. p \in Seq(Nat) /\ Len(p) = Len(E) /\ \A i \in 1 .. Len(E) : p[i] = bytes[0 + i]
    BY <2>1, <2>2, Slice
  <2>4. p = SubSeq(bytes, 1, Len(E))
    BY <2>1
  <2> HIDE DEF p
  <2>5. \A i \in 1 .. Len(E) : p[i] = E[i]
    BY <2>1, <2>3
  <2>6. p = E
    BY <1>1, <2>3, <2>5, SeqEqual
  <2> QED
    BY <2>4, <2>6
<1>6. StoresFrame(E)
  <2>0. Len(E) \in 28 .. 44
    BY <1>1
  <2>1. Len(E) >= 20 /\ Len(E) <= 44
    <3>1. \A n \in 28 .. 44 : n >= 20 /\ n <= 44
      OBVIOUS
    <3> QED
      BY <2>0, <3>1
  <2> QED
    BY <1>3, <2>1 DEF StoresFrame, kMaxStoredMessage
<1>7. decode_header(E).seq = s
  <2>0. Len(E) \in 28 .. 44 /\ E = EncodeMessage(m)
    BY <1>1
  <2>1. Len(E) >= 20 /\ E = EncodeMessage(m)
    <3>1. \A n \in 28 .. 44 : n >= 20
      OBVIOUS
    <3> QED
      BY <2>0, <3>1
  <2>2. Len(E) >= HeaderSize /\ \A i \in 1 .. HeaderSize : E[i] = EncodeMessage(m)[i]
    BY <1>3, <2>1
  <2> QED
    BY <1>1, <2>2, HeaderLoads
<1> QED
  BY <1>1, <1>4, <1>5, <1>6, <1>7 DEF E, m

LEMMA SessionCut ==
  ASSUME NEW s \in 1 .. Len(Session), NEW bytes \in Seq(Nat), Begins(bytes, Session[s].body),
         Len(bytes) < Len(Session[s].body)
  PROVE  ParseMessage(bytes).status # "Ok"
<1>1. IsMessage(Messages[s]) /\ Session[s].body = EncodeMessage(Messages[s])
  BY SessionBytes
<1>2. ParseMessage(bytes) = Parsed("Truncated", 0, NoPayload)
  BY <1>1, CutMessageIsTruncated
<1> QED
  BY <1>2 DEF Parsed

-----------------------------------------------------------------------------
(* Frames one after the other. *)

Bodies(R) == [i \in DOMAIN R |-> R[i].body]

EndIn(R, k) == Len(UpTo(Bodies(R), k))

FromSessionSeq(R) == R \in Seq(Frame) /\ AllFromSession(R)

LEMMA BodiesFacts ==
  ASSUME NEW R, FromSessionSeq(R)
  PROVE  /\ Len(R) \in Nat /\ Bodies(R) \in Seq(Seq(Nat)) /\ Len(Bodies(R)) = Len(R)
         /\ \A i \in 1 .. Len(R) : /\ Bodies(R)[i] = R[i].body
                                   /\ R[i].seq \in 1 .. Len(Session) /\ R[i] = Session[R[i].seq]
         /\ BytesOf(R) = FlattenSeq(Bodies(R))
<1>1. Len(R) \in Nat /\ DOMAIN R = 1 .. Len(R)
  BY LenProperties DEF FromSessionSeq
<1>2. \A i \in 1 .. Len(R) : R[i].seq \in 1 .. Len(Session) /\ R[i] = Session[R[i].seq]
  BY DEF FromSessionSeq, AllFromSession, FromSession
<1>3. \A i \in 1 .. Len(R) : R[i].body \in Seq(Nat)
  BY <1>2, SessionBytes
<1>4. Bodies(R) \in [1 .. Len(R) -> Seq(Nat)]
  BY <1>1, <1>3 DEF Bodies
<1>5. Bodies(R) \in Seq(Seq(Nat)) /\ Len(Bodies(R)) = Len(R)
  BY <1>1, <1>4
<1>6. \A i \in 1 .. Len(R) : Bodies(R)[i] = R[i].body
  BY <1>1 DEF Bodies
<1>7. BytesOf(R) = FlattenSeq(Bodies(R))
  BY DEF BytesOf, Bodies
<1> QED
  BY <1>1, <1>2, <1>5, <1>6, <1>7

LEMMA EndFacts ==
  ASSUME NEW R, FromSessionSeq(R)
  PROVE  /\ BytesOf(R) \in Seq(Nat)
         /\ EndIn(R, 0) = 0 /\ EndIn(R, Len(R)) = Len(BytesOf(R))
         /\ \A k \in 0 .. Len(R) : EndIn(R, k) \in Nat
         /\ \A k \in 1 .. Len(R) :
              /\ EndIn(R, k) = EndIn(R, k - 1) + Len(R[k].body)
              /\ EndIn(R, k) <= Len(BytesOf(R))
              /\ \A i \in 1 .. Len(R[k].body) : BytesOf(R)[EndIn(R, k - 1) + i] = R[k].body[i]
<1> DEFINE F == Bodies(R)
<1>1. /\ Len(R) \in Nat /\ F \in Seq(Seq(Nat)) /\ Len(F) = Len(R)
      /\ \A i \in 1 .. Len(R) : F[i] = R[i].body
      /\ BytesOf(R) = FlattenSeq(F)
  BY BodiesFacts
<1>2. \A k : EndIn(R, k) = Len(UpTo(F, k))
  BY DEF EndIn
<1> HIDE DEF F
<1>3. /\ \A k \in 0 .. Len(F) : UpTo(F, k) \in Seq(Nat)
      /\ UpTo(F, 0) = <<>>
      /\ UpTo(F, Len(F)) = FlattenSeq(F) /\ FlattenSeq(F) \in Seq(Nat)
  BY <1>1, UpToFacts
<1>4. EndIn(R, 0) = 0 /\ EndIn(R, Len(R)) = Len(BytesOf(R)) /\ BytesOf(R) \in Seq(Nat)
  BY <1>1, <1>2, <1>3, EmptySeq
<1>5. ASSUME NEW k \in 0 .. Len(R) PROVE EndIn(R, k) \in Nat
  <2>1. UpTo(F, k) \in Seq(Nat)
    BY <1>1, <1>3
  <2> QED
    BY <1>2, <2>1, LenProperties
<1>6. ASSUME NEW k \in 1 .. Len(R)
      PROVE  /\ EndIn(R, k) = EndIn(R, k - 1) + Len(R[k].body)
             /\ EndIn(R, k) <= Len(BytesOf(R))
             /\ \A i \in 1 .. Len(R[k].body) : BytesOf(R)[EndIn(R, k - 1) + i] = R[k].body[i]
  <2>1. k \in 1 .. Len(F) /\ F[k] = R[k].body
    BY <1>1
  <2>2. /\ Len(UpTo(F, k)) = Len(UpTo(F, k - 1)) + Len(F[k])
        /\ Begins(UpTo(F, k), FlattenSeq(F))
        /\ \A i \in 1 .. Len(F[k]) : FlattenSeq(F)[Len(UpTo(F, k - 1)) + i] = F[k][i]
    BY <1>1, <2>1, PartInWhole, Zenon
  <2>3. Len(UpTo(F, k)) <= Len(FlattenSeq(F))
    BY <2>2 DEF Begins
  <2> QED
    BY <1>1, <1>2, <2>1, <2>2, <2>3
<1> QED
  BY <1>4, <1>5, <1>6

\* FrameEnd is where the frames end.
LEMMA FrameEndIsEnd ==
  ASSUME NEW R, FromSessionSeq(R), NEW k \in 0 .. Len(R)
  PROVE  FrameEnd(R, k) = EndIn(R, k)
<1> DEFINE Eq(f) == f = [n \in 0 .. k |-> IF n = 0 THEN 0 ELSE f[n - 1] + Len(R[n].body)]
           of == CHOOSE f : Eq(f)
           e == [n \in 0 .. k |-> EndIn(R, n)]
<1>1. FrameEnd(R, k) = of[k]
  BY DEF FrameEnd
<1>2. /\ EndIn(R, 0) = 0
      /\ \A n \in 0 .. Len(R) : EndIn(R, n) \in Nat
      /\ \A n \in 1 .. Len(R) : EndIn(R, n) = EndIn(R, n - 1) + Len(R[n].body)
      /\ Len(R) \in Nat
  BY EndFacts, BodiesFacts
<1>3. k \in Nat /\ k <= Len(R) /\ \A n \in 0 .. k : n \in 0 .. Len(R) /\ (n # 0 => n \in 1 .. Len(R) /\ n - 1 \in 0 .. k)
  BY <1>2
<1>4. Eq(e)
  BY <1>2, <1>3
<1>5. Eq(of)
  BY <1>4
<1> DEFINE Bad == {n \in Nat : n <= k /\ of[n] # EndIn(R, n)}
<1> HIDE DEF of
<1>6. Bad = {}
  <2> SUFFICES ASSUME Bad # {} PROVE FALSE
    OBVIOUS
  <2>1. PICK n \in Bad : \A x \in Bad : n <= x
    BY LeastNumber
  <2>2. n \in 0 .. k
    BY <1>3, <2>1
  <2>3. n # 0
    BY <1>2, <1>5, <2>1, <2>2
  <2>4. n - 1 \in Nat /\ n - 1 <= k /\ ~(n <= n - 1) /\ n \in 1 .. Len(R)
    BY <1>2, <1>3, <2>2, <2>3
  <2>5. of[n - 1] = EndIn(R, n - 1)
    BY <2>1, <2>4
  <2>6. of[n] = of[n - 1] + Len(R[n].body)
    BY <1>5, <2>2, <2>3
  <2> QED
    BY <1>2, <2>1, <2>4, <2>5, <2>6
<1>7. of[k] = EndIn(R, k)
  <2>1. k <= k
    BY <1>3
  <2> QED
    BY <1>3, <1>6, <2>1
<1> QED
  BY <1>1, <1>7

LEMMA GapPayloadIsFrames ==
  ASSUME NEW start \in Nat, NEW end \in Nat
  PROVE  FromSessionSeq(GapPayload(start, end))
BY GapPayloadFromSession DEF FromSessionSeq

\* Ends only grow.
LEMMA EndsGrow ==
  ASSUME NEW R, FromSessionSeq(R), NEW k \in 0 .. Len(R)
  PROVE  EndIn(R, k) <= Len(BytesOf(R)) /\ (EndIn(R, k) < Len(BytesOf(R)) => k < Len(R))
<1>1. /\ Len(R) \in Nat /\ EndIn(R, 0) = 0 /\ BytesOf(R) \in Seq(Nat) /\ EndIn(R, Len(R)) = Len(BytesOf(R))
      /\ \A j \in 1 .. Len(R) : EndIn(R, j) <= Len(BytesOf(R))
  BY EndFacts, BodiesFacts
<1>2. Len(BytesOf(R)) \in Nat
  BY <1>1, LenProperties
<1> QED
  BY <1>1, <1>2

\* After k frames of R, rest begins with frame s, which got holds to its end.
StartsFrame(rest, s, R, k, got) ==
  /\ k + 1 \in 0 .. Len(R) /\ R[k + 1] = Session[s]
  /\ rest \in Seq(Nat) /\ Begins(Session[s].body, rest)
  /\ EndIn(R, k + 1) = EndIn(R, k) + Len(Session[s].body)
  /\ EndIn(R, k + 1) <= Len(got)

(***************************************************************************)
(* The replay loop: where a frame starts, parse_message() finds that       *)
(* frame, or, when the connection ended inside it, too few bytes.          *)
(***************************************************************************)
LEMMA NextFrameParses ==
  ASSUME NEW R, FromSessionSeq(R), NEW got \in Seq(Nat), Begins(got, BytesOf(R)),
         NEW k \in 0 .. Len(R), EndIn(R, k) < Len(got),
         NEW rest, rest = SubSeq(got, EndIn(R, k) + 1, Len(got)),
         ParseMessage(rest).status = "Ok"
  PROVE  \E s \in 1 .. Len(Session) : StartsFrame(rest, s, R, k, got)
<1> DEFINE B == BytesOf(R)
           x == EndIn(R, k)
           j == k + 1
           s == R[j].seq
           E == Session[s].body
           w == Len(got) - x
<1>1. B \in Seq(Nat) /\ Len(B) \in Nat /\ Len(got) \in Nat /\ Len(got) <= Len(B) /\ \A i \in 1 .. Len(got) : B[i] = got[i]
  <2>1. B \in Seq(Nat)
    BY EndFacts
  <2> QED
    BY <2>1, LenProperties DEF Begins
<1>2. x \in Nat /\ Len(R) \in Nat /\ x < Len(got)
  BY EndFacts, BodiesFacts
<1>3. j \in 1 .. Len(R) /\ j \in 0 .. Len(R) /\ j - 1 = k
  <2>1. k < Len(R)
    <3>1. x < Len(B)
      BY <1>1, <1>2
    <3> QED
      BY <3>1, EndsGrow
  <2> QED
    BY <1>2, <2>1
<1>4. s \in 1 .. Len(Session) /\ R[j] = Session[s]
  BY <1>3, BodiesFacts
<1> HIDE DEF s
<1>5. E = R[j].body /\ E \in Seq(Nat) /\ Len(E) \in 28 .. 44
  BY <1>4, SessionBytes
<1>6. EndIn(R, j) = x + Len(E) /\ EndIn(R, j) <= Len(B) /\ \A i \in 1 .. Len(E) : B[x + i] = E[i]
  <2>1. /\ EndIn(R, j) = EndIn(R, j - 1) + Len(R[j].body)
        /\ EndIn(R, j) <= Len(BytesOf(R))
        /\ \A i \in 1 .. Len(R[j].body) : BytesOf(R)[EndIn(R, j - 1) + i] = R[j].body[i]
    BY <1>3, EndFacts, Zenon
  <2>2. j - 1 = k /\ R[j].body = E
    BY <1>3, <1>5
  <2> QED
    BY <2>1, <2>2
<1> HIDE DEF B, x, E, j
<1>7. w \in Nat /\ x + w = Len(got)
  BY <1>1, <1>2
<1> HIDE DEF w
<1>8. rest \in Seq(Nat) /\ Len(rest) = w /\ \A i \in 1 .. w : rest[i] = got[x + i]
  <2>1. rest = SubSeq(got, x + 1, x + w)
    BY <1>7 DEF x
  <2>2. x + w <= Len(got)
    BY <1>1, <1>7
  <2>3. /\ SubSeq(got, x + 1, x + w) \in Seq(Nat)
        /\ Len(SubSeq(got, x + 1, x + w)) = w
        /\ \A i \in 1 .. w : SubSeq(got, x + 1, x + w)[i] = got[x + i]
    <3>1. x \in Nat /\ w \in Nat /\ got \in Seq(Nat)
      BY <1>2, <1>7
    <3> QED
      BY <2>2, <3>1, Slice
  <2> QED
    BY <2>1, <2>3, Zenon
<1>9. ASSUME NEW i \in 1 .. w, i \in 1 .. Len(E) PROVE rest[i] = E[i]
  <2>1. x + i \in 1 .. Len(got)
    <3>1. \A a \in Nat, b \in Nat : \A n \in 1 .. b : a + n \in 1 .. (a + b)
      OBVIOUS
    <3> QED
      BY <1>2, <1>7, <3>1
  <2> QED
    BY <1>1, <1>6, <1>8, <1>9, <2>1
<1>10. Len(E) <= w
  <2> SUFFICES ASSUME ~(Len(E) <= w) PROVE FALSE
    OBVIOUS
  <2>1. w < Len(E) /\ w <= Len(E) /\ \A i \in 1 .. w : i \in 1 .. Len(E)
    BY <1>5, <1>7
  <2>2. Begins(rest, E) /\ Len(rest) < Len(E)
    BY <1>8, <1>9, <2>1 DEF Begins
  <2> QED
    BY <1>4, <1>8, <2>2, SessionCut DEF E
<1>11. Begins(E, rest)
  <2>1. \A i \in 1 .. Len(E) : i \in 1 .. w
    BY <1>5, <1>7, <1>10
  <2> QED
    BY <1>8, <1>9, <1>10, <2>1 DEF Begins
<1>12. EndIn(R, j) <= Len(got)
  <2>1. EndIn(R, j) = x + Len(E) /\ x + w = Len(got) /\ x \in Nat /\ w \in Nat /\ Len(E) <= w
    BY <1>2, <1>6, <1>7, <1>10
  <2>2. Len(E) \in Nat
    BY <1>5, LenProperties
  <2> QED
    BY <2>1, <2>2
<1> QED
  BY <1>3, <1>4, <1>6, <1>8, <1>11, <1>12 DEF E, j, x, StartsFrame

-----------------------------------------------------------------------------
(* The request and the response. *)

LEMMA ConcatFields ==
  ASSUME NEW H, NEW B, NEW T, IsStruct(H), IsStruct(B), T = H \o B, NEW k \in DOMAIN T
  PROVE  (\E j \in 1 .. Len(H) : T[k] = H[j]) \/ (\E j \in 1 .. Len(B) : T[k] = B[j])
<1>1. /\ IsStruct(T) /\ Len(T) = Len(H) + Len(B)
      /\ \A i \in 1 .. Len(H) : T[i] = H[i]
      /\ \A i \in 1 .. Len(B) : T[Len(H) + i] = B[i]
  BY ConcatStructs
<1>2. k \in 1 .. Len(T) /\ Len(H) \in Nat /\ Len(B) \in Nat
  BY <1>1, StructFields
<1>3. CASE k <= Len(H)
  <2>1. k \in 1 .. Len(H)
    BY <1>2, <1>3
  <2> QED
    BY <1>1, <2>1
<1>4. CASE ~(k <= Len(H))
  <2> DEFINE j == k - Len(H)
  <2>1. j \in 1 .. Len(B) /\ Len(H) + j = k
    BY <1>1, <1>2, <1>4
  <2> HIDE DEF j
  <2>2. T[k] = B[j]
    BY <1>1, <2>1
  <2> QED
    BY <2>1, <2>2
<1> QED
  BY <1>3, <1>4

LEMMA WellFormed ==
  ASSUME NEW msg, msg.type \in MsgTypes, msg.length = wire_length_for(msg.type),
         msg \in [Names(WireHeader) \cup Names(WireBody[msg.type]) -> Nat],
         \A j \in 1 .. Len(WireHeader) :
           WireHeader[j].name # "pad" => Fits(msg[WireHeader[j].name], WireHeader[j].width),
         \A j \in 1 .. Len(WireBody[msg.type]) :
           WireBody[msg.type][j].name # "pad" =>
             Fits(msg[WireBody[msg.type][j].name], WireBody[msg.type][j].width)
  PROVE  IsMessage(msg)
<1> DEFINE H == WireHeader
           B == WireBody[msg.type]
           T == H \o B
<1>1. IsStruct(H) /\ IsStruct(B) /\ MessageStruct(msg.type) = T
  BY WireHeaderFacts, WireBodyFacts DEF MessageStruct
<1>2. Names(T) = Names(H) \cup Names(B)
  BY <1>1, NamesConcat
<1>3. \A k \in DOMAIN T : (\E j \in 1 .. Len(H) : T[k] = H[j]) \/ (\E j \in 1 .. Len(B) : T[k] = B[j])
  <2> HIDE DEF H, B
  <2>1. T = H \o B
    OBVIOUS
  <2> HIDE DEF T
  <2> QED
    BY <1>1, <2>1, ConcatFields
<1>4. /\ \A j \in 1 .. Len(H) : H[j].name # "pad" => Fits(msg[H[j].name], H[j].width)
      /\ \A j \in 1 .. Len(B) : B[j].name # "pad" => Fits(msg[B[j].name], B[j].width)
      /\ msg \in [Names(H) \cup Names(B) -> Nat]
  OBVIOUS
<1> HIDE DEF H, B, T
<1>5. \A k \in DOMAIN T : T[k].name # "pad" => Fits(msg[T[k].name], T[k].width)
  BY <1>3, <1>4
<1> QED
  BY <1>1, <1>2, <1>4, <1>5 DEF IsMessage

LEMMA HeaderNames ==
  /\ Names(WireHeader) = {"type", "length", "seq", "ts_ns"}
  /\ \A j \in 1 .. Len(WireHeader) :
       \/ WireHeader[j].name = "pad"
       \/ WireHeader[j].name = "type" /\ WireHeader[j].width = 1
       \/ WireHeader[j].name = "length" /\ WireHeader[j].width = 2
       \/ WireHeader[j].name \in {"seq", "ts_ns"} /\ WireHeader[j].width = 8
<1> DEFINE T == WireHeader
<1>1. Len(T) = 5 /\ DOMAIN T = 1 .. 5
  BY WireHeaderFacts, StructFields
<1>2. T[1].width = 1 /\ T[2].width = 1 /\ T[3].width = 2 /\ T[4].width = 8 /\ T[5].width = 8
      /\ T[1].name = "type" /\ T[2].name = "pad" /\ T[3].name = "length" /\ T[4].name = "seq" /\ T[5].name = "ts_ns"
  BY DEF WireHeader, Field, Padding
<1> HIDE DEF T
<1>3. \A j \in 1 .. 5 : j = 1 \/ j = 2 \/ j = 3 \/ j = 4 \/ j = 5
  OBVIOUS
<1>4. 1 \in 1 .. 5 /\ 2 \in 1 .. 5 /\ 3 \in 1 .. 5 /\ 4 \in 1 .. 5 /\ 5 \in 1 .. 5
  OBVIOUS
<1>5. \A j \in 1 .. Len(T) : \/ T[j].name = "pad"
                             \/ T[j].name = "type" /\ T[j].width = 1
                             \/ T[j].name = "length" /\ T[j].width = 2
                             \/ T[j].name \in {"seq", "ts_ns"} /\ T[j].width = 8
  BY <1>1, <1>2, <1>3
<1>6. Names(T) \subseteq {"type", "length", "seq", "ts_ns"}
  BY <1>1, <1>5 DEF Names
<1>7. {"type", "length", "seq", "ts_ns"} \subseteq Names(T)
  BY <1>1, <1>2, <1>4 DEF Names
<1> QED
  BY <1>5, <1>6, <1>7 DEF T

LEMMA RangeNames ==
  /\ IsStruct(GapRange) /\ Names(GapRange) = {"start_seq", "end_seq"}
  /\ \A j \in 1 .. Len(GapRange) : GapRange[j].name \in {"start_seq", "end_seq"} /\ GapRange[j].width = 8
<1>1. GapRange = WireBody[6] /\ 6 \in MsgTypes
  BY DEF WireBody, MsgTypes
<1>2. IsStruct(GapRange)
  BY <1>1, WireBodyFacts
<1>3. Len(GapRange) = 2 /\ GapRange[1].name = "start_seq" /\ GapRange[2].name = "end_seq"
      /\ GapRange[1].width = 8 /\ GapRange[2].width = 8
  BY DEF GapRange, Field
<1>4. DOMAIN GapRange = 1 .. 2 /\ 1 \in 1 .. 2 /\ 2 \in 1 .. 2 /\ \A j \in 1 .. 2 : j = 1 \/ j = 2
  BY <1>2, <1>3, StructFields
<1>5. \A j \in 1 .. Len(GapRange) : GapRange[j].name \in {"start_seq", "end_seq"} /\ GapRange[j].width = 8
  BY <1>3, <1>4
<1>6. Names(GapRange) \subseteq {"start_seq", "end_seq"}
  BY <1>3, <1>4, <1>5 DEF Names
<1>7. {"start_seq", "end_seq"} \subseteq Names(GapRange)
  BY <1>3, <1>4 DEF Names
<1> QED
  BY <1>2, <1>5, <1>6, <1>7

LEMMA ResponseNames ==
  /\ Names(WireBody[7]) = {"start_seq", "end_seq", "payload_bytes"}
  /\ \A j \in 1 .. Len(WireBody[7]) :
       \/ WireBody[7][j].name = "pad"
       \/ WireBody[7][j].name \in {"start_seq", "end_seq"} /\ WireBody[7][j].width = 8
       \/ WireBody[7][j].name = "payload_bytes" /\ WireBody[7][j].width = 4
<1> DEFINE P == <<Field("payload_bytes", 4), Padding(4)>>
           T == GapRange \o P
<1>1. WireBody[7] = T /\ 7 \in MsgTypes
  BY DEF WireBody, MsgTypes
<1>2. IsStruct(P)
  <2>1. P \in Seq(Fields)
    BY FieldIsField, Tuple2 DEF FieldNames
  <2> QED
    BY <2>1 DEF IsStruct, Fields
<1>3. Len(P) = 2 /\ P[1].name = "payload_bytes" /\ P[1].width = 4 /\ P[2].name = "pad"
  BY DEF Field, Padding
<1> HIDE DEF P
<1>4. DOMAIN P = 1 .. 2 /\ 1 \in 1 .. 2 /\ 2 \in 1 .. 2 /\ \A j \in 1 .. 2 : j = 1 \/ j = 2
  BY <1>2, <1>3, StructFields
<1>5. Names(P) = {"payload_bytes"}
  <2>1. Names(P) \subseteq {"payload_bytes"}
    BY <1>3, <1>4 DEF Names
  <2>2. "payload_bytes" \in Names(P)
    BY <1>3, <1>4 DEF Names
  <2> QED
    BY <2>1, <2>2
<1>6. Names(T) = {"start_seq", "end_seq", "payload_bytes"}
  <2>1. Names(T) = Names(GapRange) \cup Names(P)
    BY <1>2, RangeNames, NamesConcat
  <2>2. Names(GapRange) = {"start_seq", "end_seq"}
    BY RangeNames
  <2> QED
    BY <1>5, <2>1, <2>2
<1>7. IsStruct(T)
  BY <1>2, RangeNames, ConcatStructs
<1>8. ASSUME NEW j \in 1 .. Len(T)
      PROVE  \/ T[j].name = "pad"
             \/ T[j].name \in {"start_seq", "end_seq"} /\ T[j].width = 8
             \/ T[j].name = "payload_bytes" /\ T[j].width = 4
  <2>1. j \in DOMAIN T
    BY <1>7, StructFields
  <2>2. (\E i \in 1 .. Len(GapRange) : T[j] = GapRange[i]) \/ (\E i \in 1 .. Len(P) : T[j] = P[i])
    BY <1>2, <2>1, RangeNames, ConcatFields
  <2>3. CASE \E i \in 1 .. Len(GapRange) : T[j] = GapRange[i]
    BY <2>3, RangeNames
  <2>4. CASE \E i \in 1 .. Len(P) : T[j] = P[i]
    BY <1>3, <1>4, <2>4
  <2> QED
    BY <2>2, <2>3, <2>4
<1> QED
  BY <1>1, <1>6, <1>8

Request(start, end) == WithHeader(MsgType.GapRequest, 0, 0, [start_seq |-> start, end_seq |-> end])

LEMMA HeaderFits ==
  ASSUME NEW msg, msg.type \in MsgTypes, msg.length = wire_length_for(msg.type), msg.seq = 0, msg.ts_ns = 0
  PROVE  \A j \in 1 .. Len(WireHeader) :
           WireHeader[j].name # "pad" => Fits(msg[WireHeader[j].name], WireHeader[j].width)
<1>1. Fits(msg.type, 1) /\ Fits(msg.length, 2)
  BY WidthsAssumption
<1>2. Fits(0, 8)
  BY ZeroFits
<1> QED
  BY <1>1, <1>2, HeaderNames

LEMMA RequestIsMessage ==
  ASSUME NEW a \in 0 .. Len(Session), NEW b \in 0 .. Len(Session)
  PROVE  IsMessage(Request(a, b)) /\ Request(a, b).type = 6 /\ Request(a, b).start_seq = a /\ Request(a, b).end_seq = b
<1> DEFINE m == Request(a, b)
<1>1. /\ m \in [{"type", "length", "seq", "ts_ns"} \cup {"start_seq", "end_seq"} -> Nat]
      /\ m.type = 6 /\ m.length = wire_length_for(6) /\ m.seq = 0 /\ m.ts_ns = 0
      /\ m.start_seq = a /\ m.end_seq = b
  <2> DEFINE h == [type |-> 6, length |-> wire_length_for(6), seq |-> 0, ts_ns |-> 0]
             r == [start_seq |-> a, end_seq |-> b]
  <2>1. m = Followed(h, r)
    BY DEF Request, WithHeader, MsgType
  <2>2. DOMAIN h = {"type", "length", "seq", "ts_ns"} /\ DOMAIN r = {"start_seq", "end_seq"}
    OBVIOUS
  <2>3. 6 \in Nat /\ wire_length_for(6) \in Nat /\ 0 \in Nat /\ a \in Nat /\ b \in Nat
    <3>1. 6 \in MsgTypes
      BY DEF MsgTypes
    <3>2. wire_length_for(6) \in 28 .. 44
      BY <3>1, LengthFacts
    <3>3. \A x \in 28 .. 44 : x \in Nat
      OBVIOUS
    <3>4. a \in Nat /\ b \in Nat
      BY SessionLen
    <3> QED
      BY <3>2, <3>3, <3>4
  <2>4. h["type"] = 6 /\ h["length"] = wire_length_for(6) /\ h["seq"] = 0 /\ h["ts_ns"] = 0
        /\ r["start_seq"] = a /\ r["end_seq"] = b
    OBVIOUS
  <2> HIDE DEF h, r, m
  <2>5. m = [name \in {"type", "length", "seq", "ts_ns"} \cup {"start_seq", "end_seq"} |->
               IF name \in {"type", "length", "seq", "ts_ns"} THEN h[name] ELSE r[name]]
    BY <2>1, <2>2 DEF Followed
  <2> QED
    BY <2>3, <2>4, <2>5
<1> HIDE DEF m
<1>2. WireBody[6] = GapRange /\ 6 \in MsgTypes
  BY DEF WireBody, MsgTypes
<1>3. Fits(a, 8) /\ Fits(b, 8)
  BY WidthsAssumption
<1>4. \A j \in 1 .. Len(GapRange) : GapRange[j].name # "pad" => Fits(m[GapRange[j].name], GapRange[j].width)
  BY <1>1, <1>3, RangeNames
<1>5. \A j \in 1 .. Len(WireHeader) : WireHeader[j].name # "pad" => Fits(m[WireHeader[j].name], WireHeader[j].width)
  BY <1>1, <1>2, HeaderFits
<1>6. m \in [Names(WireHeader) \cup Names(WireBody[6]) -> Nat]
  BY <1>1, <1>2, HeaderNames, RangeNames
<1>7. IsMessage(m)
  BY <1>1, <1>2, <1>4, <1>5, <1>6, WellFormed
<1> QED
  BY <1>1, <1>7 DEF m

\* What the server reads from the request.
LEMMA RequestLoads ==
  ASSUME NEW a \in 0 .. Len(Session), NEW b \in 0 .. Len(Session)
  PROVE  DecodeStruct(WireBody[MsgType.GapRequest], EncodeMessage(Request(a, b)), HeaderSize)
           = [start_seq |-> a, end_seq |-> b]
<1> DEFINE m == Request(a, b)
           E == EncodeMessage(m)
<1>1. IsMessage(m) /\ m.type = 6 /\ m.start_seq = a /\ m.end_seq = b
  BY RequestIsMessage
<1> HIDE DEF m
<1>2. E \in Seq(Nat)
  BY <1>1, EncodedFacts
<1>3. Begins(E, E)
  BY <1>2, BeginsItself
<1>4. DecodeStruct(WireBody[m.type], E, HeaderSize) = [name \in Names(WireBody[m.type]) |-> m[name]]
  BY <1>1, <1>2, <1>3, BodyLoads
<1>5. MsgType.GapRequest = 6 /\ WireBody[6] = GapRange /\ Names(GapRange) = {"start_seq", "end_seq"}
  BY RangeNames DEF MsgType, WireBody
<1>6. DecodeStruct(WireBody[MsgType.GapRequest], E, HeaderSize) = [name \in {"start_seq", "end_seq"} |-> m[name]]
  BY <1>1, <1>4, <1>5
<1>7. [name \in {"start_seq", "end_seq"} |-> m[name]] = [start_seq |-> a, end_seq |-> b]
  BY <1>1
<1> QED
  BY <1>6, <1>7 DEF m

Response(n, req) == WithHeader(MsgType.GapResponse, 0, 0, Followed([payload_bytes |-> n], req))

LEMMA ResponseIsMessage ==
  ASSUME NEW a \in 0 .. Len(Session), NEW b \in 0 .. Len(Session), NEW n, Fits(n, 4)
  PROVE  LET m == Response(n, [start_seq |-> a, end_seq |-> b])
         IN  IsMessage(m) /\ m.type = 7 /\ m.payload_bytes = n
<1> DEFINE r == [start_seq |-> a, end_seq |-> b]
           m == Response(n, r)
<1>1. /\ m \in [{"type", "length", "seq", "ts_ns"} \cup {"start_seq", "end_seq", "payload_bytes"} -> Nat]
      /\ m.type = 7 /\ m.length = wire_length_for(7) /\ m.seq = 0 /\ m.ts_ns = 0
      /\ m.start_seq = a /\ m.end_seq = b /\ m.payload_bytes = n
  <2> DEFINE h == [type |-> 7, length |-> wire_length_for(7), seq |-> 0, ts_ns |-> 0]
             p == [payload_bytes |-> n]
             f == Followed(p, r)
  <2>1. m = Followed(h, f)
    BY DEF Response, WithHeader, MsgType
  <2>2. DOMAIN h = {"type", "length", "seq", "ts_ns"} /\ DOMAIN r = {"start_seq", "end_seq"} /\ DOMAIN p = {"payload_bytes"}
    OBVIOUS
  <2>3. 7 \in Nat /\ wire_length_for(7) \in Nat /\ 0 \in Nat /\ a \in Nat /\ b \in Nat /\ n \in Nat
    <3>1. 7 \in MsgTypes
      BY DEF MsgTypes
    <3>2. wire_length_for(7) \in 28 .. 44
      BY <3>1, LengthFacts
    <3>3. \A x \in 28 .. 44 : x \in Nat
      OBVIOUS
    <3>4. a \in Nat /\ b \in Nat
      BY SessionLen
    <3> QED
      BY <3>2, <3>3, <3>4 DEF Fits
  <2>4. h["type"] = 7 /\ h["length"] = wire_length_for(7) /\ h["seq"] = 0 /\ h["ts_ns"] = 0
        /\ r["start_seq"] = a /\ r["end_seq"] = b /\ p["payload_bytes"] = n
    OBVIOUS
  <2> HIDE DEF h, r, p
  <2>5. f = [name \in {"payload_bytes"} \cup {"start_seq", "end_seq"} |->
               IF name \in {"payload_bytes"} THEN p[name] ELSE r[name]]
    BY <2>2 DEF Followed
  <2>6. DOMAIN f = {"start_seq", "end_seq", "payload_bytes"} /\ f["payload_bytes"] = n
        /\ f["start_seq"] = a /\ f["end_seq"] = b
    BY <2>4, <2>5
  <2> HIDE DEF m, f
  <2>7. m = [name \in {"type", "length", "seq", "ts_ns"} \cup {"start_seq", "end_seq", "payload_bytes"} |->
               IF name \in {"type", "length", "seq", "ts_ns"} THEN h[name] ELSE f[name]]
    BY <2>1, <2>2, <2>6 DEF Followed
  <2> QED
    BY <2>3, <2>4, <2>6, <2>7
<1> HIDE DEF m
<1>2. 7 \in MsgTypes
  BY DEF MsgTypes
<1>3. Fits(a, 8) /\ Fits(b, 8)
  BY WidthsAssumption
<1>4. \A j \in 1 .. Len(WireBody[7]) : WireBody[7][j].name # "pad" => Fits(m[WireBody[7][j].name], WireBody[7][j].width)
  BY <1>1, <1>3, ResponseNames
<1>5. \A j \in 1 .. Len(WireHeader) : WireHeader[j].name # "pad" => Fits(m[WireHeader[j].name], WireHeader[j].width)
  BY <1>1, <1>2, HeaderFits
<1>6. m \in [Names(WireHeader) \cup Names(WireBody[7]) -> Nat]
  BY <1>1, HeaderNames, ResponseNames
<1>7. IsMessage(m)
  BY <1>1, <1>2, <1>4, <1>5, <1>6, WellFormed
<1> QED
  BY <1>1, <1>7 DEF m

\* What the client reads from a response that is followed by the payload.
LEMMA ResponseLoads ==
  ASSUME NEW m, IsMessage(m), m.type = 7, NEW tail \in Seq(Nat), NEW bytes, bytes = EncodeMessage(m) \o tail
  PROVE  /\ bytes \in Seq(Nat)
         /\ DecodeStruct(WireBody[MsgType.GapResponse], bytes, HeaderSize).payload_bytes = m.payload_bytes
         /\ SubSeq(bytes, wire_length_for(MsgType.GapResponse) + 1, Len(bytes)) = tail
<1> DEFINE E == EncodeMessage(m)
           n == wire_length_for(MsgType.GapResponse)
           w == Len(tail)
<1>1. E \in Seq(Nat) /\ Len(E) = n /\ n \in Nat /\ MsgType.GapResponse = 7
  <2>1. MsgType.GapResponse = 7
    BY DEF MsgType
  <2>2. E \in Seq(Nat) /\ Len(E) = m.length /\ m.length \in 28 .. 44 /\ m.length = wire_length_for(m.type)
    BY EncodedFacts
  <2> QED
    BY <2>1, <2>2
<1> HIDE DEF E, n
<1>2. bytes = E \o tail
  BY DEF E
<1>3. bytes \in Seq(Nat) /\ Len(bytes) = n + w /\ w \in Nat /\ \A i \in 1 .. n : bytes[i] = E[i]
  <2>1. Len(tail) \in Nat
    BY LenProperties
  <2>2. E \in Seq(Nat) /\ tail \in Seq(Nat)
    BY <1>1
  <2>3. /\ E \o tail \in Seq(Nat) /\ Len(E \o tail) = Len(E) + Len(tail)
        /\ \A i \in 1 .. Len(E) + Len(tail) : (E \o tail)[i] = IF i <= Len(E) THEN E[i] ELSE tail[i - Len(E)]
    BY <2>2, ConcatProperties
  <2>4. \A i \in 1 .. n : i \in 1 .. Len(E) + Len(tail) /\ i <= Len(E)
    BY <1>1, <2>1
  <2>5. \A i \in 1 .. n : (E \o tail)[i] = E[i]
    BY <2>3, <2>4
  <2> QED
    BY <1>1, <1>2, <2>1, <2>3, <2>5
<1>4. \A i \in 1 .. w : bytes[n + i] = tail[i]
  <2>1. ASSUME NEW i \in 1 .. w PROVE bytes[n + i] = tail[i]
    BY <1>1, <1>2, <1>3
  <2> QED
    BY <2>1
<1>5. Begins(E, bytes)
  BY <1>1, <1>3 DEF Begins
<1>6. DecodeStruct(WireBody[m.type], bytes, HeaderSize) = [name \in Names(WireBody[m.type]) |-> m[name]]
  BY <1>3, <1>5, BodyLoads DEF E
<1>7. DecodeStruct(WireBody[MsgType.GapResponse], bytes, HeaderSize)
        = [name \in {"start_seq", "end_seq", "payload_bytes"} |-> m[name]]
  BY <1>1, <1>6, ResponseNames
<1>8. DecodeStruct(WireBody[MsgType.GapResponse], bytes, HeaderSize).payload_bytes = m.payload_bytes
  BY <1>7
<1> DEFINE p == SubSeq(bytes, n + 1, n + w)
<1>9. p \in Seq(Nat) /\ Len(p) = w /\ \A i \in 1 .. w : p[i] = bytes[n + i]
  <2>1. n + w <= Len(bytes) /\ n \in Nat /\ w \in Nat
    BY <1>1, <1>3
  <2> QED
    BY <1>3, <2>1, Slice, Zenon
<1>10. p = SubSeq(bytes, n + 1, Len(bytes))
  BY <1>3
<1> HIDE DEF p
<1>11. p = tail
  BY <1>3, <1>4, <1>9, SeqEqual
<1> QED
  BY <1>3, <1>8, <1>10, <1>11 DEF n

-----------------------------------------------------------------------------
(* The inductive invariant. *)

MessageSet == {Messages[s] : s \in 1 .. Len(Session)}

\* What was handled is the beginning of the session, and ready is what comes next.
HandledMessages ==
  /\ handled \in Seq(MessageSet)
  /\ Len(handled) + Len(ready) + 1 = next_expected
  /\ \A i \in 1 .. Len(handled) : handled[i] = Messages[i]

\* The tracker holds frames of the session, as in RecoveringFeedProofs.
CoreInv == TrackerInv /\ BufferInv /\ gap_end <= Len(Session) /\ HandledMessages

\* The whole payload for the current request.
PayloadBytes == BytesOf(Requested)

\* What the connection carries in each of its states, and how far its bytes got: the
\* request, the response with the payload behind it, the payload cut in two by recv(),
\* and the part that was received, replayed up to the end of a frame.
StreamInv ==
  /\ conn = Conn(conn.state, conn.start, conn.end, conn.frames)
  /\ conn.state = "requested" =>
       \E a, b \in 0 .. Len(Session) : conn.frames = EncodeMessage(Request(a, b))
  /\ conn.state \in {"answered", "open", "closed"} =>
       conn.start \in 0 .. Len(Session) /\ conn.end \in 0 .. Len(Session)
  /\ conn.state = "answered" =>
       \E m : /\ IsMessage(m) /\ m.type = 7 /\ m.payload_bytes = Len(PayloadBytes)
              /\ conn.frames = EncodeMessage(m) \o PayloadBytes
  /\ conn.state = "open" =>
       /\ payload \in Seq(Nat) /\ conn.frames \in Seq(Nat) /\ payload \o conn.frames = PayloadBytes
       /\ nbytes = Len(PayloadBytes) /\ off = 0
  /\ conn.state = "closed" =>
       /\ payload \in Seq(Nat) /\ Begins(payload, PayloadBytes)
       /\ nbytes = Len(PayloadBytes)
       /\ \E k \in 0 .. Len(Requested) : off = EndIn(Requested, k) /\ off <= Len(payload)
  /\ conn.state \notin {"open", "closed"} => payload = <<>> /\ nbytes = 0 /\ off = 0

\* Where the feed thread is tells the state of the connection.
PhaseInv ==
  /\ pc = "recv" <=> conn.state = "open"
  /\ pc = "replay" <=> conn.state = "closed"
  /\ pc = "await" <=> conn.state \in {"requested", "answered", "reset"}
  /\ pc = "select" => ready = <<>>

WireInv == CoreInv /\ StreamInv /\ PhaseInv

LEMMA CoreTypes ==
  ASSUME CoreInv
  PROVE  /\ Len(Session) \in Nat /\ next_expected \in Nat /\ Len(ready) \in Nat /\ Len(handled) \in Nat
         /\ gap_start \in Nat /\ gap_end \in Nat /\ ready \in Seq(Frame) /\ handled \in Seq(MessageSet)
         /\ gap_start \in 0 .. Len(Session) /\ gap_end \in 0 .. Len(Session)
<1>1. /\ next_expected \in Nat /\ ready \in Seq(Frame) /\ gap_start \in Nat /\ gap_end \in Nat
      /\ handled \in Seq(MessageSet) /\ Len(Session) \in Nat /\ gap_end <= Len(Session)
      /\ gap_start # 0 => gap_start <= next_expected /\ next_expected <= gap_end
  BY SessionLen DEF CoreInv, TrackerInv, TrackerTypeOK, HandledMessages, GapCoversExpected
<1>2. Len(ready) \in Nat /\ Len(handled) \in Nat
  BY <1>1, LenProperties
<1>3. gap_end \in 0 .. Len(Session) /\ gap_start \in 0 .. Len(Session)
  BY <1>1
<1> QED
  BY <1>1, <1>2, <1>3

LEMMA CoreUnchanged ==
  ASSUME CoreInv, UNCHANGED trackerVars, UNCHANGED handled
  PROVE  CoreInv'
BY DEF CoreInv, TrackerInv, BufferInv, HandledMessages, trackerVars, statVars, gapVars,
       historyVars, TrackerTypeOK, WindowAhead, GapCoversExpected, ReadyIsConsecutive,
       WindowFromSession, AllFromSession, FromSession, Occupied

LEMMA PushKeepsCore ==
  ASSUME CoreInv, NEW s \in 1 .. Len(Session), Push(Session[s]), UNCHANGED handled
  PROVE  CoreInv'
<1>1. Session[s] \in Frame /\ Session[s].seq = s /\ FromSession(Session[s])
  BY SessionFrame
<1>2. TrackerInv'
  BY <1>1, PushKeepsInv DEF CoreInv
<1>3. BufferInv' /\ Len(ready') - next_expected' = Len(ready) - next_expected
  BY <1>1, PushKeepsBuffers DEF CoreInv
<1>4. next_expected \in Nat /\ Len(ready) \in Nat /\ Len(handled) \in Nat /\ gap_end \in Nat /\ Len(Session) \in Nat
  BY CoreTypes
<1>5. next_expected' \in Nat /\ Len(ready') \in Nat
  <2>1. next_expected' \in Nat /\ ready' \in Seq(Frame)
    BY <1>2 DEF TrackerInv, TrackerTypeOK
  <2> QED
    BY <2>1, LenProperties
<1>6. Len(handled) + Len(ready) + 1 = next_expected
  BY DEF CoreInv, HandledMessages
<1>7. Len(handled) + Len(ready') + 1 = next_expected'
  BY <1>3, <1>4, <1>5, <1>6
<1>8. HandledMessages'
  BY <1>7 DEF CoreInv, HandledMessages
<1>9. gap_end' <= Len(Session)
  <2>1. gap_end <= Len(Session) /\ s - 1 <= Len(Session) /\ 0 <= Len(Session)
    BY <1>4 DEF CoreInv
  <2>2. gap_end' \in {0, gap_end, s - 1}
    BY <1>1 DEF Push, PushExpected, PushOld, PushAhead, WidenGap, gapVars
  <2> QED
    BY <2>1, <2>2
<1> QED
  BY <1>2, <1>3, <1>8, <1>9 DEF CoreInv

LEMMA StreamUnchanged ==
  ASSUME StreamInv, UNCHANGED <<conn, payload, nbytes, off>>
  PROVE  StreamInv'
<1>1. Requested' = Requested
  BY DEF Requested
<1>2. PayloadBytes' = PayloadBytes
  BY <1>1 DEF PayloadBytes
<1> QED
  BY <1>1, <1>2 DEF StreamInv

\* Bytes that begin with a frame of the session push that frame.
LEMMA PushBytesPushes ==
  ASSUME NEW s \in 1 .. Len(Session), NEW bytes \in Seq(Nat), Begins(Session[s].body, bytes),
         PushBytes(SubSeq(bytes, 1, ParseMessage(bytes).consumed))
  PROVE  /\ Push(Session[s]) /\ ParseMessage(bytes).consumed = Len(Session[s].body)
         /\ ParseMessage(bytes).payload = Messages[s]
<1>1. /\ ParseMessage(bytes) = Parsed("Ok", Len(Session[s].body), Messages[s])
      /\ SubSeq(bytes, 1, Len(Session[s].body)) = Session[s].body
      /\ StoresFrame(Session[s].body)
      /\ [seq |-> decode_header(Session[s].body).seq, body |-> Session[s].body] = Session[s]
  BY SessionParses
<1>2. ParseMessage(bytes).consumed = Len(Session[s].body) /\ ParseMessage(bytes).payload = Messages[s]
  BY <1>1 DEF Parsed
<1>3. PushBytes(Session[s].body)
  BY <1>1, <1>2
<1> DEFINE f == [seq |-> decode_header(Session[s].body).seq, body |-> Session[s].body]
<1>4. Push(f)
  BY <1>1, <1>3 DEF PushBytes
<1>5. f = Session[s]
  BY <1>1
<1> HIDE DEF f
<1>6. Push(Session[s])
  BY <1>4, <1>5
<1> QED
  BY <1>2, <1>6

LEMMA DatagramPushes ==
  ASSUME NEW d \in Datagrams, ReceiveDatagram(d)
  PROVE  \E s \in 1 .. Len(Session) : Push(Session[s]) /\ ParseMessage(d).payload = Messages[s]
<1>1. d \in Seq(Nat) /\ ParseMessage(d).status = "Ok" /\ PushBytes(SubSeq(d, 1, ParseMessage(d).consumed))
  BY DatagramsAssumption DEF ReceiveDatagram
<1>2. PICK s \in DOMAIN Session : IsPrefix(Session[s].body, d)
  BY <1>1, DatagramsAssumption
<1>3. s \in 1 .. Len(Session)
  BY SessionLen
<1>4. Begins(Session[s].body, d)
  <2> DEFINE E == Session[s].body
             n == Len(E)
  <2>1. E \in Seq(Nat) /\ n \in Nat /\ Len(d) \in Nat
    BY <1>1, <1>3, SessionBytes, LenProperties
  <2>2. n <= Len(d) /\ SubSeq(E, 1, n) = SubSeq(d, 1, n)
    BY <1>2 DEF IsPrefix
  <2> HIDE DEF E
  <2>3. SubSeq(E, 1, n) = E
    BY <2>1, SubSeqFull
  <2>4. \A i \in 1 .. n : SubSeq(d, 1, n)[i] = d[i]
    BY <1>1, <2>1, <2>2
  <2>5. \A i \in 1 .. n : d[i] = E[i]
    BY <2>2, <2>3, <2>4
  <2> QED
    BY <2>2, <2>5 DEF Begins, E
<1>5. Push(Session[s]) /\ ParseMessage(d).payload = Messages[s]
  BY <1>1, <1>3, <1>4, PushBytesPushes
<1> QED
  BY <1>3, <1>5

LEMMA ReceiveDatagramKeepsInv ==
  ASSUME WireInv, NEW d \in Datagrams, ReceiveDatagram(d)
  PROVE  WireInv'
<1>1. PICK s \in 1 .. Len(Session) : Push(Session[s])
  BY DatagramPushes
<1>2. CoreInv'
  BY <1>1, PushKeepsCore DEF WireInv, ReceiveDatagram
<1>3. StreamInv'
  BY StreamUnchanged DEF WireInv, ReceiveDatagram
<1>4. PhaseInv'
  BY DEF WireInv, PhaseInv, ReceiveDatagram
<1> QED
  BY <1>2, <1>3, <1>4 DEF WireInv

LEMMA FlattenSingles ==
  ASSUME NEW S, NEW F \in Seq(Seq(S)), \A k \in 1 .. Len(F) : Len(F[k]) = 1
  PROVE  /\ FlattenSeq(F) \in Seq(S) /\ Len(FlattenSeq(F)) = Len(F)
         /\ \A k \in 1 .. Len(F) : FlattenSeq(F)[k] = F[k][1]
<1>1. Len(F) \in Nat
  BY LenProperties
<1>2. UpTo(F, 0) = <<>> /\ UpTo(F, Len(F)) = FlattenSeq(F) /\ FlattenSeq(F) \in Seq(S)
  BY UpToFacts
<1>3. ASSUME NEW k \in 1 .. Len(F)
      PROVE  /\ Len(UpTo(F, k)) = Len(UpTo(F, k - 1)) + 1
             /\ FlattenSeq(F)[Len(UpTo(F, k - 1)) + 1] = F[k][1]
  <2>1. /\ Len(UpTo(F, k)) = Len(UpTo(F, k - 1)) + Len(F[k])
        /\ \A i \in 1 .. Len(F[k]) : FlattenSeq(F)[Len(UpTo(F, k - 1)) + i] = F[k][i]
    BY PartInWhole
  <2>2. Len(F[k]) = 1 /\ 1 \in 1 .. 1
    OBVIOUS
  <2> QED
    BY <2>1, <2>2
<1> DEFINE Bad == {k \in Nat : k <= Len(F) /\ Len(UpTo(F, k)) # k}
<1>4. Bad = {}
  <2> SUFFICES ASSUME Bad # {} PROVE FALSE
    OBVIOUS
  <2>1. PICK k \in Bad : \A x \in Bad : k <= x
    BY LeastNumber
  <2>2. k # 0
    BY <1>2, <2>1
  <2>3. k \in 1 .. Len(F) /\ k - 1 \in Nat /\ k - 1 <= Len(F) /\ ~(k <= k - 1)
    BY <1>1, <2>1, <2>2
  <2>4. Len(UpTo(F, k - 1)) = k - 1
    BY <2>1, <2>3
  <2>5. Len(UpTo(F, k)) = (k - 1) + 1
    BY <1>3, <2>3, <2>4
  <2> QED
    BY <2>1, <2>3, <2>5
<1>5. \A k \in 0 .. Len(F) : Len(UpTo(F, k)) = k
  <2>1. \A k \in 0 .. Len(F) : k \in Nat /\ k <= Len(F)
    BY <1>1
  <2> QED
    BY <1>4, <2>1
<1>6. Len(FlattenSeq(F)) = Len(F)
  <2>1. Len(F) \in 0 .. Len(F)
    BY <1>1
  <2> QED
    BY <1>2, <1>5, <2>1
<1>7. ASSUME NEW k \in 1 .. Len(F) PROVE FlattenSeq(F)[k] = F[k][1]
  <2>1. k - 1 \in 0 .. Len(F) /\ (k - 1) + 1 = k
    BY <1>1
  <2>2. Len(UpTo(F, k - 1)) + 1 = k
    BY <1>5, <2>1
  <2> QED
    BY <1>3, <2>2
<1> QED
  BY <1>2, <1>6, <1>7

LEMMA ReadyIsSession ==
  ASSUME CoreInv, NEW i \in 1 .. Len(ready)
  PROVE  Len(handled) + i \in 1 .. Len(Session) /\ ready[i] = Session[Len(handled) + i]
<1> DEFINE n == Len(handled)
           m == Len(ready)
<1>1. n \in Nat /\ m \in Nat /\ next_expected \in Nat /\ Len(Session) \in Nat
  BY CoreTypes
<1>2. /\ n + m + 1 = next_expected /\ next_expected <= Len(Session) + 1
      /\ ready[i].seq = next_expected - (m + 1 - i) /\ FromSession(ready[i])
  BY DEF CoreInv, HandledMessages, TrackerInv, ReadyIsConsecutive, BufferInv, AllFromSession
<1> HIDE DEF n, m
<1>3. i \in 1 .. m
  BY DEF m
<1>4. next_expected - (m + 1 - i) = n + i /\ n + i \in 1 .. Len(Session)
  BY <1>1, <1>2, <1>3
<1> QED
  BY <1>2, <1>4 DEF FromSession, n

LEMMA DrainFramesKeepsInv ==
  ASSUME WireInv, DrainFrames
  PROVE  WireInv'
<1> DEFINE n == Len(handled)
           m == Len(ready)
           F == [i \in DOMAIN ready |-> Accepted(ParseMessage(ready[i].body))]
           q == FlattenSeq(F)
<1>1. /\ n \in Nat /\ m \in Nat /\ next_expected \in Nat /\ Len(Session) \in Nat /\ ready \in Seq(Frame)
      /\ handled \in Seq(MessageSet)
  BY CoreTypes DEF WireInv
<1>2. n + m + 1 = next_expected /\ \A i \in 1 .. n : handled[i] = Messages[i]
  BY DEF WireInv, CoreInv, HandledMessages
<1>3. ASSUME NEW i \in 1 .. m
      PROVE  /\ n + i \in 1 .. Len(Session)
             /\ Accepted(ParseMessage(ready[i].body)) = <<Messages[n + i]>>
             /\ Messages[n + i] \in MessageSet
  <2>1. n + i \in 1 .. Len(Session)
    BY ReadyIsSession DEF WireInv
  <2>2. ready[i] = Session[n + i]
    BY ReadyIsSession DEF WireInv
  <2> DEFINE s == n + i
             E == Session[s].body
  <2>3. s \in 1 .. Len(Session) /\ ready[i].body = E
    BY <2>1, <2>2
  <2> HIDE DEF s
  <2>4. E \in Seq(Nat)
    BY <2>3, SessionBytes
  <2>5. Begins(E, E)
    BY <2>4, BeginsItself
  <2>6. ParseMessage(E) = Parsed("Ok", Len(E), Messages[s])
    BY <2>3, <2>4, <2>5, SessionParses
  <2>7. Accepted(ParseMessage(E)) = <<Messages[s]>>
    BY <2>6 DEF Accepted, Parsed
  <2>8. Messages[s] \in MessageSet
    BY <2>3 DEF MessageSet
  <2> QED
    BY <2>1, <2>3, <2>7, <2>8 DEF s
<1>4. DOMAIN ready = 1 .. m
  BY <1>1
<1>5. F \in Seq(Seq(MessageSet)) /\ Len(F) = m /\ \A i \in 1 .. m : F[i] = <<Messages[n + i]>>
  <2>1. \A i \in 1 .. m : F[i] = <<Messages[n + i]>>
    BY <1>3, <1>4
  <2>2. \A i \in 1 .. m : <<Messages[n + i]>> \in Seq(MessageSet)
    BY <1>3
  <2>3. F \in [1 .. m -> Seq(MessageSet)]
    BY <1>4, <2>1, <2>2
  <2>4. F \in Seq(Seq(MessageSet)) /\ Len(F) = m
    BY <1>1, <2>3
  <2> QED
    BY <2>1, <2>4
<1>a. handled' = handled \o q
  BY DEF DrainFrames
<1> HIDE DEF F
<1>6. q \in Seq(MessageSet) /\ Len(q) = m /\ \A i \in 1 .. m : q[i] = Messages[n + i]
  <2>0. \A x : Len(<<x>>) = 1 /\ <<x>>[1] = x
    OBVIOUS
  <2>1. \A k \in 1 .. Len(F) : Len(F[k]) = 1 /\ F[k][1] = Messages[n + k]
    BY <1>5, <2>0, Zenon
  <2>2. q \in Seq(MessageSet) /\ Len(q) = Len(F) /\ \A k \in 1 .. Len(F) : q[k] = F[k][1]
    BY <1>5, <2>1, FlattenSingles
  <2> QED
    BY <1>5, <2>1, <2>2
<1> HIDE DEF q
<1>7. handled' \in Seq(MessageSet) /\ Len(handled') = n + m
  <2>1. handled \in Seq(MessageSet) /\ q \in Seq(MessageSet) /\ Len(q) = m
    BY <1>1, <1>6
  <2>2. (handled \o q) \in Seq(MessageSet) /\ Len(handled \o q) = Len(handled) + Len(q)
    BY <2>1, ConcatProperties
  <2> QED
    BY <1>a, <2>1, <2>2
<1>8. ASSUME NEW i \in 1 .. (n + m) PROVE (handled \o q)[i] = Messages[i]
  <2>1. CASE i <= n
    BY <1>1, <1>2, <1>6, <2>1
  <2>2. CASE ~(i <= n)
    <3> DEFINE j == i - n
    <3>1. j \in 1 .. m /\ n + j = i
      BY <1>1, <2>2
    <3>2. (handled \o q)[i] = q[j]
      BY <1>1, <1>6, <2>2
    <3> HIDE DEF j
    <3> QED
      BY <1>6, <3>1, <3>2
  <2> QED
    BY <2>1, <2>2
<1>9. ready' = <<>> /\ next_expected' = next_expected /\ window' = window /\ gap_end' = gap_end
  BY DEF DrainFrames, ClearReady, gapVars
<1>10. HandledMessages'
  <2>1. Len(handled') + 0 + 1 = next_expected
    BY <1>1, <1>2, <1>7
  <2>2. \A i \in 1 .. Len(handled') : handled'[i] = Messages[i]
    BY <1>7, <1>8, <1>a
  <2> QED
    BY <1>7, <1>9, <2>1, <2>2 DEF HandledMessages
<1>11. TrackerInv'
  BY ClearReadyKeepsInv DEF DrainFrames, WireInv, CoreInv
<1>12. BufferInv' /\ gap_end' <= Len(Session)
  BY <1>9 DEF WireInv, CoreInv, BufferInv, WindowFromSession, AllFromSession, FromSession, Occupied
<1>13. StreamInv'
  BY StreamUnchanged DEF WireInv, DrainFrames
<1>14. PhaseInv'
  BY <1>9 DEF WireInv, PhaseInv, DrainFrames
<1> QED
  BY <1>10, <1>11, <1>12, <1>13, <1>14 DEF WireInv, CoreInv

LEMMA RequestedFacts ==
  ASSUME NEW a \in 0 .. Len(Session), NEW b \in 0 .. Len(Session)
  PROVE  /\ FromSessionSeq(GapPayload(a, b)) /\ BytesOf(GapPayload(a, b)) \in Seq(Nat)
         /\ Len(BytesOf(GapPayload(a, b))) \in Nat /\ Fits(Len(BytesOf(GapPayload(a, b))), 4)
<1>1. a \in Nat /\ b \in Nat
  BY SessionLen
<1>2. FromSessionSeq(GapPayload(a, b))
  BY <1>1, GapPayloadIsFrames
<1>3. BytesOf(GapPayload(a, b)) \in Seq(Nat)
  BY <1>2, EndFacts
<1>4. Fits(Len(BytesOf(GapPayload(a, b))), 4)
  BY WidthsAssumption
<1> QED
  BY <1>2, <1>3, <1>4, LenProperties

\* Steps that leave the tracker alone.
LEMMA SameCore ==
  ASSUME WireInv, UNCHANGED trackerVars, UNCHANGED handled
  PROVE  CoreInv' /\ ready' = ready
BY CoreUnchanged DEF WireInv, trackerVars

LEMMA SendRequestKeepsInv ==
  ASSUME WireInv, SendRequest
  PROVE  WireInv'
<1>1. CoreInv' /\ ready' = ready
  BY SameCore DEF SendRequest
<1>2. gap_start \in 0 .. Len(Session) /\ gap_end \in 0 .. Len(Session)
  BY CoreTypes DEF WireInv
<1>3. /\ conn' = Conn("requested", 0, 0, EncodeMessage(Request(gap_start, gap_end)))
      /\ payload' = payload /\ nbytes' = nbytes /\ off' = off /\ pc = "recover" /\ pc' = "await"
  BY DEF SendRequest, Request
<1>4. conn'.state = "requested" /\ conn'.frames = EncodeMessage(Request(gap_start, gap_end))
  BY <1>3 DEF Conn
<1>5. payload = <<>> /\ nbytes = 0 /\ off = 0
  BY <1>3 DEF WireInv, StreamInv, PhaseInv
<1>6. StreamInv'
  BY <1>2, <1>3, <1>4, <1>5 DEF StreamInv, Conn
<1>7. PhaseInv'
  BY <1>3, <1>4 DEF PhaseInv
<1> QED
  BY <1>1, <1>6, <1>7 DEF WireInv

LEMMA ServeRequestKeepsInv ==
  ASSUME WireInv, ServeRequest
  PROVE  WireInv'
<1>1. CoreInv' /\ ready' = ready
  BY SameCore DEF ServeRequest
<1>2. conn.state = "requested"
  BY DEF ServeRequest
<1>3. PICK a \in 0 .. Len(Session), b \in 0 .. Len(Session) : conn.frames = EncodeMessage(Request(a, b))
  BY <1>2 DEF WireInv, StreamInv
<1> DEFINE r == [start_seq |-> a, end_seq |-> b]
           B == BytesOf(GapPayload(a, b))
           m == Response(Len(B), r)
<1>4. DecodeStruct(WireBody[MsgType.GapRequest], conn.frames, HeaderSize) = r
  BY <1>3, RequestLoads
<1>5. conn' = Conn("answered", r.start_seq, r.end_seq,
                   EncodeMessage(Response(Len(BytesOf(GapPayload(r.start_seq, r.end_seq))), r))
                     \o BytesOf(GapPayload(r.start_seq, r.end_seq)))
  BY <1>4 DEF ServeRequest, Response
<1>6. r.start_seq = a /\ r.end_seq = b
  OBVIOUS
<1>7. conn' = Conn("answered", a, b, EncodeMessage(m) \o B)
  BY <1>5, <1>6
<1>8. Fits(Len(B), 4)
  BY RequestedFacts
<1>9. IsMessage(m) /\ m.type = 7 /\ m.payload_bytes = Len(B)
  BY <1>8, ResponseIsMessage
<1> HIDE DEF m
<1>10. conn'.state = "answered" /\ conn'.start = a /\ conn'.end = b /\ conn'.frames = EncodeMessage(m) \o B
  BY <1>7 DEF Conn
<1>11. PayloadBytes' = B
  BY <1>10 DEF PayloadBytes, Requested
<1> HIDE DEF B
<1>12. payload' = payload /\ nbytes' = nbytes /\ off' = off /\ pc' = pc
  BY DEF ServeRequest
<1>13. payload = <<>> /\ nbytes = 0 /\ off = 0 /\ pc = "await"
  BY <1>2 DEF WireInv, StreamInv, PhaseInv
<1>14. StreamInv'
  BY <1>7, <1>9, <1>10, <1>11, <1>12, <1>13 DEF StreamInv, Conn
<1>15. PhaseInv'
  BY <1>10, <1>12, <1>13 DEF PhaseInv
<1> QED
  BY <1>1, <1>14, <1>15 DEF WireInv

LEMMA PayloadFacts ==
  ASSUME StreamInv, conn.state \in {"answered", "open", "closed"}
  PROVE  /\ FromSessionSeq(Requested) /\ PayloadBytes \in Seq(Nat) /\ Len(PayloadBytes) \in Nat
<1>1. conn.start \in 0 .. Len(Session) /\ conn.end \in 0 .. Len(Session)
  BY DEF StreamInv
<1> QED
  BY <1>1, RequestedFacts DEF Requested, PayloadBytes

LEMMA ReceiveResponseKeepsInv ==
  ASSUME WireInv, ReceiveResponse
  PROVE  WireInv'
<1>1. CoreInv' /\ ready' = ready
  BY SameCore DEF ReceiveResponse
<1>2. conn.state = "answered" /\ pc = "await" /\ pc' = "recv" /\ payload' = payload /\ off' = off
  BY DEF ReceiveResponse
<1> DEFINE bytes == conn.frames
<1>3. PICK m : /\ IsMessage(m) /\ m.type = 7 /\ m.payload_bytes = Len(PayloadBytes)
               /\ bytes = EncodeMessage(m) \o PayloadBytes
  BY <1>2 DEF WireInv, StreamInv
<1>4. PayloadBytes \in Seq(Nat)
  BY <1>2, PayloadFacts DEF WireInv
<1>5. /\ DecodeStruct(WireBody[MsgType.GapResponse], bytes, HeaderSize).payload_bytes = Len(PayloadBytes)
      /\ SubSeq(bytes, wire_length_for(MsgType.GapResponse) + 1, Len(bytes)) = PayloadBytes
  BY <1>3, <1>4, ResponseLoads
<1>6. nbytes' = Len(PayloadBytes) /\ conn' = Conn("open", conn.start, conn.end, PayloadBytes)
  BY <1>5 DEF ReceiveResponse
<1>7. conn'.state = "open" /\ conn'.start = conn.start /\ conn'.end = conn.end /\ conn'.frames = PayloadBytes
  BY <1>6 DEF Conn
<1>8. PayloadBytes' = PayloadBytes
  BY <1>7 DEF PayloadBytes, Requested
<1>9. /\ payload = <<>> /\ off = 0
      /\ conn.start \in 0 .. Len(Session) /\ conn.end \in 0 .. Len(Session)
  BY <1>2 DEF WireInv, StreamInv
<1>10. <<>> \o PayloadBytes = PayloadBytes /\ <<>> \in Seq(Nat)
  BY <1>4
<1> HIDE DEF bytes
<1>11. StreamInv'
  BY <1>2, <1>4, <1>6, <1>7, <1>8, <1>9, <1>10 DEF StreamInv, Conn
<1>12. PhaseInv'
  BY <1>2, <1>7 DEF PhaseInv
<1> QED
  BY <1>1, <1>11, <1>12 DEF WireInv

\* A sequence is what SubSeq cuts it into.
LEMMA CutAndJoined ==
  ASSUME NEW S, NEW p \in Seq(S), NEW n \in Nat, n <= Len(p)
  PROVE  /\ SubSeq(p, 1, n) \in Seq(S) /\ SubSeq(p, n + 1, Len(p)) \in Seq(S)
         /\ p = SubSeq(p, 1, n) \o SubSeq(p, n + 1, Len(p))
<1> DEFINE w == Len(p) - n
           a == SubSeq(p, 0 + 1, 0 + n)
           b == SubSeq(p, n + 1, n + w)
<1>1. Len(p) \in Nat /\ w \in Nat /\ n + w = Len(p) /\ 0 + n = n /\ 0 + n <= Len(p) /\ n + w <= Len(p)
  <2>1. Len(p) \in Nat
    BY LenProperties
  <2> QED
    BY <2>1
<1>4. a = SubSeq(p, 1, n) /\ b = SubSeq(p, n + 1, Len(p))
  BY <1>1
<1> HIDE DEF w
<1>2. a \in Seq(S) /\ Len(a) = n /\ \A i \in 1 .. n : a[i] = p[0 + i]
  BY <1>1, Slice
<1>3. b \in Seq(S) /\ Len(b) = w /\ \A i \in 1 .. w : b[i] = p[n + i]
  <2>1. n \in Nat /\ w \in Nat /\ n + w <= Len(p)
    BY <1>1
  <2> QED
    BY <2>1, Slice, Zenon
<1> HIDE DEF a, b
<1>5. a \o b \in Seq(S) /\ Len(a \o b) = Len(p)
  BY <1>1, <1>2, <1>3, ConcatProperties
<1>6. ASSUME NEW i \in 1 .. Len(p) PROVE (a \o b)[i] = p[i]
  <2>1. CASE i <= n
    <3>1. i \in 1 .. n /\ 0 + i = i
      BY <1>1, <2>1
    <3> QED
      BY <1>2, <1>3, <3>1, ConcatProperties
  <2>2. CASE ~(i <= n)
    <3> DEFINE j == i - n
    <3>1. j \in 1 .. w /\ n + j = i
      BY <1>1, <2>2
    <3>2. (a \o b)[i] = b[j]
      <4>1. a \in Seq(S) /\ b \in Seq(S) /\ Len(a) = n /\ Len(b) = w
        BY <1>2, <1>3
      <4>2. i \in 1 .. Len(a) + Len(b)
        BY <1>1, <4>1
      <4>3. (a \o b)[i] = IF i <= Len(a) THEN a[i] ELSE b[i - Len(a)]
        BY <4>1, <4>2, ConcatProperties
      <4> QED
        BY <2>2, <4>1, <4>3
    <3> HIDE DEF j
    <3> QED
      BY <1>3, <3>1, <3>2
  <2> QED
    BY <2>1, <2>2
<1>7. a \o b = p
  BY <1>5, <1>6, SeqEqual
<1> QED
  BY <1>2, <1>3, <1>4, <1>7

LEMMA ReceiveChunkKeepsInv ==
  ASSUME WireInv, NEW n \in Chunks, ReceiveChunk(n)
  PROVE  WireInv'
<1>1. CoreInv' /\ ready' = ready
  BY SameCore DEF ReceiveChunk
<1>2. pc = "recv" /\ conn.state = "open" /\ pc' = pc /\ nbytes' = nbytes /\ off' = off
  BY DEF ReceiveChunk, WireInv, PhaseInv
<1> DEFINE c == conn.frames
           a == SubSeq(c, 1, n)
           b == SubSeq(c, n + 1, Len(c))
<1>3. payload \in Seq(Nat) /\ c \in Seq(Nat) /\ payload \o c = PayloadBytes /\ nbytes = Len(PayloadBytes) /\ off = 0
      /\ conn.start \in 0 .. Len(Session) /\ conn.end \in 0 .. Len(Session)
  BY <1>2 DEF WireInv, StreamInv
<1>4. n \in Nat /\ n <= Len(c)
  BY ChunksAssumption DEF ReceiveChunk
<1>5. a \in Seq(Nat) /\ b \in Seq(Nat) /\ c = a \o b
  BY <1>3, <1>4, CutAndJoined
<1>6. payload' = payload \o a /\ conn' = [conn EXCEPT !.frames = b]
  BY DEF ReceiveChunk
<1>7. /\ conn'.state = "open" /\ conn'.start = conn.start /\ conn'.end = conn.end /\ conn'.frames = b
      /\ conn' = Conn(conn'.state, conn'.start, conn'.end, conn'.frames)
  <2>1. conn = [state |-> conn.state, start |-> conn.start, end |-> conn.end, frames |-> conn.frames]
    BY DEF WireInv, StreamInv, Conn
  <2>2. conn' = [state |-> conn.state, start |-> conn.start, end |-> conn.end, frames |-> b]
    BY <1>6, <2>1
  <2>3. conn'.state = conn.state /\ conn'.start = conn.start /\ conn'.end = conn.end /\ conn'.frames = b
    BY <2>2
  <2> QED
    BY <1>2, <2>2, <2>3 DEF Conn
<1> HIDE DEF a, b, c
<1>8. payload' \in Seq(Nat) /\ payload' \o b = PayloadBytes
  <2>1. (payload \o a) \o b = payload \o (a \o b)
    <3>1. payload \in Seq(Nat) /\ a \in Seq(Nat) /\ b \in Seq(Nat)
      BY <1>3, <1>5
    <3> QED
      BY <3>1, ConcatAssociative, SMTT(30)
  <2>2. payload \o a \in Seq(Nat)
    BY <1>3, <1>5, ConcatProperties
  <2> QED
    BY <1>3, <1>5, <1>6, <2>1, <2>2
<1>9. PayloadBytes' = PayloadBytes
  BY <1>7 DEF PayloadBytes, Requested
<1>10. StreamInv'
  BY <1>2, <1>3, <1>5, <1>6, <1>7, <1>8, <1>9 DEF StreamInv
<1>11. PhaseInv'
  BY <1>2, <1>7 DEF PhaseInv
<1> QED
  BY <1>1, <1>10, <1>11 DEF WireInv

LEMMA ConcatBegins ==
  ASSUME NEW S, NEW p \in Seq(S), NEW q \in Seq(S)
  PROVE  Begins(p, p \o q)
<1>1. /\ Len(p \o q) = Len(p) + Len(q)
      /\ \A i \in 1 .. Len(p) + Len(q) : (p \o q)[i] = IF i <= Len(p) THEN p[i] ELSE q[i - Len(p)]
  BY ConcatProperties
<1>2. Len(p) \in Nat /\ Len(q) \in Nat
  BY LenProperties
<1>3. \A i \in 1 .. Len(p) : i \in 1 .. Len(p) + Len(q) /\ i <= Len(p)
  BY <1>2
<1>4. Len(p) <= Len(p \o q)
  BY <1>1, <1>2
<1>5. \A i \in 1 .. Len(p) : (p \o q)[i] = p[i]
  BY <1>1, <1>3
<1> QED
  BY <1>4, <1>5 DEF Begins

LEMMA ReceiveEndsKeepsInv ==
  ASSUME WireInv, ReceiveEnds
  PROVE  WireInv'
<1>1. CoreInv' /\ ready' = ready
  BY SameCore DEF ReceiveEnds
<1>2. /\ pc = "recv" /\ conn.state = "open" /\ pc' = "replay" /\ nbytes' = nbytes /\ off' = off /\ payload' = payload
      /\ conn' = Conn("closed", conn.start, conn.end, <<>>)
  BY DEF ReceiveEnds, WireInv, PhaseInv
<1>3. /\ payload \in Seq(Nat) /\ conn.frames \in Seq(Nat) /\ payload \o conn.frames = PayloadBytes
      /\ nbytes = Len(PayloadBytes) /\ off = 0
      /\ conn.start \in 0 .. Len(Session) /\ conn.end \in 0 .. Len(Session)
  BY <1>2 DEF WireInv, StreamInv
<1>4. Begins(payload, PayloadBytes)
  BY <1>3, ConcatBegins
<1>5. conn'.state = "closed" /\ conn'.start = conn.start /\ conn'.end = conn.end
      /\ conn' = Conn(conn'.state, conn'.start, conn'.end, conn'.frames)
  BY <1>2 DEF Conn
<1>6. Requested' = Requested /\ PayloadBytes' = PayloadBytes
  BY <1>5 DEF PayloadBytes, Requested
<1>7. 0 \in 0 .. Len(Requested) /\ 0 = EndIn(Requested, 0) /\ 0 <= Len(payload)
  <2>1. FromSessionSeq(Requested)
    BY <1>2, PayloadFacts DEF WireInv
  <2>2. EndIn(Requested, 0) = 0 /\ Len(Requested) \in Nat
    BY <2>1, EndFacts, BodiesFacts
  <2>3. Len(payload) \in Nat
    BY <1>3, LenProperties
  <2> QED
    BY <2>2, <2>3
<1>8. StreamInv'
  <2>1. \E k \in 0 .. Len(Requested) : off = EndIn(Requested, k) /\ off <= Len(payload)
    BY <1>3, <1>7
  <2> QED
    BY <1>2, <1>3, <1>4, <1>5, <1>6, <2>1 DEF StreamInv
<1>9. PhaseInv'
  BY <1>2, <1>5 DEF PhaseInv
<1> QED
  BY <1>1, <1>8, <1>9 DEF WireInv

LEMMA ReplayFrameKeepsInv ==
  ASSUME WireInv, ReplayFrame
  PROVE  WireInv'
<1>1. /\ pc = "replay" /\ conn.state = "closed" /\ off < Len(payload) /\ ParseMessage(Rest).status = "Ok"
      /\ PushBytes(SubSeq(Rest, 1, ParseMessage(Rest).consumed))
      /\ off' = off + ParseMessage(Rest).consumed
      /\ UNCHANGED <<pc, server, conn, payload, recovery_events, handled, last, outcome, nbytes>>
  BY DEF ReplayFrame, WireInv, PhaseInv
<1>2. /\ payload \in Seq(Nat) /\ Begins(payload, PayloadBytes) /\ nbytes = Len(PayloadBytes)
      /\ conn.start \in 0 .. Len(Session) /\ conn.end \in 0 .. Len(Session)
      /\ conn = Conn(conn.state, conn.start, conn.end, conn.frames)
  BY <1>1 DEF WireInv, StreamInv
<1>3. PICK k \in 0 .. Len(Requested) : off = EndIn(Requested, k) /\ off <= Len(payload)
  BY <1>1 DEF WireInv, StreamInv
<1>4. FromSessionSeq(Requested) /\ PayloadBytes = BytesOf(Requested)
  BY <1>1, PayloadFacts DEF WireInv, PayloadBytes
<1>5. Rest = SubSeq(payload, EndIn(Requested, k) + 1, Len(payload)) /\ EndIn(Requested, k) < Len(payload)
  BY <1>1, <1>3 DEF Rest
<1>6. PICK s \in 1 .. Len(Session) :
        /\ k + 1 \in 0 .. Len(Requested)
        /\ Rest \in Seq(Nat) /\ Begins(Session[s].body, Rest)
        /\ EndIn(Requested, k + 1) = EndIn(Requested, k) + Len(Session[s].body)
        /\ EndIn(Requested, k + 1) <= Len(payload)
  <2> DEFINE R == Requested
             rest == Rest
  <2>1. /\ FromSessionSeq(R) /\ payload \in Seq(Nat) /\ Begins(payload, BytesOf(R)) /\ k \in 0 .. Len(R)
        /\ EndIn(R, k) < Len(payload) /\ rest = SubSeq(payload, EndIn(R, k) + 1, Len(payload))
        /\ ParseMessage(rest).status = "Ok"
    BY <1>1, <1>2, <1>4, <1>5
  <2> HIDE DEF R, rest
  <2>2. \E s \in 1 .. Len(Session) : StartsFrame(rest, s, R, k, payload)
    BY <2>1, NextFrameParses
  <2> QED
    BY <2>2 DEF R, rest, StartsFrame
<1>7. Push(Session[s]) /\ ParseMessage(Rest).consumed = Len(Session[s].body)
  BY <1>1, <1>6, PushBytesPushes
<1>8. CoreInv'
  BY <1>1, <1>7, PushKeepsCore DEF WireInv
<1>9. off' = EndIn(Requested, k + 1) /\ off' <= Len(payload)
  BY <1>1, <1>3, <1>6, <1>7
<1>10. Requested' = Requested /\ PayloadBytes' = PayloadBytes
  BY <1>1 DEF PayloadBytes, Requested
<1>11. StreamInv'
  <2>1. \E j \in 0 .. Len(Requested) : off' = EndIn(Requested, j) /\ off' <= Len(payload)
    BY <1>6, <1>9
  <2> QED
    BY <1>1, <1>2, <1>10, <2>1 DEF StreamInv
<1>12. PhaseInv'
  BY <1>1 DEF WireInv, PhaseInv
<1> QED
  BY <1>8, <1>11, <1>12 DEF WireInv

LEMMA NoConnFacts ==
  NoConn.state = "none" /\ NoConn = Conn(NoConn.state, NoConn.start, NoConn.end, NoConn.frames)
BY DEF NoConn, Conn

\* A state in which no connection carries a payload.
LEMMA NoStream ==
  ASSUME conn \in {NoConn, Conn("reset", 0, 0, <<>>)}, payload = <<>>, nbytes = 0, off = 0
  PROVE  StreamInv /\ conn.state \in {"none", "reset"}
<1>1. conn.state \in {"none", "reset"} /\ conn = Conn(conn.state, conn.start, conn.end, conn.frames)
  BY DEF NoConn, Conn
<1> QED
  BY <1>1 DEF StreamInv

LEMMA FinishReplayKeepsInv ==
  ASSUME WireInv, FinishReplay
  PROVE  WireInv'
<1>1. /\ ClearGap /\ conn' = NoConn /\ payload' = <<>> /\ nbytes' = 0 /\ off' = 0
      /\ pc' = "drain" /\ handled' = handled
  BY DEF FinishReplay
<1>2. /\ next_expected' = next_expected /\ window' = window /\ ready' = ready /\ gap_end' = 0
  BY <1>1 DEF ClearGap
<1>3. TrackerInv'
  BY <1>1, ClearGapKeepsInv DEF WireInv, CoreInv
<1>4. BufferInv'
  BY <1>2 DEF WireInv, CoreInv, BufferInv, WindowFromSession, AllFromSession, FromSession, Occupied
<1>5. gap_end' <= Len(Session)
  BY <1>2, SessionLen
<1>6. HandledMessages'
  BY <1>1, <1>2 DEF WireInv, CoreInv, HandledMessages
<1>7. CoreInv'
  BY <1>3, <1>4, <1>5, <1>6 DEF CoreInv
<1>8. conn'.state = "none" /\ conn' = Conn(conn'.state, conn'.start, conn'.end, conn'.frames)
  BY <1>1, NoConnFacts
<1>9. StreamInv'
  BY <1>1, <1>8 DEF StreamInv
<1>10. PhaseInv'
  BY <1>1, <1>8 DEF PhaseInv
<1> QED
  BY <1>7, <1>9, <1>10 DEF WireInv

\* The connection fails before the response has arrived.
LEMMA FaultsKeepInv ==
  ASSUME WireInv, UNCHANGED <<nbytes, off>>,
         ConnectFails \/ ResponseFails \/ LinkBreaks \/ ServerStops
  PROVE  WireInv'
<1>1. UNCHANGED trackerVars /\ UNCHANGED handled /\ payload' = payload
  BY DEF ConnectFails, ResponseFails, LinkBreaks, ServerStops, StopServer
<1>2. CoreInv' /\ ready' = ready
  BY <1>1, SameCore
<1>3. CASE conn' = conn /\ (pc' = pc \/ (pc = "recover" /\ pc' = "drain"))
  <2>1. StreamInv'
    BY <1>1, <1>3, StreamUnchanged DEF WireInv
  <2>2. PhaseInv'
    BY <1>2, <1>3 DEF WireInv, PhaseInv
  <2> QED
    BY <1>2, <2>1, <2>2 DEF WireInv
<1>4. CASE /\ conn.state \in {"requested", "answered", "reset"}
           /\ \/ conn' = NoConn /\ pc' = "drain"
              \/ conn' = Conn("reset", 0, 0, <<>>) /\ pc' = pc
  <2>1. payload = <<>> /\ nbytes = 0 /\ off = 0 /\ pc = "await"
    BY <1>4 DEF WireInv, StreamInv, PhaseInv
  <2>2. \/ conn'.state = "none" /\ pc' = "drain"
        \/ conn'.state = "reset" /\ pc' = "await"
    BY <1>4, <2>1 DEF NoConn, Conn
  <2>3. conn' = Conn(conn'.state, conn'.start, conn'.end, conn'.frames)
    BY <1>4 DEF NoConn, Conn
  <2>4. StreamInv'
    BY <1>1, <2>1, <2>2, <2>3 DEF StreamInv
  <2>5. PhaseInv'
    BY <2>2 DEF PhaseInv
  <2> QED
    BY <1>2, <2>4, <2>5 DEF WireInv
<1>5. CASE ConnectFails
  BY <1>3, <1>5 DEF ConnectFails
<1>6. CASE ResponseFails
  BY <1>4, <1>6 DEF ResponseFails
<1>7. CASE LinkBreaks
  BY <1>4, <1>7 DEF LinkBreaks
<1>8. CASE ServerStops
  <2>1. pc' = pc /\ conn' = IF conn.state = "requested" THEN Conn("reset", 0, 0, <<>>) ELSE conn
    BY <1>8 DEF ServerStops, StopServer
  <2>2. CASE conn.state = "requested"
    BY <1>4, <2>1, <2>2
  <2>3. CASE conn.state # "requested"
    <3>1. conn' = conn /\ pc' = pc
      BY <2>1, <2>3
    <3> QED
      BY <1>3, <3>1
  <2> QED
    BY <2>2, <2>3
<1> QED
  BY <1>5, <1>6, <1>7, <1>8

LEMMA LeaveLoopKeepsInv ==
  ASSUME WireInv, LeaveLoop, UNCHANGED <<nbytes, off>>
  PROVE  WireInv'
<1>1. UNCHANGED trackerVars /\ UNCHANGED handled /\ UNCHANGED <<conn, payload, nbytes, off>>
      /\ pc = "select" /\ pc' = "done"
  BY DEF LeaveLoop
<1>2. CoreInv' /\ StreamInv'
  BY <1>1, SameCore, StreamUnchanged DEF WireInv
<1>3. PhaseInv'
  BY <1>1 DEF WireInv, PhaseInv
<1> QED
  BY <1>2, <1>3 DEF WireInv

LEMMA WireStutterKeepsInv ==
  ASSUME WireInv, UNCHANGED wireVars
  PROVE  WireInv'
<1>1. UNCHANGED trackerVars /\ UNCHANGED handled /\ UNCHANGED <<conn, payload, nbytes, off>> /\ pc' = pc
  BY DEF wireVars, vars, feedVars
<1>2. CoreInv' /\ StreamInv' /\ ready' = ready
  BY <1>1, SameCore, StreamUnchanged DEF WireInv
<1>3. PhaseInv'
  BY <1>1, <1>2 DEF WireInv, PhaseInv
<1> QED
  BY <1>2, <1>3 DEF WireInv

LEMMA WireInitInv == ASSUME WireInit PROVE WireInv
<1>1. /\ TrackerInit /\ pc = "select" /\ conn = NoConn /\ payload = <<>> /\ handled = <<>> /\ nbytes = 0 /\ off = 0
      /\ ready = <<>> /\ next_expected = 1 /\ gap_end = 0 /\ window = [i \in Slots |-> NoFrame]
  BY DEF WireInit, Init, FeedInit, TrackerInit
<1>2. TrackerInv
  BY <1>1, InitSatisfiesInv
<1>3. BufferInv
  BY <1>1, SessionLen DEF BufferInv, WindowFromSession, AllFromSession, Occupied
<1>4. gap_end <= Len(Session)
  BY <1>1, SessionLen
<1>5. HandledMessages
  BY <1>1 DEF HandledMessages
<1>6. conn.state = "none" /\ conn = Conn(conn.state, conn.start, conn.end, conn.frames)
  BY <1>1, NoConnFacts
<1>7. StreamInv
  BY <1>1, <1>6 DEF StreamInv
<1>8. PhaseInv
  BY <1>1, <1>6 DEF PhaseInv
<1> QED
  BY <1>2, <1>3, <1>4, <1>5, <1>7, <1>8 DEF WireInv, CoreInv

(***************************************************************************)
(* The invariant holds on every behaviour of the receive path on bytes.    *)
(***************************************************************************)
THEOREM WireInvariant == WireSpec => []WireInv
<1>1. ASSUME WireInv, [WireNext]_wireVars PROVE WireInv'
  <2>1. CASE UNCHANGED wireVars
    BY <1>1, <2>1, WireStutterKeepsInv
  <2>2. CASE \E d \in Datagrams : ReceiveDatagram(d) \/ IgnoreDatagram(d)
    <3>1. PICK d \in Datagrams : ReceiveDatagram(d) \/ IgnoreDatagram(d)
      BY <2>2
    <3>2. CASE ReceiveDatagram(d)
      BY <1>1, <3>2, ReceiveDatagramKeepsInv
    <3>3. CASE IgnoreDatagram(d)
      BY <2>1, <3>3 DEF IgnoreDatagram
    <3> QED
      BY <3>1, <3>2, <3>3
  <2>3. CASE DrainFrames
    BY <1>1, <2>3, DrainFramesKeepsInv
  <2>4. CASE SendRequest
    BY <1>1, <2>4, SendRequestKeepsInv
  <2>5. CASE ReceiveResponse
    BY <1>1, <2>5, ReceiveResponseKeepsInv
  <2>6. CASE ReceiveEnds
    BY <1>1, <2>6, ReceiveEndsKeepsInv
  <2>7. CASE \E n \in Chunks : ReceiveChunk(n)
    BY <1>1, <2>7, ReceiveChunkKeepsInv
  <2>8. CASE ReplayFrame
    BY <1>1, <2>8, ReplayFrameKeepsInv
  <2>9. CASE FinishReplay
    BY <1>1, <2>9, FinishReplayKeepsInv
  <2>10. CASE ServeRequest
    BY <1>1, <2>10, ServeRequestKeepsInv
  <2>11. CASE (ConnectFails \/ ResponseFails \/ LinkBreaks \/ ServerStops) /\ UNCHANGED <<nbytes, off>>
    BY <1>1, <2>11, FaultsKeepInv
  <2>12. CASE LeaveLoop /\ UNCHANGED <<nbytes, off>>
    BY <1>1, <2>12, LeaveLoopKeepsInv
  <2>13. CASE Terminated /\ UNCHANGED <<nbytes, off>>
    BY <2>1, <2>13 DEF Terminated, wireVars
  <2> QED
    BY <1>1, <2>1, <2>2, <2>3, <2>4, <2>5, <2>6, <2>7, <2>8, <2>9, <2>10, <2>11, <2>12, <2>13
    DEF WireNext, WireFeedStep
<1> QED
  BY <1>1, WireInitInv, PTL DEF WireSpec

(***************************************************************************)
(* handle_parsed() sees the messages as the simulator had them before it   *)
(* encoded them, in order, and none that the tracker delivered is lost in  *)
(* the second parse of process_datagram().                                 *)
(***************************************************************************)
THEOREM MessagesGetThrough == WireSpec => []HandledAreTheMessages
<1>1. ASSUME WireInv PROVE HandledAreTheMessages
  <2> DEFINE n == Len(handled)
  <2>1. /\ n \in Nat /\ next_expected \in Nat /\ Len(ready) \in Nat /\ Len(Session) \in Nat
        /\ handled \in Seq(MessageSet)
    BY <1>1, CoreTypes DEF WireInv
  <2>2. /\ n + Len(ready) + 1 = next_expected /\ \A i \in 1 .. n : handled[i] = Messages[i]
        /\ next_expected <= Len(Session) + 1 /\ (pc = "select" => ready = <<>>)
    BY <1>1 DEF WireInv, CoreInv, HandledMessages, BufferInv, PhaseInv
  <2>3. Messages \in Seq(Range(Messages)) /\ Len(Messages) = Len(Session)
    BY MessagesAssumption
  <2> HIDE DEF n
  <2>4. n <= Len(Messages)
    BY <2>1, <2>2, <2>3
  <2> DEFINE p == SubSeq(Messages, 0 + 1, 0 + n)
  <2>5. p \in Seq(Range(Messages)) /\ Len(p) = n /\ \A i \in 1 .. n : p[i] = Messages[0 + i]
    <3>1. 0 \in Nat /\ n \in Nat /\ 0 + n <= Len(Messages)
      BY <2>1, <2>4
    <3> QED
      BY <2>3, <3>1, Slice
  <2>6. p = SubSeq(Messages, 1, n)
    BY <2>1
  <2> HIDE DEF p
  <2>7. \A i \in 1 .. n : p[i] = handled[i]
    BY <2>1, <2>2, <2>5
  <2>8. p = handled
    <3>1. handled = [i \in 1 .. n |-> handled[i]]
      BY <2>1 DEF n
    <3>2. p = [i \in 1 .. n |-> p[i]]
      BY <2>5
    <3>3. [i \in 1 .. n |-> handled[i]] = [i \in 1 .. n |-> p[i]]
      BY <2>7
    <3> QED
      BY <3>1, <3>2, <3>3
  <2>9. pc = "select" => Len(handled) = next_expected - 1
    <3>1. pc = "select" => Len(ready) = 0
      BY <2>2
    <3> QED
      BY <2>1, <2>2, <3>1 DEF n
  <2> QED
    BY <2>6, <2>8, <2>9 DEF HandledAreTheMessages, n
<1> QED
  BY <1>1, WireInvariant, PTL

(***************************************************************************)
(* Wherever recv() and the end of the connection cut the payload, the      *)
(* loops of try_recover() stay within it, and parse_message() is called    *)
(* only where a frame starts.                                              *)
(***************************************************************************)
THEOREM ReplayStaysOnFrames == WireSpec => []ReplayOnFrames
<1>1. ASSUME WireInv PROVE ReplayOnFrames
  <2>1. CASE conn.state \notin {"open", "closed"}
    <3>1. payload = <<>> /\ nbytes = 0 /\ off = 0 /\ pc \notin {"recv", "replay"}
      BY <1>1, <2>1 DEF WireInv, StreamInv, PhaseInv
    <3>2. Len(<<>>) = 0
      OBVIOUS
    <3> QED
      BY <3>1, <3>2 DEF ReplayOnFrames
  <2>2. CASE conn.state \in {"open", "closed"}
    <3>1. FromSessionSeq(Requested) /\ PayloadBytes = BytesOf(Requested) /\ Len(PayloadBytes) \in Nat
      BY <1>1, <2>2, PayloadFacts DEF WireInv, PayloadBytes
    <3>2. payload \in Seq(Nat) /\ nbytes = Len(PayloadBytes)
      BY <1>1, <2>2 DEF WireInv, StreamInv
    <3>3. /\ Len(Requested) \in Nat /\ Len(payload) \in Nat
          /\ EndIn(Requested, 0) = 0 /\ EndIn(Requested, Len(Requested)) = Len(PayloadBytes)
      BY <3>1, <3>2, EndFacts, BodiesFacts, LenProperties
    <3>4. nbytes = FrameEnd(Requested, Len(Requested))
      <4>1. Len(Requested) \in 0 .. Len(Requested)
        BY <3>3
      <4> QED
        BY <3>1, <3>2, <3>3, <4>1, FrameEndIsEnd
    <3>5. Len(payload) <= nbytes
      <4>1. CASE conn.state = "open"
        <5>1. conn.frames \in Seq(Nat) /\ payload \o conn.frames = PayloadBytes
          BY <1>1, <4>1 DEF WireInv, StreamInv
        <5>2. Begins(payload, PayloadBytes)
          BY <3>2, <5>1, ConcatBegins
        <5> QED
          BY <3>2, <5>2 DEF Begins
      <4>2. CASE conn.state = "closed"
        BY <1>1, <3>2, <4>2 DEF WireInv, StreamInv, Begins
      <4> QED
        BY <2>2, <4>1, <4>2
    <3>6. CASE conn.state = "open"
      <4>1. off = 0 /\ pc = "recv"
        BY <1>1, <3>6 DEF WireInv, StreamInv, PhaseInv
      <4> QED
        BY <3>3, <3>4, <3>5, <4>1 DEF ReplayOnFrames
    <3>7. CASE conn.state = "closed"
      <4>1. PICK k \in 0 .. Len(Requested) : off = EndIn(Requested, k) /\ off <= Len(payload)
        BY <1>1, <3>7 DEF WireInv, StreamInv
      <4>2. off = FrameEnd(Requested, k)
        BY <3>1, <4>1, FrameEndIsEnd
      <4>3. k = 0 \/ k \in WholeFrames(Requested, Len(payload))
        BY <3>3, <4>1, <4>2 DEF WholeFrames
      <4>4. off \in {0} \cup {FrameEnd(Requested, j) : j \in WholeFrames(Requested, Len(payload))}
        BY <3>3, <4>1, <4>2, <4>3
      <4> QED
        BY <3>4, <3>5, <4>1, <4>4 DEF ReplayOnFrames
    <3> QED
      BY <2>2, <3>6, <3>7
  <2> QED
    BY <2>1, <2>2
<1> QED
  BY <1>1, WireInvariant, PTL

-----------------------------------------------------------------------------
(* The whole frames in a part of the payload. *)

LEMMA BodyLength ==
  ASSUME NEW R, FromSessionSeq(R), NEW k \in 1 .. Len(R)
  PROVE  EndIn(R, k - 1) \in Nat /\ EndIn(R, k) \in Nat /\ EndIn(R, k - 1) < EndIn(R, k)
<1>1. Len(R) \in Nat /\ R[k].seq \in 1 .. Len(Session) /\ R[k] = Session[R[k].seq]
  BY BodiesFacts
<1>2. Len(R[k].body) \in 28 .. 44
  BY <1>1, SessionBytes
<1>3. k - 1 \in 0 .. Len(R) /\ k \in 0 .. Len(R)
  BY <1>1
<1>4. EndIn(R, k - 1) \in Nat /\ EndIn(R, k) \in Nat /\ EndIn(R, k) = EndIn(R, k - 1) + Len(R[k].body)
  BY <1>3, EndFacts
<1> DEFINE x == EndIn(R, k - 1)
           y == EndIn(R, k)
           w == Len(R[k].body)
<1> HIDE DEF x, y, w
<1>5. x \in Nat /\ y = x + w /\ w \in 28 .. 44
  BY <1>2, <1>4 DEF x, y, w
<1>6. x < y
  BY <1>5
<1> QED
  BY <1>4, <1>6 DEF x, y

LEMMA EndsIncrease ==
  ASSUME NEW R, FromSessionSeq(R), NEW j \in 0 .. Len(R), NEW k \in 0 .. Len(R), j < k
  PROVE  EndIn(R, j) < EndIn(R, k)
<1>1. Len(R) \in Nat /\ \A n \in 0 .. Len(R) : EndIn(R, n) \in Nat
  BY BodiesFacts, EndFacts
<1>2. \A n \in 1 .. Len(R) : EndIn(R, n - 1) < EndIn(R, n)
  BY BodyLength
<1> DEFINE Bad == {n \in Nat : j < n /\ n <= Len(R) /\ ~(EndIn(R, j) < EndIn(R, n))}
<1>3. Bad = {}
  <2> SUFFICES ASSUME Bad # {} PROVE FALSE
    OBVIOUS
  <2>1. PICK n \in Bad : \A x \in Bad : n <= x
    BY LeastNumber
  <2>2. n \in 1 .. Len(R) /\ n - 1 \in Nat /\ n - 1 <= Len(R) /\ ~(n <= n - 1) /\ (n - 1 = j \/ j < n - 1)
        /\ n \in 0 .. Len(R) /\ n - 1 \in 0 .. Len(R)
    BY <1>1, <2>1
  <2>3. EndIn(R, n - 1) < EndIn(R, n)
    BY <1>2, <2>2
  <2>4. n - 1 = j \/ EndIn(R, j) < EndIn(R, n - 1)
    BY <2>1, <2>2
  <2>5. EndIn(R, j) \in Nat /\ EndIn(R, n) \in Nat /\ EndIn(R, n - 1) \in Nat
    BY <1>1, <2>2
  <2>6. EndIn(R, j) < EndIn(R, n)
    BY <2>3, <2>4, <2>5
  <2> QED
    BY <2>1, <2>6
<1>4. k \in Nat /\ k <= Len(R)
  BY <1>1
<1> QED
  BY <1>3, <1>4

\* k frames of R, and no more, are whole in the first size bytes.
WholeUpTo(R, size, k) ==
  k \in 0 .. Len(R) /\ EndIn(R, k) <= size /\ (k < Len(R) => size < EndIn(R, k + 1))

LEMMA WholeExists ==
  ASSUME NEW R, FromSessionSeq(R), NEW size \in Nat
  PROVE  \E k \in 0 .. Len(R) : WholeUpTo(R, size, k)
<1>1. Len(R) \in Nat /\ EndIn(R, 0) = 0 /\ \A n \in 0 .. Len(R) : EndIn(R, n) \in Nat
  BY BodiesFacts, EndFacts
<1> DEFINE Over == {n \in Nat : n > Len(R) \/ size < EndIn(R, n)}
<1>2. Len(R) + 1 \in Over
  BY <1>1
<1>3. PICK n \in Over : \A x \in Over : n <= x
  BY <1>2, LeastNumber
<1>4. n # 0 /\ n \in Nat /\ n <= Len(R) + 1
  BY <1>1, <1>2, <1>3
<1> DEFINE k == n - 1
<1>5. k \in 0 .. Len(R) /\ k \in Nat /\ k + 1 = n /\ ~(n <= k)
  BY <1>1, <1>4
<1>6. EndIn(R, k) <= size
  <2>1. k \notin Over
    BY <1>3, <1>5
  <2>2. ~(size < EndIn(R, k)) /\ EndIn(R, k) \in Nat
    BY <1>1, <1>5, <2>1
  <2> QED
    BY <2>2
<1>7. k < Len(R) => size < EndIn(R, k + 1)
  <2>1. k < Len(R) => ~(n > Len(R))
    BY <1>1, <1>5
  <2> QED
    BY <1>3, <1>5, <2>1
<1> HIDE DEF k
<1> QED
  BY <1>5, <1>6, <1>7 DEF WholeUpTo

LEMMA WholeCount ==
  ASSUME NEW R, FromSessionSeq(R), NEW size \in Nat, NEW k, WholeUpTo(R, size, k)
  PROVE  Cardinality(WholeFrames(R, size)) = k
<1>1. /\ FromSessionSeq(R) /\ k \in 0 .. Len(R) /\ EndIn(R, k) <= size
      /\ (k < Len(R) => size < EndIn(R, k + 1))
      /\ Len(R) \in Nat /\ \A n \in 0 .. Len(R) : EndIn(R, n) \in Nat
  BY BodiesFacts, EndFacts DEF WholeUpTo
<1>2. WholeFrames(R, size) = {n \in 1 .. Len(R) : EndIn(R, n) <= size}
  <2>1. \A n \in 1 .. Len(R) : n \in 0 .. Len(R)
    BY <1>1
  <2>2. \A n \in 1 .. Len(R) : FrameEnd(R, n) = EndIn(R, n)
    BY <2>1, FrameEndIsEnd
  <2> QED
    BY <2>2 DEF WholeFrames
<1>3. ASSUME NEW n \in 1 .. Len(R) PROVE EndIn(R, n) <= size <=> n <= k
  <2>0. n \in 0 .. Len(R) /\ k \in Nat /\ n \in Nat
    BY <1>1
  <2>a. EndIn(R, n) \in Nat /\ EndIn(R, k) \in Nat
    BY <1>1, <2>0
  <2>1. CASE n = k
    BY <1>1, <2>1, <2>0
  <2>2. CASE n < k
    <3>1. EndIn(R, n) < EndIn(R, k)
      BY <1>1, <2>0, <2>2, EndsIncrease
    <3> QED
      BY <1>1, <2>0, <2>a, <2>2, <3>1
  <2>3. CASE k < n
    <3>1. k + 1 \in 0 .. Len(R) /\ k < Len(R) /\ (k + 1 = n \/ k + 1 < n)
      BY <1>1, <2>0, <2>3
    <3>2. size < EndIn(R, k + 1) /\ EndIn(R, k + 1) \in Nat
      BY <1>1, <3>1
    <3>3. k + 1 = n \/ EndIn(R, k + 1) < EndIn(R, n)
      BY <1>1, <2>0, <3>1, EndsIncrease
    <3>4. size < EndIn(R, n)
      BY <2>a, <3>2, <3>3
    <3> QED
      BY <2>a, <2>0, <2>3, <3>4
  <2> QED
    BY <2>0, <2>1, <2>2, <2>3
<1>4. k \in Nat /\ k <= Len(R)
  BY <1>1
<1>5. WholeFrames(R, size) = 1 .. k
  <2>1. \A n \in 1 .. k : n \in 1 .. Len(R) /\ n <= k
    BY <1>1, <1>4
  <2>2. \A n \in 1 .. Len(R) : n <= k => n \in 1 .. k
    BY <1>1, <1>4
  <2> QED
    BY <1>2, <1>3, <2>1, <2>2
<1>6. Cardinality(1 .. k) = k
  BY <1>4, FS_Interval
<1> QED
  BY <1>5, <1>6

LEMMA WholeIsUnique ==
  ASSUME NEW R, FromSessionSeq(R), NEW k \in 0 .. Len(R)
  PROVE  WholeUpTo(R, EndIn(R, k), k)
<1>1. Len(R) \in Nat /\ \A n \in 0 .. Len(R) : EndIn(R, n) \in Nat
  BY BodiesFacts, EndFacts
<1>2. k < Len(R) => k + 1 \in 0 .. Len(R) /\ k < k + 1
  BY <1>1
<1>3. k < Len(R) => EndIn(R, k) < EndIn(R, k + 1)
  BY <1>2, EndsIncrease
<1>4. EndIn(R, k) <= EndIn(R, k)
  BY <1>1
<1> QED
  BY <1>3, <1>4 DEF WholeUpTo

\* A whole frame parses.
LEMMA WholeFrameParses ==
  ASSUME NEW R, FromSessionSeq(R), NEW got \in Seq(Nat), Begins(got, BytesOf(R)),
         NEW k \in 0 .. Len(R), k < Len(R), EndIn(R, k + 1) <= Len(got),
         NEW rest, rest = SubSeq(got, EndIn(R, k) + 1, Len(got))
  PROVE  ParseMessage(rest).status = "Ok" /\ EndIn(R, k) < Len(got)
<1> DEFINE B == BytesOf(R)
           x == EndIn(R, k)
           j == k + 1
           s == R[j].seq
           E == Session[s].body
           w == Len(got) - x
<1>1. B \in Seq(Nat) /\ Len(B) \in Nat /\ Len(got) \in Nat /\ Len(got) <= Len(B) /\ \A i \in 1 .. Len(got) : B[i] = got[i]
  <2>1. B \in Seq(Nat)
    BY EndFacts
  <2> QED
    BY <2>1, LenProperties DEF Begins
<1>2. x \in Nat /\ Len(R) \in Nat
  BY EndFacts, BodiesFacts
<1>3. j \in 1 .. Len(R) /\ j - 1 = k
  BY <1>2
<1>4. s \in 1 .. Len(Session) /\ R[j] = Session[s]
  BY <1>3, BodiesFacts
<1> HIDE DEF s
<1>5. E = R[j].body /\ E \in Seq(Nat) /\ Len(E) \in 28 .. 44
  BY <1>4, SessionBytes
<1>6. EndIn(R, j) = x + Len(E) /\ EndIn(R, j) <= Len(got) /\ \A i \in 1 .. Len(E) : B[x + i] = E[i]
  BY <1>3, <1>5, EndFacts
<1> HIDE DEF B, x, E, j
<1>7. x + Len(E) <= Len(got) /\ Len(E) \in 28 .. 44
  BY <1>5, <1>6
<1>8. w \in Nat /\ x + w = Len(got) /\ Len(E) <= w /\ x < Len(got)
  <2>1. \A n \in 28 .. 44, a \in Nat, b \in Nat : a + n <= b => b - a \in Nat /\ a + (b - a) = b /\ n <= b - a /\ a < b
    OBVIOUS
  <2> QED
    BY <1>1, <1>2, <1>7, <2>1
<1> HIDE DEF w
<1>9. rest \in Seq(Nat) /\ Len(rest) = w /\ \A i \in 1 .. w : rest[i] = got[x + i]
  <2>1. rest = SubSeq(got, x + 1, x + w)
    BY <1>8 DEF x
  <2>2. x + w <= Len(got)
    BY <1>1, <1>8
  <2>3. /\ SubSeq(got, x + 1, x + w) \in Seq(Nat)
        /\ Len(SubSeq(got, x + 1, x + w)) = w
        /\ \A i \in 1 .. w : SubSeq(got, x + 1, x + w)[i] = got[x + i]
    <3>1. x \in Nat /\ w \in Nat /\ got \in Seq(Nat)
      BY <1>2, <1>8
    <3> QED
      BY <2>2, <3>1, Slice
  <2> QED
    BY <2>1, <2>3, Zenon
<1>10. ASSUME NEW i \in 1 .. Len(E) PROVE rest[i] = E[i]
  <2>0. Len(E) \in Nat
    BY <1>5, LenProperties
  <2>1. i \in 1 .. w /\ x + i \in 1 .. Len(got)
    BY <1>1, <1>2, <1>8, <2>0
  <2> QED
    BY <1>1, <1>6, <1>9, <2>1
<1>11. Begins(E, rest)
  BY <1>8, <1>9, <1>10 DEF Begins
<1>12. ParseMessage(rest) = Parsed("Ok", Len(E), Messages[s])
  BY <1>4, <1>9, <1>11, SessionParses DEF E
<1> QED
  BY <1>8, <1>12 DEF Parsed, x

-----------------------------------------------------------------------------
(* RecoveringFeed, as the bytes show it.  Its tracker is the one here. *)

LEMMA FramesTracker ==
  /\ \A w, n : Frames!Holds(w, n) <=> Holds(w, n)
  /\ \A w, i : Frames!Occupied(w, i) <=> Occupied(w, i)
  /\ \A n : Frames!SlotOf(n) = SlotOf(n)
  /\ Frames!Slots = Slots
BY DEF Frames!Holds, Frames!Occupied, Frames!SlotOf, Frames!Slots, Holds, Occupied, SlotOf, Slots

LEMMA FramesFlush ==
  /\ \A w, n : Frames!FlushEnd(w, n) = FlushEnd(w, n)
  /\ \A w, n, m : Frames!FlushedFrames(w, n, m) = FlushedFrames(w, n, m)
  /\ \A w, n, m : Frames!FlushedWindow(w, n, m) = FlushedWindow(w, n, m)
BY DEF Frames!FlushEnd, FlushEnd, Frames!FlushedFrames, FlushedFrames, Frames!FlushedWindow, FlushedWindow,
       Frames!Holds, Frames!Occupied, Frames!SlotOf, Frames!Slots, Holds, Occupied, SlotOf, Slots

LEMMA FramesPush ==
  ASSUME NEW f, Push(f)
  PROVE  Frames!Push(f)
<1>1. CASE PushExpected(f)
  <2>1. Frames!PushExpected(f)
    BY <1>1, FramesFlush DEF PushExpected, Frames!PushExpected, GapClosed, Frames!GapClosed
  <2> QED
    BY <2>1 DEF Push, Frames!Push
<1>2. CASE PushOld(f)
  BY <1>2 DEF PushOld, Frames!PushOld, Push, Frames!Push, gapVars, Frames!gapVars
<1>3. CASE PushAhead(f)
  <2>1. Frames!StoreOoo(f) 
    BY <1>3, FramesTracker DEF PushAhead, StoreOoo, Frames!StoreOoo
  <2>2. Frames!WidenGap(f) 
    BY <1>3 DEF PushAhead, WidenGap, Frames!WidenGap
  <2> QED
    BY <1>3, <2>1, <2>2 DEF PushAhead, Frames!PushAhead, Push, Frames!Push
<1> QED
  BY <1>1, <1>2, <1>3 DEF Push

LEMMA FramesTrackerVars == Frames!trackerVars = trackerVars /\ Frames!trackerVars' = trackerVars'
BY DEF Frames!trackerVars, trackerVars, Frames!statVars, statVars, Frames!gapVars, gapVars, Frames!historyVars, historyVars

LEMMA FramesClear ==
  /\ ClearReady => Frames!ClearReady
  /\ ClearGap => Frames!ClearGap
BY DEF Frames!ClearReady, ClearReady, Frames!ClearGap, ClearGap, Frames!statVars, statVars, Frames!gapVars, gapVars, Frames!historyVars, historyVars

LEMMA FramesSame ==
  /\ Frames!NoConn = NoConn
  /\ \A a, b, c, d : Frames!Conn(a, b, c, d) = Conn(a, b, c, d)
  /\ \A a, b : Frames!GapPayload(a, b) = GapPayload(a, b)
BY DEF Frames!NoConn, NoConn, Frames!Conn, Conn, Frames!GapPayload, GapPayload

\* The connection of RecoveringFeed, as a function of the one here.
ImageOf(c) ==
  CASE c.state = "requested" ->
         LET req == DecodeStruct(WireBody[MsgType.GapRequest], c.frames, HeaderSize)
         IN  Conn("requested", req.start_seq, req.end_seq, <<>>)
    [] c.state \in {"answered", "open"} -> Conn("answered", c.start, c.end, GapPayload(c.start, c.end))
    [] c.state = "reset" -> c
    [] OTHER -> NoConn

LEMMA ImageFacts ==
  ASSUME NEW c
  PROVE  /\ \A a, b \in 0 .. Len(Session) :
              c.state = "requested" /\ c.frames = EncodeMessage(Request(a, b)) =>
                ImageOf(c) = Conn("requested", a, b, <<>>)
         /\ c.state \in {"answered", "open"} =>
              ImageOf(c) = Conn("answered", c.start, c.end, GapPayload(c.start, c.end))
         /\ c.state = "reset" => ImageOf(c) = c
         /\ c.state \notin {"requested", "answered", "open", "reset"} => ImageOf(c) = NoConn
<1>1. ASSUME NEW a \in 0 .. Len(Session), NEW b \in 0 .. Len(Session),
             c.state = "requested", c.frames = EncodeMessage(Request(a, b))
      PROVE  ImageOf(c) = Conn("requested", a, b, <<>>)
  <2> DEFINE r == DecodeStruct(WireBody[MsgType.GapRequest], c.frames, HeaderSize)
  <2>1. r = [start_seq |-> a, end_seq |-> b]
    BY <1>1, RequestLoads
  <2>2. ImageOf(c) = Conn("requested", r.start_seq, r.end_seq, <<>>)
    BY <1>1 DEF ImageOf
  <2> HIDE DEF r
  <2>3. r.start_seq = a /\ r.end_seq = b
    BY <2>1
  <2> QED
    BY <2>2, <2>3
<1>2. c.state \in {"answered", "open"} =>
        ImageOf(c) = Conn("answered", c.start, c.end, GapPayload(c.start, c.end))
  BY DEF ImageOf
<1>3. c.state = "reset" => ImageOf(c) = c
  BY DEF ImageOf
<1>4. c.state \notin {"requested", "answered", "open", "reset"} => ImageOf(c) = NoConn
  BY DEF ImageOf
<1> QED
  BY <1>1, <1>2, <1>3, <1>4

LEMMA FramesMap ==
  /\ FramesConn = ImageOf(conn) /\ FramesConn' = ImageOf(conn')
  /\ pc # "recv" => FramesPc = pc
  /\ pc = "recv" => FramesPc = "await"
  /\ pc' # "recv" => FramesPc' = pc'
  /\ pc' = "recv" => FramesPc' = "await"
  /\ pc # "replay" => FramesPayload = <<>>
  /\ pc' # "replay" => FramesPayload' = <<>>
  /\ conn' = conn => FramesConn' = FramesConn
  /\ handled' = handled => FramesHandled' = FramesHandled
<1>1. FramesConn = ImageOf(conn) /\ FramesConn' = ImageOf(conn')
  BY DEF FramesConn, ImageOf, Requested
<1>2. conn' = conn => FramesConn' = FramesConn
  BY <1>1
<1>3. handled' = handled => FramesHandled' = FramesHandled
  BY DEF FramesHandled
<1> QED
  BY <1>1, <1>2, <1>3 DEF FramesPc, FramesPayload

LEMMA ReceiveDatagramMaps ==
  ASSUME WireInv, NEW d \in Datagrams, ReceiveDatagram(d)
  PROVE  \E s \in 1 .. Len(Session) : Frames!Receive(s)
<1>1. PICK s \in 1 .. Len(Session) : Push(Session[s]) /\ ParseMessage(d).payload = Messages[s]
  BY DatagramPushes
<1>2. Messages[s].seq = s
  BY SessionBytes
<1>3. /\ pc = "select" /\ pushes < MaxPushes /\ pc' = IF gap_start' # 0 THEN "recover" ELSE "drain"
      /\ last' = s /\ outcome' = "none" /\ UNCHANGED <<server, conn, payload, recovery_events, handled>>
  BY <1>1, <1>2 DEF ReceiveDatagram
<1>4. pc' \in {"recover", "drain"}
  BY <1>3
<1>5. Frames!Push(Session[s])
  BY <1>1, FramesPush
<1>6. /\ FramesPc = "select" /\ FramesPc' = IF gap_start' # 0 THEN "recover" ELSE "drain"
      /\ FramesConn' = FramesConn /\ FramesHandled' = FramesHandled /\ FramesPayload' = FramesPayload
  BY <1>3, <1>4, FramesMap
<1>7. Frames!Receive(s)
  BY <1>3, <1>5, <1>6 DEF Frames!Receive
<1> QED
  BY <1>7

LEMMA DrainFramesMaps ==
  ASSUME WireInv, DrainFrames
  PROVE  Frames!Drain
<1> DEFINE n == Len(handled)
           m == Len(ready)
<1>1. WireInv'
  BY DrainFramesKeepsInv
<1>2. /\ n \in Nat /\ m \in Nat /\ Len(Session) \in Nat /\ ready \in Seq(Frame) /\ handled \in Seq(MessageSet)
      /\ Session \in Seq(Frame)
  BY CoreTypes, SessionLen DEF WireInv
<1>3. /\ n + m + 1 = next_expected /\ \A i \in 1 .. n : handled[i] = Messages[i]
  BY DEF WireInv, CoreInv, HandledMessages
<1>4. ready' = <<>> /\ next_expected' = next_expected
  BY DEF DrainFrames, ClearReady
<1>5. /\ handled' \in Seq(MessageSet) /\ Len(handled') + 0 + 1 = next_expected
      /\ \A i \in 1 .. Len(handled') : handled'[i] = Messages[i]
  BY <1>1, <1>4 DEF WireInv, CoreInv, HandledMessages
<1>6. Len(handled') = n + m
  <2>1. Len(handled') \in Nat
    BY <1>5, LenProperties
  <2> QED
    BY <1>2, <1>3, <1>5, <2>1
<1>7. \A i \in 1 .. m : n + i \in 1 .. Len(Session) /\ ready[i] = Session[n + i]
  BY ReadyIsSession DEF WireInv
<1>8. n + m <= Len(Session)
  <2>1. next_expected <= Len(Session) + 1
    BY DEF WireInv, CoreInv, BufferInv
  <2> QED
    BY <1>2, <1>3, <2>1
<1>9. DOMAIN handled = 1 .. n /\ DOMAIN handled' = 1 .. (n + m)
  BY <1>2, <1>5, <1>6
<1> HIDE DEF n, m
<1>10. \A i \in 1 .. (n + m) : i \in 1 .. Len(Session)
  BY <1>2, <1>8
<1>11. \A i \in 1 .. (n + m) : Messages[i].seq = i /\ Session[i] \in Frame
  BY <1>10, SessionBytes, SessionFrame
<1>12. FramesHandled = [i \in 1 .. n |-> Session[i]]
  <2>1. \A i \in 1 .. n : handled[i].seq = i
    <3>1. \A i \in 1 .. n : i \in 1 .. (n + m)
      BY <1>2
    <3> QED
      BY <1>3, <1>11, <3>1
  <2> QED
    BY <1>9, <2>1 DEF FramesHandled
<1>13. FramesHandled' = [i \in 1 .. (n + m) |-> Session[i]]
  <2>1. \A i \in 1 .. (n + m) : handled'[i].seq = i
    BY <1>5, <1>6, <1>11
  <2> QED
    BY <1>9, <2>1 DEF FramesHandled
<1> DEFINE h == [i \in 1 .. n |-> Session[i]]
           g == [i \in 1 .. (n + m) |-> Session[i]]
<1>14. h \in Seq(Frame) /\ Len(h) = n /\ \A i \in 1 .. n : h[i] = Session[i]
  <2>1. \A i \in 1 .. n : Session[i] \in Frame
    <3>1. \A i \in 1 .. n : i \in 1 .. (n + m)
      BY <1>2
    <3> QED
      BY <1>11, <3>1
  <2> QED
    BY <1>2, <2>1
<1>15. g \in Seq(Frame) /\ Len(g) = n + m /\ \A i \in 1 .. (n + m) : g[i] = Session[i]
  BY <1>2, <1>11
<1> HIDE DEF h, g
<1>16. Len(ready) = m
  BY DEF m
<1>17. h \o ready \in Seq(Frame) /\ Len(h \o ready) = n + m
  BY <1>2, <1>14, <1>16, ConcatProperties
<1>18. ASSUME NEW i \in 1 .. (n + m) PROVE (h \o ready)[i] = g[i]
  <2>0. (h \o ready)[i] = IF i <= n THEN h[i] ELSE ready[i - n]
    BY <1>2, <1>14, <1>16, ConcatProperties
  <2>1. CASE i <= n
    <3>1. i \in 1 .. n
      BY <1>2, <2>1
    <3> QED
      BY <1>14, <1>15, <2>0, <2>1, <3>1
  <2>2. CASE ~(i <= n)
    <3> DEFINE j == i - n
    <3>1. j \in 1 .. m /\ n + j = i
      BY <1>2, <2>2
    <3>2. (h \o ready)[i] = ready[j]
      BY <2>0, <2>2
    <3> HIDE DEF j
    <3> QED
      BY <1>7, <1>15, <3>1, <3>2
  <2> QED
    BY <2>1, <2>2
<1>19. h \o ready = g
  BY <1>15, <1>17, <1>18, SeqEqual
<1>20. FramesHandled' = FramesHandled \o ready
  BY <1>12, <1>13, <1>19 DEF g, h
<1>21. /\ pc = "drain" /\ pc' = "select" /\ UNCHANGED <<server, conn, recovery_events, last, outcome>>
       /\ ClearReady
  BY DEF DrainFrames
<1>22. /\ FramesPc = "drain" /\ FramesPc' = "select" /\ FramesConn' = FramesConn /\ FramesPayload' = FramesPayload
       /\ Frames!ClearReady
  BY <1>21, FramesMap, FramesClear
<1> QED
  BY <1>20, <1>21, <1>22 DEF Frames!Drain

LEMMA SendRequestMaps ==
  ASSUME WireInv, SendRequest
  PROVE  Frames!Connect
<1>1. gap_start \in 0 .. Len(Session) /\ gap_end \in 0 .. Len(Session)
  BY CoreTypes DEF WireInv
<1>2. /\ conn' = Conn("requested", 0, 0, EncodeMessage(Request(gap_start, gap_end)))
      /\ pc = "recover" /\ server = "up" /\ pc' = "await"
      /\ UNCHANGED <<trackerVars, server, payload, recovery_events, handled, last, outcome>>
  BY DEF SendRequest, Request
<1>3. conn'.state = "requested" /\ conn'.frames = EncodeMessage(Request(gap_start, gap_end))
  BY <1>2 DEF Conn
<1>4. ImageOf(conn') = Conn("requested", gap_start, gap_end, <<>>)
  BY <1>1, <1>3, ImageFacts
<1>5. /\ FramesPc = "recover" /\ FramesPc' = "await" /\ FramesPayload' = FramesPayload /\ FramesHandled' = FramesHandled
      /\ FramesConn' = Frames!Conn("requested", gap_start, gap_end, <<>>)
  BY <1>2, <1>4, FramesMap, FramesSame
<1> QED
  BY <1>2, <1>5, FramesTrackerVars DEF Frames!Connect

LEMMA ServeRequestMaps ==
  ASSUME WireInv, ServeRequest
  PROVE  Frames!Serve
<1>1. /\ server = "up" /\ conn.state = "requested"
      /\ UNCHANGED <<trackerVars, pc, server, payload, recovery_events, handled, last, outcome>>
  BY DEF ServeRequest
<1>2. PICK a \in 0 .. Len(Session), b \in 0 .. Len(Session) : conn.frames = EncodeMessage(Request(a, b))
  BY <1>1 DEF WireInv, StreamInv
<1>3. DecodeStruct(WireBody[MsgType.GapRequest], conn.frames, HeaderSize) = [start_seq |-> a, end_seq |-> b]
  BY <1>2, RequestLoads
<1>4. conn'.state = "answered" /\ conn'.start = a /\ conn'.end = b
  BY <1>3 DEF ServeRequest, Conn
<1>5. ImageOf(conn) = Conn("requested", a, b, <<>>) /\ ImageOf(conn') = Conn("answered", a, b, GapPayload(a, b))
  BY <1>1, <1>2, <1>4, ImageFacts
<1>6. FramesConn.state = "requested" /\ FramesConn.start = a /\ FramesConn.end = b
  BY <1>5, FramesMap DEF Conn
<1>7. FramesConn' = Frames!Conn("answered", FramesConn.start, FramesConn.end,
                                Frames!GapPayload(FramesConn.start, FramesConn.end))
  BY <1>5, <1>6, FramesMap, FramesSame
<1>8. pc = "await"
  BY <1>1 DEF WireInv, PhaseInv
<1>9. FramesPc' = FramesPc /\ FramesPayload' = FramesPayload /\ FramesHandled' = FramesHandled
  BY <1>1, <1>8, FramesMap
<1> QED
  BY <1>1, <1>6, <1>7, <1>9, FramesTrackerVars DEF Frames!Serve

\* The steps that receive bytes are not seen.
LEMMA ReceivingIsHidden ==
  ASSUME WireInv, ReceiveResponse \/ \E n \in Chunks : ReceiveChunk(n)
  PROVE  UNCHANGED Frames!vars
<1>1. /\ conn.state \in {"answered", "open"} /\ pc \in {"await", "recv"} /\ pc' = "recv"
      /\ conn'.state = "open" /\ conn'.start = conn.start /\ conn'.end = conn.end
      /\ UNCHANGED <<trackerVars, server, recovery_events, handled, last, outcome>>
  <2>1. CASE ReceiveResponse
    BY <2>1 DEF ReceiveResponse, Conn
  <2>2. CASE \E n \in Chunks : ReceiveChunk(n)
    <3>1. PICK n \in Chunks : ReceiveChunk(n)
      BY <2>2
    <3>2. pc = "recv" /\ conn.state = "open"
      BY <3>1 DEF ReceiveChunk, WireInv, PhaseInv
    <3>3. conn = [state |-> conn.state, start |-> conn.start, end |-> conn.end, frames |-> conn.frames]
      BY DEF WireInv, StreamInv, Conn
    <3>4. conn'.state = conn.state /\ conn'.start = conn.start /\ conn'.end = conn.end
      BY <3>1, <3>3 DEF ReceiveChunk
    <3> QED
      BY <3>1, <3>2, <3>4 DEF ReceiveChunk
  <2> QED
    BY <2>1, <2>2
<1>2. ImageOf(conn') = ImageOf(conn)
  BY <1>1, ImageFacts
<1>3. FramesConn' = FramesConn /\ FramesPc' = FramesPc /\ FramesPayload' = FramesPayload /\ FramesHandled' = FramesHandled
  BY <1>1, <1>2, FramesMap
<1> QED
  BY <1>1, <1>3, FramesTrackerVars DEF Frames!vars, Frames!feedVars

\* The sequence from a position on, and what is left of it after its first element.
LEMMA CutHead ==
  ASSUME NEW S, NEW p \in Seq(S), NEW a \in Nat, NEW b \in Nat, a < b, b <= Len(p)
  PROVE  /\ SubSeq(p, a + 1, b) # <<>> /\ Head(SubSeq(p, a + 1, b)) = p[a + 1]
         /\ Tail(SubSeq(p, a + 1, b)) = SubSeq(p, (a + 1) + 1, b)
<1> DEFINE w == b - a
           v == w - 1
           c == a + 1
           x == SubSeq(p, a + 1, a + w)
           y == SubSeq(p, c + 1, c + v)
<1>1. w \in Nat /\ v \in Nat /\ c \in Nat /\ a + w = b /\ c + v = b /\ w = v + 1
  OBVIOUS
<1>2. x = SubSeq(p, a + 1, b) /\ y = SubSeq(p, (a + 1) + 1, b)
  BY <1>1
<1>a. c = a + 1 /\ Len(p) \in Nat
  BY LenProperties
<1> HIDE DEF w, v, c
<1>3. x \in Seq(S) /\ Len(x) = w /\ \A i \in 1 .. w : x[i] = p[a + i]
  <2>1. a + w <= Len(p) /\ a \in Nat /\ w \in Nat
    BY <1>1
  <2> QED
    BY <2>1, Slice, Zenon
<1>4. y \in Seq(S) /\ Len(y) = v /\ \A i \in 1 .. v : y[i] = p[c + i]
  <2>1. c + v <= Len(p) /\ c \in Nat /\ v \in Nat
    BY <1>1
  <2> QED
    BY <2>1, Slice, Zenon
<1> HIDE DEF x, y
<1>5. x # <<>> /\ Head(x) = p[a + 1]
  <2>1. x # <<>> /\ 1 \in 1 .. w
    BY <1>1, <1>3
  <2>2. Head(x) = x[1]
    BY <1>3, <2>1, HeadTailProperties
  <2> QED
    BY <1>3, <2>1, <2>2
<1>6. Tail(x) \in Seq(S) /\ Len(Tail(x)) = v /\ \A i \in 1 .. v : Tail(x)[i] = x[i + 1]
  <2>1. Tail(x) \in Seq(S) /\ Len(Tail(x)) = Len(x) - 1 /\ \A i \in 1 .. Len(Tail(x)) : Tail(x)[i] = x[i + 1]
    BY <1>3, <1>5, HeadTailProperties
  <2>2. Len(x) - 1 = v
    BY <1>1, <1>3
  <2> QED
    BY <2>1, <2>2
<1>7. ASSUME NEW i \in 1 .. v PROVE Tail(x)[i] = y[i]
  <2>1. i + 1 \in 1 .. w /\ a + (i + 1) = c + i
    BY <1>1, <1>a
  <2>2. x[i + 1] = p[a + (i + 1)]
    BY <1>3, <2>1
  <2> QED
    BY <1>4, <1>6, <2>1, <2>2
<1>8. Tail(x) = y
  BY <1>4, <1>6, <1>7, SeqEqual
<1> QED
  BY <1>2, <1>5, <1>8

\* What is left to replay.
LEMMA FramesPayloadIs ==
  ASSUME FromSessionSeq(Requested), off \in Nat, Len(payload) \in Nat, pc = "replay",
         NEW k, NEW top, WholeUpTo(Requested, off, k), WholeUpTo(Requested, Len(payload), top)
  PROVE  FramesPayload = SubSeq(Requested, k + 1, top)
<1>1. Cardinality(WholeFrames(Requested, off)) = k /\ Cardinality(WholeFrames(Requested, Len(payload))) = top
  BY WholeCount
<1> QED
  BY <1>1 DEF FramesPayload

LEMMA ReplayState ==
  ASSUME WireInv, pc = "replay"
  PROVE  /\ conn.state = "closed" /\ FromSessionSeq(Requested) /\ Requested \in Seq(Frame)
         /\ payload \in Seq(Nat) /\ Begins(payload, BytesOf(Requested)) /\ Len(payload) \in Nat
         /\ off \in Nat /\ FramesConn = NoConn
         /\ \E k \in 0 .. Len(Requested), top \in 0 .. Len(Requested) :
              /\ off = EndIn(Requested, k) /\ off <= Len(payload)
              /\ WholeUpTo(Requested, Len(payload), top) /\ FramesPayload = SubSeq(Requested, k + 1, top)
<1>1. conn.state = "closed"
  BY DEF WireInv, PhaseInv
<1>2. FromSessionSeq(Requested) /\ PayloadBytes = BytesOf(Requested)
  BY <1>1, PayloadFacts DEF WireInv, PayloadBytes
<1>3. payload \in Seq(Nat) /\ Begins(payload, BytesOf(Requested))
  BY <1>1, <1>2 DEF WireInv, StreamInv
<1>4. Len(payload) \in Nat /\ Requested \in Seq(Frame)
  BY <1>2, <1>3, LenProperties DEF FromSessionSeq
<1>5. PICK k \in 0 .. Len(Requested) : off = EndIn(Requested, k) /\ off <= Len(payload)
  BY <1>1 DEF WireInv, StreamInv
<1>6. off \in Nat
  BY <1>2, <1>5, EndFacts
<1>7. WholeUpTo(Requested, off, k)
  BY <1>2, <1>5, WholeIsUnique
<1>8. PICK top \in 0 .. Len(Requested) : WholeUpTo(Requested, Len(payload), top)
  BY <1>2, <1>4, WholeExists
<1>9. FramesPayload = SubSeq(Requested, k + 1, top)
  BY <1>2, <1>4, <1>6, <1>7, <1>8, FramesPayloadIs
<1>10. FramesConn = NoConn
  BY <1>1, ImageFacts, FramesMap
<1>11. \E kk \in 0 .. Len(Requested), tt \in 0 .. Len(Requested) :
              /\ off = EndIn(Requested, kk) /\ off <= Len(payload)
              /\ WholeUpTo(Requested, Len(payload), tt) /\ FramesPayload = SubSeq(Requested, kk + 1, tt)
  BY <1>5, <1>8, <1>9
<1> QED
  BY <1>1, <1>2, <1>3, <1>4, <1>6, <1>10, <1>11

LEMMA FinishReplayMaps ==
  ASSUME WireInv, FinishReplay
  PROVE  Frames!FinishRecovery
<1>1. /\ pc = "replay" /\ pc' = "drain" /\ conn' = NoConn /\ ClearGap
      /\ (off < Len(payload) => ParseMessage(Rest).status # "Ok")
      /\ recovery_events' = recovery_events + 1 /\ UNCHANGED <<server, handled, last, outcome>>
  BY DEF FinishReplay
<1> DEFINE R == Requested
           rest == Rest
<1>2. /\ conn.state = "closed" /\ FromSessionSeq(R) /\ R \in Seq(Frame)
      /\ payload \in Seq(Nat) /\ Begins(payload, BytesOf(R)) /\ Len(payload) \in Nat
      /\ off \in Nat /\ FramesConn = NoConn
  BY <1>1, ReplayState
<1>3. PICK k \in 0 .. Len(R), top \in 0 .. Len(R) :
              /\ off = EndIn(R, k) /\ off <= Len(payload)
              /\ WholeUpTo(R, Len(payload), top) /\ FramesPayload = SubSeq(R, k + 1, top)
  BY <1>1, ReplayState
<1>4. rest = SubSeq(payload, EndIn(R, k) + 1, Len(payload))
  BY <1>3 DEF Rest
<1> HIDE DEF R, rest
<1>5. Len(R) \in Nat /\ k \in Nat /\ top \in Nat
  BY <1>2, LenProperties
<1>6. top <= k
  <2> SUFFICES ASSUME ~(top <= k) PROVE FALSE
    OBVIOUS
  <2>1. k < Len(R) /\ k + 1 \in 0 .. Len(R) /\ (k + 1 = top \/ k + 1 < top)
    BY <1>5
  <2>2. EndIn(R, top) <= Len(payload) /\ EndIn(R, top) \in Nat /\ EndIn(R, k + 1) \in Nat
    BY <1>2, <1>3, <2>1, EndFacts DEF WholeUpTo
  <2>3. k + 1 = top \/ EndIn(R, k + 1) < EndIn(R, top)
    BY <1>2, <2>1, EndsIncrease
  <2>4. EndIn(R, k + 1) <= Len(payload)
    BY <1>2, <2>2, <2>3
  <2>5. ParseMessage(rest).status = "Ok" /\ EndIn(R, k) < Len(payload)
    BY <1>2, <1>4, <2>1, <2>4, WholeFrameParses
  <2> QED
    BY <1>1, <1>3, <2>5 DEF rest
<1>7. FramesPayload = <<>>
  <2>1. SubSeq(R, k + 1, top) = <<>>
    BY <1>2, <1>5, <1>6
  <2> QED
    BY <1>3, <2>1
<1>8. ImageOf(conn') = NoConn
  <2>1. conn'.state = "none"
    BY <1>1, NoConnFacts
  <2> QED
    BY <2>1, ImageFacts
<1>9. /\ FramesPc = "replay" /\ FramesPc' = "drain" /\ FramesConn' = FramesConn /\ FramesHandled' = FramesHandled
      /\ FramesPayload' = FramesPayload /\ Frames!ClearGap
  BY <1>1, <1>2, <1>7, <1>8, FramesMap, FramesClear
<1> QED
  BY <1>1, <1>7, <1>9 DEF Frames!FinishRecovery

LEMMA ReplayFrameMaps ==
  ASSUME WireInv, ReplayFrame
  PROVE  Frames!Replay
<1>1. /\ pc = "replay" /\ off < Len(payload) /\ ParseMessage(Rest).status = "Ok"
      /\ PushBytes(SubSeq(Rest, 1, ParseMessage(Rest).consumed))
      /\ off' = off + ParseMessage(Rest).consumed
      /\ UNCHANGED <<pc, server, conn, payload, recovery_events, handled, last, outcome, nbytes>>
  BY DEF ReplayFrame
<1> DEFINE R == Requested
           rest == Rest
<1>2. /\ FromSessionSeq(R) /\ R \in Seq(Frame)
      /\ payload \in Seq(Nat) /\ Begins(payload, BytesOf(R)) /\ Len(payload) \in Nat /\ off \in Nat
  BY <1>1, ReplayState
<1>3. PICK k \in 0 .. Len(R), top \in 0 .. Len(R) :
              /\ off = EndIn(R, k) /\ off <= Len(payload)
              /\ WholeUpTo(R, Len(payload), top) /\ FramesPayload = SubSeq(R, k + 1, top)
  BY <1>1, ReplayState
<1>4. rest = SubSeq(payload, EndIn(R, k) + 1, Len(payload)) /\ EndIn(R, k) < Len(payload)
      /\ ParseMessage(rest).status = "Ok"
  BY <1>1, <1>3 DEF Rest
<1>5. Requested' = R
  BY <1>1 DEF Requested
<1>6. /\ FramesPayload' = SubSeq(R, Cardinality(WholeFrames(R, off')) + 1, Cardinality(WholeFrames(R, Len(payload))))
  BY <1>1, <1>5 DEF FramesPayload
<1> HIDE DEF R, rest
<1>7. PICK s \in 1 .. Len(Session) : StartsFrame(rest, s, R, k, payload)
  BY <1>2, <1>4, NextFrameParses
<1>8. /\ k + 1 \in 0 .. Len(R) /\ R[k + 1] = Session[s]
      /\ rest \in Seq(Nat) /\ Begins(Session[s].body, rest)
      /\ EndIn(R, k + 1) = EndIn(R, k) + Len(Session[s].body)
      /\ EndIn(R, k + 1) <= Len(payload)
  BY <1>7 DEF StartsFrame
<1>9. Push(Session[s]) /\ ParseMessage(rest).consumed = Len(Session[s].body)
  BY <1>1, <1>8, PushBytesPushes DEF rest
<1>10. off' = EndIn(R, k + 1) /\ off' \in Nat
  <2>1. off' = EndIn(R, k + 1)
    BY <1>1, <1>3, <1>8, <1>9 DEF rest
  <2>2. EndIn(R, k + 1) \in Nat
    BY <1>2, <1>8, EndFacts
  <2> QED
    BY <2>1, <2>2
<1>11. WholeUpTo(R, off', k + 1)
  BY <1>2, <1>8, <1>10, WholeIsUnique
<1>12. Cardinality(WholeFrames(R, off')) = k + 1 /\ Cardinality(WholeFrames(R, Len(payload))) = top
  BY <1>2, <1>3, <1>10, <1>11, WholeCount
<1>13. k \in Nat /\ top \in Nat /\ Len(R) \in Nat /\ top <= Len(R)
  BY <1>2, LenProperties
<1>14. k < top
  <2> SUFFICES ASSUME ~(k < top) PROVE FALSE
    OBVIOUS
  <2>1. top < Len(R) /\ top + 1 \in 0 .. Len(R) /\ (top = k \/ top + 1 < k + 1)
    BY <1>8, <1>13
  <2>2. Len(payload) < EndIn(R, top + 1) /\ EndIn(R, top + 1) \in Nat /\ EndIn(R, k + 1) \in Nat
    BY <1>2, <1>3, <1>8, <2>1, EndFacts DEF WholeUpTo
  <2>3. top = k \/ EndIn(R, top + 1) < EndIn(R, k + 1)
    BY <1>2, <1>8, <2>1, EndsIncrease
  <2>4. Len(payload) < EndIn(R, k + 1)
    BY <1>2, <2>2, <2>3
  <2> QED
    BY <1>2, <1>8, <2>2, <2>4
<1>15. /\ FramesPayload # <<>> /\ Head(FramesPayload) = R[k + 1] /\ Tail(FramesPayload) = SubSeq(R, (k + 1) + 1, top)
  BY <1>2, <1>3, <1>13, <1>14, CutHead
<1>16. FramesPayload' = Tail(FramesPayload)
  BY <1>6, <1>12, <1>15
<1>17. Frames!Push(Head(FramesPayload))
  <2>1. Head(FramesPayload) = Session[s]
    BY <1>8, <1>15
  <2>2. Frames!Push(Session[s])
    BY <1>9, FramesPush
  <2> QED
    BY <2>1, <2>2
<1>18. FramesPc = "replay" /\ FramesPc' = FramesPc /\ FramesConn' = FramesConn /\ FramesHandled' = FramesHandled
  BY <1>1, FramesMap
<1> QED
  BY <1>1, <1>15, <1>16, <1>17, <1>18 DEF Frames!Replay

LEMMA ReceiveEndsMaps ==
  ASSUME WireInv, ReceiveEnds
  PROVE  Frames!ReceivePayload
<1> DEFINE R == Requested
           n == Len(payload)
<1>1. /\ pc = "recv" /\ pc' = "replay" /\ conn' = Conn("closed", conn.start, conn.end, <<>>)
      /\ (Len(payload) = nbytes \/ conn.frames = <<>> \/ LinkFaults)
      /\ outcome' = IF Len(payload) = nbytes THEN "complete" ELSE "partial"
      /\ UNCHANGED <<trackerVars, server, payload, recovery_events, handled, last, nbytes, off>>
  BY DEF ReceiveEnds
<1>2. conn.state = "open"
  BY <1>1 DEF WireInv, PhaseInv
<1>3. /\ payload \in Seq(Nat) /\ conn.frames \in Seq(Nat) /\ payload \o conn.frames = PayloadBytes
      /\ nbytes = Len(PayloadBytes) /\ off = 0
  BY <1>2 DEF WireInv, StreamInv
<1>4. FromSessionSeq(R) /\ PayloadBytes = BytesOf(R) /\ R \in Seq(Frame)
  BY <1>2, PayloadFacts DEF WireInv, PayloadBytes, FromSessionSeq
<1>5. conn'.state = "closed" /\ conn'.start = conn.start /\ conn'.end = conn.end
  BY <1>1 DEF Conn
<1>6. Requested' = R
  BY <1>5 DEF Requested
<1>7. FramesPayload' = SubSeq(R, Cardinality(WholeFrames(R, 0)) + 1, Cardinality(WholeFrames(R, n)))
  BY <1>1, <1>3, <1>6 DEF FramesPayload
<1>8. FramesConn = Conn("answered", conn.start, conn.end, R)
  BY <1>2, ImageFacts, FramesMap DEF Requested
<1>9. FramesConn' = Frames!NoConn
  BY <1>5, ImageFacts, FramesMap, FramesSame
<1>10. nbytes = EndIn(R, Len(R)) /\ EndIn(R, 0) = 0 /\ Len(R) \in Nat /\ nbytes \in Nat /\ n \in Nat
  <2>1. Len(R) \in Nat /\ Len(payload) \in Nat
    BY <1>3, <1>4, LenProperties
  <2>2. Len(R) \in 0 .. Len(R)
    BY <2>1
  <2> QED
    BY <1>3, <1>4, <2>1, <2>2, EndFacts
<1>11. n <= nbytes /\ (conn.frames = <<>> => n = nbytes)
  <2>1. Begins(payload, PayloadBytes)
    BY <1>3, ConcatBegins
  <2>2. conn.frames = <<>> => payload = PayloadBytes
    BY <1>3
  <2> QED
    BY <1>3, <2>1, <2>2 DEF Begins
<1>12. FramesConn.state = "answered" /\ FramesConn.frames = R
  BY <1>8 DEF Conn
<1> HIDE DEF R, n
<1>13. PICK top \in 0 .. Len(R) : WholeUpTo(R, n, top)
  BY <1>4, <1>10, WholeExists
<1>14. WholeUpTo(R, 0, 0)
  <2>1. 0 \in 0 .. Len(R)
    BY <1>10
  <2> QED
    BY <1>4, <1>10, <2>1, WholeIsUnique
<1>15. FramesPayload' = SubSeq(R, 1, top)
  <2>1. Cardinality(WholeFrames(R, 0)) = 0 /\ Cardinality(WholeFrames(R, n)) = top
    BY <1>4, <1>10, <1>13, <1>14, WholeCount
  <2> QED
    BY <1>7, <2>1
<1>16. top = Len(R) <=> n = nbytes
  <2>1. ASSUME top = Len(R) PROVE n = nbytes
    BY <1>10, <1>11, <1>13, <2>1 DEF WholeUpTo
  <2>2. ASSUME n = nbytes PROVE top = Len(R)
    <3> SUFFICES ASSUME top # Len(R) PROVE FALSE
      OBVIOUS
    <3>1. top < Len(R) /\ top + 1 \in 0 .. Len(R)
      BY <1>10
    <3>2. n < EndIn(R, top + 1)
      BY <1>13, <3>1 DEF WholeUpTo
    <3>3. EndIn(R, top + 1) <= nbytes /\ EndIn(R, top + 1) \in Nat
      BY <1>3, <1>4, <3>1, EndsGrow, EndFacts
    <3> QED
      BY <1>10, <2>2, <3>2, <3>3
  <2> QED
    BY <2>1, <2>2
<1>17. outcome' = IF top = Len(R) THEN "complete" ELSE "partial"
  BY <1>1, <1>16 DEF n
<1>18. top \in IF LinkFaults THEN 0 .. Len(R) ELSE {Len(R)}
  BY <1>1, <1>11, <1>13, <1>16 DEF n
<1>19. FramesPc = "await" /\ FramesPc' = "replay" /\ FramesHandled' = FramesHandled
  BY <1>1, FramesMap
<1> QED
  BY <1>1, <1>9, <1>12, <1>15, <1>17, <1>18, <1>19, FramesTrackerVars DEF Frames!ReceivePayload

LEMMA ImageState ==
  /\ conn.state = "requested" <=> FramesConn.state = "requested"
  /\ conn.state = "answered" => FramesConn.state = "answered"
<1>1. FramesConn = ImageOf(conn)
  BY FramesMap
<1>2. CASE conn.state = "requested"
  BY <1>1, <1>2 DEF ImageOf, Conn
<1>3. CASE conn.state \in {"answered", "open"}
  BY <1>1, <1>3, ImageFacts DEF Conn
<1>4. CASE conn.state = "reset"
  BY <1>1, <1>4, ImageFacts
<1>5. CASE conn.state \notin {"requested", "answered", "open", "reset"}
  BY <1>1, <1>5, ImageFacts, NoConnFacts
<1> QED
  BY <1>2, <1>3, <1>4, <1>5

LEMMA FaultsMap ==
  ASSUME WireInv, UNCHANGED <<nbytes, off>>
  PROVE  /\ ConnectFails => Frames!ConnectFails
         /\ ResponseFails => Frames!ResponseFails
         /\ LinkBreaks => Frames!LinkBreaks
         /\ ServerStops => Frames!ServerStops
<1>1. ASSUME ConnectFails PROVE Frames!ConnectFails
  <2>1. /\ pc = "recover" /\ pc' = "drain" /\ (server = "down" \/ LinkFaults) /\ outcome' = "failed"
        /\ UNCHANGED <<trackerVars, server, conn, payload, recovery_events, handled, last>>
    BY <1>1 DEF ConnectFails
  <2>2. /\ FramesPc = "recover" /\ FramesPc' = "drain" /\ FramesConn' = FramesConn
        /\ FramesPayload' = FramesPayload /\ FramesHandled' = FramesHandled
    BY <2>1, FramesMap
  <2> QED
    BY <2>1, <2>2, FramesTrackerVars DEF Frames!ConnectFails
<1>2. ASSUME ResponseFails PROVE Frames!ResponseFails
  <2>1. /\ pc = "await" /\ pc' = "drain" /\ conn.state = "reset" /\ conn' = NoConn /\ outcome' = "failed"
        /\ UNCHANGED <<trackerVars, server, payload, recovery_events, handled, last>>
    BY <1>2 DEF ResponseFails
  <2>2. conn'.state = "none"
    BY <2>1, NoConnFacts
  <2>3. FramesConn.state = "reset" /\ FramesConn' = Frames!NoConn
    BY <2>1, <2>2, ImageFacts, FramesMap, FramesSame
  <2>4. FramesPc = "await" /\ FramesPc' = "drain" /\ FramesPayload' = FramesPayload /\ FramesHandled' = FramesHandled
    BY <2>1, FramesMap
  <2> QED
    BY <2>1, <2>3, <2>4, FramesTrackerVars DEF Frames!ResponseFails
<1>3. ASSUME LinkBreaks PROVE Frames!LinkBreaks
  <2>1. /\ LinkFaults /\ conn.state \in {"requested", "answered"} /\ conn' = Conn("reset", 0, 0, <<>>)
        /\ UNCHANGED <<trackerVars, pc, server, payload, recovery_events, handled, last, outcome>>
    BY <1>3 DEF LinkBreaks
  <2>2. FramesConn.state \in {"requested", "answered"}
    BY <2>1, ImageState
  <2>3. FramesConn' = Frames!Conn("reset", 0, 0, <<>>)
    <3>1. conn'.state = "reset"
      BY <2>1 DEF Conn
    <3> QED
      BY <2>1, <3>1, ImageFacts, FramesMap, FramesSame
  <2>4. pc = "await"
    BY <2>1 DEF WireInv, PhaseInv
  <2>5. FramesPc' = FramesPc /\ FramesPayload' = FramesPayload /\ FramesHandled' = FramesHandled
    BY <2>1, <2>4, FramesMap
  <2> QED
    BY <2>1, <2>2, <2>3, <2>5, FramesTrackerVars DEF Frames!LinkBreaks
<1>4. ASSUME ServerStops PROVE Frames!ServerStops
  <2>1. /\ LinkFaults /\ server = "up" /\ server' = "down"
        /\ conn' = IF conn.state = "requested" THEN Conn("reset", 0, 0, <<>>) ELSE conn
        /\ UNCHANGED <<trackerVars, pc, payload, recovery_events, handled, last, outcome>>
    BY <1>4 DEF ServerStops, StopServer
  <2>2. FramesConn' = IF FramesConn.state = "requested" THEN Frames!Conn("reset", 0, 0, <<>>) ELSE FramesConn
    <3>1. CASE conn.state = "requested"
      <4>1. conn' = Conn("reset", 0, 0, <<>>) /\ FramesConn.state = "requested"
        BY <2>1, <3>1, ImageState
      <4>2. conn'.state = "reset"
        BY <4>1 DEF Conn
      <4> QED
        BY <4>1, <4>2, ImageFacts, FramesMap, FramesSame
    <3>2. CASE conn.state # "requested"
      <4>1. FramesConn.state # "requested" /\ conn' = conn
        BY <2>1, <3>2, ImageState
      <4> QED
        BY <4>1, FramesMap
    <3> QED
      BY <3>1, <3>2
  <2>3. FramesPc' = FramesPc /\ FramesHandled' = FramesHandled
    BY <2>1, FramesMap
  <2>4. FramesPayload' = FramesPayload
    <3>1. CASE pc = "replay"
      <4>1. conn' = conn /\ off' = off
        BY <2>1, <3>1 DEF WireInv, PhaseInv
      <4> QED
        BY <2>1, <4>1 DEF FramesPayload, Requested
    <3>2. CASE pc # "replay"
      BY <2>1, <3>2, FramesMap
    <3> QED
      BY <3>1, <3>2
  <2> QED
    BY <2>1, <2>2, <2>3, <2>4, FramesTrackerVars DEF Frames!ServerStops, Frames!StopServer
<1> QED
  BY <1>1, <1>2, <1>3, <1>4

LEMMA StutterMaps ==
  ASSUME UNCHANGED wireVars
  PROVE  UNCHANGED Frames!vars
<1>1. /\ UNCHANGED <<trackerVars, pc, server, conn, payload, recovery_events, handled, last, outcome, nbytes, off>>
  BY DEF wireVars, vars, feedVars
<1>2. FramesPc' = FramesPc /\ FramesConn' = FramesConn /\ FramesHandled' = FramesHandled
  BY <1>1, FramesMap DEF FramesPc
<1>3. FramesPayload' = FramesPayload
  BY <1>1 DEF FramesPayload, Requested
<1> QED
  BY <1>1, <1>2, <1>3, FramesTrackerVars DEF Frames!vars, Frames!feedVars

(***************************************************************************)
(* The receive path on bytes implements the receive path on frames: what   *)
(* is proved of RecoveringFeed holds of the bytes.                         *)
(***************************************************************************)
THEOREM BytesImplementFrames == WireSpec => ImplementsRecoveringFeed
<1>1. WireInit => Frames!Init
  <2> SUFFICES ASSUME WireInit PROVE Frames!Init
    OBVIOUS
  <2>1. /\ TrackerInit /\ pc = "select" /\ conn = NoConn /\ handled = <<>> /\ recovery_events = 0
        /\ last = 0 /\ outcome = "none" /\ server = "up"
    BY DEF WireInit, Init, FeedInit
  <2>2. Frames!TrackerInit
    BY <2>1 DEF TrackerInit, Frames!TrackerInit, Slots, Frames!Slots
  <2>3. FramesPc = "select" /\ FramesConn = Frames!NoConn /\ FramesPayload = <<>>
    BY <2>1, NoConnFacts, ImageFacts, FramesMap, FramesSame
  <2>4. FramesHandled = <<>>
    BY <2>1 DEF FramesHandled
  <2> QED
    BY <2>1, <2>2, <2>3, <2>4 DEF Frames!Init, Frames!FeedInit
<1>2. WireInv /\ [WireNext]_wireVars => [Frames!Next]_Frames!vars
  <2> SUFFICES ASSUME WireInv, [WireNext]_wireVars PROVE Frames!Next \/ UNCHANGED Frames!vars
    OBVIOUS
  <2>1. CASE UNCHANGED wireVars
    BY <2>1, StutterMaps
  <2>2. CASE \E d \in Datagrams : ReceiveDatagram(d) \/ IgnoreDatagram(d)
    <3>1. PICK d \in Datagrams : ReceiveDatagram(d) \/ IgnoreDatagram(d)
      BY <2>2
    <3>2. CASE ReceiveDatagram(d)
      BY <3>2, ReceiveDatagramMaps DEF Frames!Next
    <3>3. CASE IgnoreDatagram(d)
      BY <2>1, <3>3 DEF IgnoreDatagram
    <3> QED
      BY <3>1, <3>2, <3>3
  <2>3. CASE DrainFrames
    BY <2>3, DrainFramesMaps DEF Frames!Next, Frames!FeedStep
  <2>4. CASE SendRequest
    BY <2>4, SendRequestMaps DEF Frames!Next, Frames!FeedStep
  <2>5. CASE ReceiveResponse \/ \E n \in Chunks : ReceiveChunk(n)
    BY <2>5, ReceivingIsHidden
  <2>6. CASE ReceiveEnds
    BY <2>6, ReceiveEndsMaps DEF Frames!Next, Frames!FeedStep
  <2>7. CASE ReplayFrame
    BY <2>7, ReplayFrameMaps DEF Frames!Next, Frames!FeedStep
  <2>8. CASE FinishReplay
    BY <2>8, FinishReplayMaps DEF Frames!Next, Frames!FeedStep
  <2>9. CASE ServeRequest
    BY <2>9, ServeRequestMaps DEF Frames!Next
  <2>10. CASE (ConnectFails \/ ResponseFails \/ LinkBreaks \/ ServerStops) /\ UNCHANGED <<nbytes, off>>
    BY <2>10, FaultsMap DEF Frames!Next, Frames!FeedStep
  <2>11. CASE LeaveLoop /\ UNCHANGED <<nbytes, off>>
    <3>1. /\ pc = "select" /\ pc' = "done"
          /\ UNCHANGED <<trackerVars, server, conn, payload, recovery_events, handled, last, outcome>>
      BY <2>11 DEF LeaveLoop
    <3>2. /\ FramesPc = "select" /\ FramesPc' = "done" /\ FramesConn' = FramesConn
          /\ FramesPayload' = FramesPayload /\ FramesHandled' = FramesHandled
      BY <3>1, FramesMap
    <3>3. Frames!LeaveLoop
      BY <3>1, <3>2, FramesTrackerVars DEF Frames!LeaveLoop
    <3> QED
      BY <3>3 DEF Frames!Next
  <2>12. CASE Terminated /\ UNCHANGED <<nbytes, off>>
    BY <2>1, <2>12 DEF Terminated, wireVars
  <2> QED
    BY <2>1, <2>2, <2>3, <2>4, <2>5, <2>6, <2>7, <2>8, <2>9, <2>10, <2>11, <2>12 DEF WireNext, WireFeedStep
<1> QED
  BY <1>1, <1>2, WireInvariant, PTL DEF WireSpec, ImplementsRecoveringFeed
=============================================================================
