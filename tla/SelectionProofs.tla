-------------------------- MODULE SelectionProofs --------------------------
(***************************************************************************)
(* Induction over the naturals and over the prefixes of a sequence, with   *)
(* sets in place of predicates, and what SelectIn returns.                 *)
(***************************************************************************)
EXTENDS Selection, WellFoundedInduction, TLAPS

\* A set of naturals that is not empty has a least element.
LEMMA LeastNatural ==
  ASSUME NEW T, T \subseteq Nat, T # {}
  PROVE  \E n \in T : \A m \in T : n <= m
<1> DEFINE R == OpToRel(<, Nat)
<1>1. IsWellFoundedOn(R, Nat)
  BY NatLessThanWellFounded
<1>2. ASSUME NEW m \in Nat, NEW n \in Nat, m < n PROVE <<m, n>> \in R
  BY <1>2 DEF OpToRel
<1> HIDE DEF R
<1>3. PICK n \in T : \A m \in T : ~(<<m, n>> \in R)
  BY <1>1, WFMin
<1>4. ASSUME NEW m \in T PROVE n <= m
  <2>1. m \in Nat /\ n \in Nat
    OBVIOUS
  <2>2. ~(m < n)
    BY <1>2, <1>3, <2>1
  <2>3. QED BY <2>1, <2>2
<1>5. QED BY <1>4

\* A set that holds 0 and, with a number up to m, the next one.
LEMMA InductionUpTo ==
  ASSUME NEW m \in Nat, NEW T, 0 \in T,
         \A n \in 0 .. m : n \in T /\ n < m => n + 1 \in T
  PROVE  0 .. m \subseteq T
<1> SUFFICES ASSUME (0 .. m) \ T # {} PROVE FALSE
  OBVIOUS
<1> DEFINE Out == (0 .. m) \ T
<1>0. Out \subseteq Nat
  OBVIOUS
<1>1. PICK n \in Out : \A k \in Out : n <= k
  BY <1>0, LeastNatural
<1>2. n # 0 /\ n - 1 \in 0 .. m /\ ~(n <= n - 1) /\ n - 1 < m /\ n = (n - 1) + 1
  OBVIOUS
<1>3. n - 1 \in T
  BY <1>1, <1>2
<1>4. QED BY <1>2, <1>3

\* f is defined by recursion over 0 .. m: each value is made, by step, of its
\* place and the value before it.
Recurs(f, V, init, m, step) ==
  /\ f \in [0 .. m -> V]
  /\ f[0] = init
  /\ \A n \in 1 .. m : f[n] = step[n][f[n - 1]]

LEMMA RecursionExists ==
  ASSUME NEW V, NEW init \in V, NEW m \in Nat, NEW step \in [1 .. m -> [V -> V]]
  PROVE  \E f : Recurs(f, V, init, m, step)
<1> DEFINE Good == {k \in 0 .. m :
                      \E f \in [0 .. k -> V] :
                        f[0] = init /\ \A n \in 1 .. k : f[n] = step[n][f[n - 1]]}
<1>1. 0 \in Good
  <2> DEFINE f == [n \in 0 .. 0 |-> init]
  <2>1. f \in [0 .. 0 -> V] /\ f[0] = init /\ 1 .. 0 = {}
    OBVIOUS
  <2> HIDE DEF f
  <2>2. QED BY <2>1
<1>2. ASSUME NEW k \in 0 .. m, k \in Good, k < m PROVE k + 1 \in Good
  <2>1. PICK f \in [0 .. k -> V] :
          f[0] = init /\ \A n \in 1 .. k : f[n] = step[n][f[n - 1]]
    BY <1>2
  <2> DEFINE last == step[k + 1][f[k]]
             more == [n \in 0 .. (k + 1) |-> IF n = k + 1 THEN last ELSE f[n]]
  <2>2. k \in Nat /\ k + 1 \in 1 .. m /\ f[k] \in V /\ last \in V
    BY <1>2, <2>1
  <2>3. \A n \in 0 .. k : more[n] = f[n] /\ f[n] \in V
    BY <2>2
  <2>4. more[k + 1] = last
    BY <2>2
  <2>5. more = [n \in 0 .. (k + 1) |-> more[n]]
    OBVIOUS
  <2> HIDE DEF more
  <2>6. ASSUME NEW n \in 1 .. (k + 1)
        PROVE  more[n] = step[n][more[n - 1]]
    <3>1. CASE n = k + 1
      <4>1. n - 1 = k /\ more[k] = f[k]
        BY <2>2, <2>3, <3>1
      <4>2. QED BY <2>4, <3>1, <4>1
    <3>2. CASE n # k + 1
      <4>1. n \in 1 .. k /\ n - 1 \in 0 .. k /\ n \in 0 .. k
        BY <2>2, <3>2
      <4>2. more[n] = f[n] /\ more[n - 1] = f[n - 1]
        BY <2>3, <4>1
      <4>3. QED BY <2>1, <4>1, <4>2
    <3>3. QED BY <3>1, <3>2
  <2>7. more[0] = init
    BY <2>1, <2>2, <2>3
  <2>8. ASSUME NEW n \in 0 .. (k + 1) PROVE more[n] \in V
    <3>1. n \in 0 .. k \/ n = k + 1
      BY <2>2
    <3>2. QED BY <2>2, <2>3, <2>4, <3>1
  <2>9. more \in [0 .. (k + 1) -> V]
    BY <2>5, <2>8
  <2>10. k + 1 \in 0 .. m
    BY <2>2
  <2>11. QED BY <2>6, <2>7, <2>9, <2>10
<1> HIDE DEF Good
<1>3. 0 .. m \subseteq Good
  BY <1>1, <1>2, InductionUpTo
<1>4. QED BY <1>3 DEF Good, Recurs

-----------------------------------------------------------------------------
(* SelectIn.                                                                *)

\* kept is the function SelectIn builds, for the first m elements.
Keeps(kept, s, T, m) ==
  /\ kept = [n \in 0 .. m |-> kept[n]]
  /\ kept[0] = <<>>
  /\ \A n \in 1 .. m :
       kept[n] = IF s[n] \in T THEN Append(kept[n - 1], s[n]) ELSE kept[n - 1]

LEMMA KeepsExists ==
  ASSUME NEW S, NEW s \in Seq(S), NEW T
  PROVE  \E kept : Keeps(kept, s, T, Len(s))
<1> DEFINE m == Len(s)
           step == [n \in 1 .. m |-> [r \in Seq(S) |->
                      IF s[n] \in T THEN Append(r, s[n]) ELSE r]]
<1>1. m \in Nat /\ <<>> \in Seq(S) /\ \A n \in 1 .. m : s[n] \in S
  OBVIOUS
<1>2. step \in [1 .. m -> [Seq(S) -> Seq(S)]]
  <2>1. ASSUME NEW n \in 1 .. m, NEW r \in Seq(S)
        PROVE  (IF s[n] \in T THEN Append(r, s[n]) ELSE r) \in Seq(S)
    BY <1>1
  <2>2. QED BY <2>1
<1>3. \A n \in 1 .. m : \A r \in Seq(S) :
        step[n][r] = IF s[n] \in T THEN Append(r, s[n]) ELSE r
  OBVIOUS
<1> HIDE DEF step, m
<1>4. PICK f \in [0 .. m -> Seq(S)] :
        f[0] = <<>> /\ \A n \in 1 .. m : f[n] = step[n][f[n - 1]]
  <2>1. \E f : Recurs(f, Seq(S), <<>>, m, step)
    BY <1>1, <1>2, RecursionExists
  <2>2. QED BY <2>1 DEF Recurs
<1>5. ASSUME NEW n \in 1 .. m
      PROVE  f[n] = IF s[n] \in T THEN Append(f[n - 1], s[n]) ELSE f[n - 1]
  <2>1. n - 1 \in 0 .. m
    BY <1>1
  <2>2. f[n - 1] \in Seq(S)
    BY <2>1
  <2>3. QED BY <1>3, <1>4, <2>2
<1>6. Keeps(f, s, T, m)
  BY <1>4, <1>5 DEF Keeps
<1>7. QED BY <1>6 DEF m

\* SelectIn is the last value of such a function.
LEMMA SelectInKeeps ==
  ASSUME NEW S, NEW s \in Seq(S), NEW T
  PROVE  \E kept : Keeps(kept, s, T, Len(s)) /\ SelectIn(s, T) = kept[Len(s)]
<1> DEFINE Next(kept, n) == IF n = 0 THEN <<>>
                            ELSE IF s[n] \in T THEN Append(kept[n - 1], s[n])
                            ELSE kept[n - 1]
           Is(kept) == kept = [n \in 0 .. Len(s) |-> Next(kept, n)]
           it == CHOOSE kept : Is(kept)
<1>0. Len(s) \in Nat
  OBVIOUS
<1>1. PICK kept : Keeps(kept, s, T, Len(s))
  BY KeepsExists
<1>2. Is(kept)
  <2>1. ASSUME NEW n \in 0 .. Len(s) PROVE kept[n] = Next(kept, n)
    <3>1. CASE n = 0
      BY <1>1, <3>1 DEF Keeps
    <3>2. CASE n # 0
      BY <1>0, <1>1, <3>2 DEF Keeps
    <3>3. QED BY <3>1, <3>2
  <2>2. kept = [n \in 0 .. Len(s) |-> kept[n]]
    BY <1>1 DEF Keeps
  <2> HIDE DEF Next
  <2>3. [n \in 0 .. Len(s) |-> kept[n]] = [n \in 0 .. Len(s) |-> Next(kept, n)]
    BY <2>1
  <2>4. QED BY <2>2, <2>3
<1>3. Is(it)
  BY <1>2
<1>4. SelectIn(s, T) = it[Len(s)]
  BY DEF SelectIn
<1> HIDE DEF it
<1>5. Keeps(it, s, T, Len(s))
  <2>1. ASSUME NEW n \in 0 .. Len(s) PROVE it[n] = Next(it, n)
    BY <1>3
  <2>2. it = [n \in 0 .. Len(s) |-> it[n]]
    BY <1>3
  <2>3. it[0] = <<>>
    BY <1>0, <2>1
  <2>4. ASSUME NEW n \in 1 .. Len(s)
        PROVE  it[n] = IF s[n] \in T THEN Append(it[n - 1], s[n]) ELSE it[n - 1]
    <3>1. n \in 0 .. Len(s) /\ n # 0
      BY <1>0
    <3>2. QED BY <2>1, <3>1
  <2>5. QED BY <2>2, <2>3, <2>4 DEF Keeps
<1>6. QED BY <1>4, <1>5

\* r is made of the elements of s[1], ..., s[m] that are in T, in their order:
\* its k-th element is that of s at place at[k].
Selects(r, at, s, T, m) ==
  /\ at \in [1 .. Len(r) -> 1 .. m]
  /\ \A k \in 1 .. Len(r) : r[k] = s[at[k]] /\ r[k] \in T
  /\ \A k, l \in 1 .. Len(r) : k < l => at[k] < at[l]
  /\ \A i \in 1 .. m : s[i] \in T => \E k \in 1 .. Len(r) : at[k] = i

LEMMA SelectsNext ==
  ASSUME NEW S, NEW s \in Seq(S), NEW T, NEW r \in Seq(S), NEW at, NEW m \in Nat,
         m + 1 <= Len(s), Selects(r, at, s, T, m)
  PROVE  LET more == IF s[m + 1] \in T THEN Append(r, s[m + 1]) ELSE r
         IN  more \in Seq(S) /\ \E a : Selects(more, a, s, T, m + 1)
<1>0. Len(r) \in Nat /\ Len(s) \in Nat /\ s[m + 1] \in S
  OBVIOUS
<1>1. CASE s[m + 1] \notin T
  <2>1. ASSUME NEW i \in 1 .. (m + 1), s[i] \in T
        PROVE  \E k \in 1 .. Len(r) : at[k] = i
    <3>1. i # m + 1
      BY <1>1, <2>1
    <3>2. i \in 1 .. m
      BY <3>1
    <3>3. QED BY <2>1, <3>2 DEF Selects
  <2>2. at \in [1 .. Len(r) -> 1 .. (m + 1)]
    BY DEF Selects
  <2>3. Selects(r, at, s, T, m + 1)
    BY <2>1, <2>2 DEF Selects
  <2>4. QED BY <1>1, <2>3
<1>2. CASE s[m + 1] \in T
  <2> DEFINE more == Append(r, s[m + 1])
             a == [k \in 1 .. (Len(r) + 1) |-> IF k = Len(r) + 1 THEN m + 1 ELSE at[k]]
  <2>1. /\ more \in Seq(S) /\ Len(more) = Len(r) + 1
        /\ \A k \in 1 .. Len(r) : more[k] = r[k]
        /\ more[Len(r) + 1] = s[m + 1]
    BY <1>0
  <2>2. /\ \A k \in 1 .. Len(r) : a[k] = at[k]
        /\ a[Len(r) + 1] = m + 1
        /\ DOMAIN a = 1 .. (Len(r) + 1)
        /\ a = [k \in 1 .. (Len(r) + 1) |-> a[k]]
    BY <1>0
  <2> HIDE DEF more, a
  <2>3. \A k \in 1 .. Len(r) : at[k] \in 1 .. m
    BY DEF Selects
  <2>4. a \in [1 .. Len(more) -> 1 .. (m + 1)]
    <3>1. ASSUME NEW k \in 1 .. (Len(r) + 1) PROVE a[k] \in 1 .. (m + 1)
      <4>1. CASE k = Len(r) + 1
        BY <2>2, <4>1
      <4>2. CASE k # Len(r) + 1
        <5>1. k \in 1 .. Len(r)
          BY <1>0, <4>2
        <5>2. a[k] = at[k] /\ at[k] \in 1 .. m
          BY <2>2, <2>3, <5>1
        <5>3. QED BY <5>2
      <4>3. QED BY <4>1, <4>2
    <3>2. QED BY <2>1, <2>2, <3>1
  <2>5. ASSUME NEW k \in 1 .. Len(more) PROVE more[k] = s[a[k]] /\ more[k] \in T
    <3>1. CASE k = Len(r) + 1
      BY <1>2, <2>1, <2>2, <3>1
    <3>2. CASE k # Len(r) + 1
      <4>1. k \in 1 .. Len(r)
        BY <1>0, <2>1, <3>2
      <4>2. QED BY <2>1, <2>2, <4>1 DEF Selects
    <3>3. QED BY <3>1, <3>2
  <2>6. ASSUME NEW k \in 1 .. Len(more), NEW l \in 1 .. Len(more), k < l
        PROVE  a[k] < a[l]
    <3>1. k \in 1 .. Len(r)
      BY <1>0, <2>1, <2>6
    <3>2. CASE l = Len(r) + 1
      <4>1. a[l] = m + 1
        BY <2>2, <3>2
      <4>2. a[k] = at[k] /\ at[k] \in 1 .. m
        BY <2>2, <2>3, <3>1
      <4>3. QED BY <4>1, <4>2
    <3>3. CASE l # Len(r) + 1
      <4>1. l \in 1 .. Len(r)
        BY <1>0, <2>1, <3>3
      <4>2. QED BY <2>2, <2>6, <3>1, <4>1 DEF Selects
    <3>4. QED BY <3>2, <3>3
  <2>7. ASSUME NEW i \in 1 .. (m + 1), s[i] \in T
        PROVE  \E k \in 1 .. Len(more) : a[k] = i
    <3>1. CASE i = m + 1
      <4>1. Len(r) + 1 \in 1 .. Len(more)
        BY <1>0, <2>1
      <4>2. QED BY <2>2, <3>1, <4>1
    <3>2. CASE i # m + 1
      <4>1. i \in 1 .. m
        BY <3>2
      <4>2. PICK k \in 1 .. Len(r) : at[k] = i
        BY <2>7, <4>1 DEF Selects
      <4>3. k \in 1 .. Len(more)
        BY <1>0, <2>1
      <4>4. a[k] = i
        BY <2>2, <4>2
      <4>5. QED BY <4>3, <4>4
    <3>3. QED BY <3>1, <3>2
  <2>8. Selects(more, a, s, T, m + 1)
    BY <2>4, <2>5, <2>6, <2>7 DEF Selects
  <2>9. QED BY <1>2, <2>1, <2>8 DEF more
<1>3. QED BY <1>1, <1>2

(* What SelectIn keeps of a sequence: the elements of the set, all of them, *)
(* as often as they occur and in their order.                               *)
LEMMA SelectInSelects ==
  ASSUME NEW S, NEW s \in Seq(S), NEW T
  PROVE  /\ SelectIn(s, T) \in Seq(S)
         /\ \E at : Selects(SelectIn(s, T), at, s, T, Len(s))
<1>0. Len(s) \in Nat
  OBVIOUS
<1>1. PICK kept : Keeps(kept, s, T, Len(s)) /\ SelectIn(s, T) = kept[Len(s)]
  BY SelectInKeeps
<1> DEFINE Good == {n \in 0 .. Len(s) :
                      /\ kept[n] \in Seq(S)
                      /\ \E at : Selects(kept[n], at, s, T, n)}
<1>2. 0 \in Good
  <2>1. kept[0] = <<>> /\ Len(<<>>) = 0 /\ <<>> \in Seq(S)
    BY <1>1 DEF Keeps
  <2> DEFINE none == [k \in 1 .. 0 |-> k]
  <2>2. none \in [1 .. 0 -> 1 .. 0] /\ 1 .. 0 = {}
    OBVIOUS
  <2> HIDE DEF none
  <2>3. Selects(kept[0], none, s, T, 0)
    <3>1. none \in [1 .. Len(kept[0]) -> 1 .. 0] /\ 1 .. Len(kept[0]) = {}
      BY <2>1, <2>2
    <3>2. QED BY <2>2, <3>1 DEF Selects
  <2>4. \E at : Selects(kept[0], at, s, T, 0)
    BY <2>3
  <2>5. kept[0] \in Seq(S) /\ 0 \in 0 .. Len(s)
    BY <1>0, <2>1
  <2>6. QED BY <2>4, <2>5
<1>3. ASSUME NEW n \in 0 .. Len(s), n \in Good, n < Len(s) PROVE n + 1 \in Good
  <2>1. n + 1 \in 1 .. Len(s) /\ n + 1 \in 0 .. Len(s) /\ n \in Nat
        /\ (n + 1) - 1 = n /\ n + 1 <= Len(s)
    BY <1>0, <1>3
  <2>2. kept[n + 1] = IF s[n + 1] \in T THEN Append(kept[n], s[n + 1]) ELSE kept[n]
    <3>1. \A k \in 1 .. Len(s) :
            kept[k] = IF s[k] \in T THEN Append(kept[k - 1], s[k]) ELSE kept[k - 1]
      BY <1>1 DEF Keeps
    <3>2. QED BY <2>1, <3>1
  <2>3. kept[n] \in Seq(S)
    BY <1>3
  <2>4. PICK at : Selects(kept[n], at, s, T, n)
    BY <1>3
  <2>5. kept[n + 1] \in Seq(S) /\ \E a : Selects(kept[n + 1], a, s, T, n + 1)
    BY <2>1, <2>2, <2>3, <2>4, SelectsNext
  <2>6. QED BY <2>1, <2>5
<1> HIDE DEF Good
<1>4. 0 .. Len(s) \subseteq Good
  BY <1>0, <1>2, <1>3, InductionUpTo
<1>5. Len(s) \in Good
  BY <1>0, <1>4
<1>6. QED BY <1>1, <1>5 DEF Good

-----------------------------------------------------------------------------
(* Joined.                                                                  *)

\* Joined is the last value of such a function.
LEMMA JoinedSteps ==
  ASSUME NEW S, NEW ss \in Seq(Seq(S))
  PROVE  \E f \in [0 .. Len(ss) -> Seq(S)] :
           /\ f[0] = <<>>
           /\ \A n \in 1 .. Len(ss) : f[n] = f[n - 1] \o ss[n]
           /\ Joined(ss) = f[Len(ss)]
<1> DEFINE m == Len(ss)
           step == [n \in 1 .. m |-> [r \in Seq(S) |-> r \o ss[n]]]
           Value(f, n) == IF n = 0 THEN <<>> ELSE f[n - 1] \o ss[n]
           Is(f) == f = [n \in 0 .. m |-> Value(f, n)]
           it == CHOOSE f : Is(f)
<1>1. m \in Nat /\ <<>> \in Seq(S) /\ \A n \in 1 .. m : ss[n] \in Seq(S)
  OBVIOUS
<1>2. step \in [1 .. m -> [Seq(S) -> Seq(S)]]
  <2>1. ASSUME NEW n \in 1 .. m, NEW r \in Seq(S) PROVE r \o ss[n] \in Seq(S)
    BY <1>1
  <2>2. QED BY <2>1
<1>3. \A n \in 1 .. m : \A r \in Seq(S) : step[n][r] = r \o ss[n]
  OBVIOUS
<1>4. Joined(ss) = it[m]
  BY DEF Joined
<1> HIDE DEF step, m, it
<1>5. PICK f \in [0 .. m -> Seq(S)] :
        f[0] = <<>> /\ \A n \in 1 .. m : f[n] = step[n][f[n - 1]]
  <2>1. \E f : Recurs(f, Seq(S), <<>>, m, step)
    BY <1>1, <1>2, RecursionExists
  <2>2. QED BY <2>1 DEF Recurs
<1>6. Is(f)
  <2>1. ASSUME NEW n \in 0 .. m PROVE f[n] = Value(f, n)
    <3>1. CASE n = 0
      BY <1>5, <3>1
    <3>2. CASE n # 0
      <4>1. n \in 1 .. m /\ n - 1 \in 0 .. m
        BY <1>1, <3>2
      <4>2. f[n - 1] \in Seq(S)
        BY <4>1
      <4>3. QED BY <1>3, <1>5, <3>2, <4>1, <4>2
    <3>3. QED BY <3>1, <3>2
  <2> HIDE DEF Value
  <2>2. f = [n \in 0 .. m |-> f[n]]
    OBVIOUS
  <2>3. [n \in 0 .. m |-> f[n]] = [n \in 0 .. m |-> Value(f, n)]
    BY <2>1
  <2>4. QED BY <2>2, <2>3
<1>7. Is(it)
  BY <1>6 DEF it
<1>8. \A n \in 0 .. m : it[n] = Value(it, n)
  BY <1>7
<1>9. DOMAIN it = 0 .. m /\ it = [n \in 0 .. m |-> it[n]]
  BY <1>7
<1>10. it[0] = <<>>
  BY <1>1, <1>8
<1>11. ASSUME NEW n \in 1 .. m PROVE it[n] = it[n - 1] \o ss[n]
  <2>1. n \in 0 .. m /\ n # 0
    BY <1>1
  <2>2. QED BY <1>8, <2>1
<1> DEFINE Good == {n \in 0 .. m : it[n] \in Seq(S)}
<1>12. 0 \in Good
  <2>1. it[0] \in Seq(S) /\ 0 \in 0 .. m
    BY <1>1, <1>10
  <2>2. QED BY <2>1
<1>13. ASSUME NEW n \in 0 .. m, n \in Good, n < m PROVE n + 1 \in Good
  <2>1. n + 1 \in 1 .. m /\ n + 1 \in 0 .. m /\ (n + 1) - 1 = n
    BY <1>1, <1>13
  <2>2. it[n + 1] = it[n] \o ss[n + 1]
    <3>1. it[n + 1] = it[(n + 1) - 1] \o ss[n + 1]
      BY <1>11, <2>1
    <3>2. QED BY <2>1, <3>1
  <2>3. it[n] \in Seq(S) /\ ss[n + 1] \in Seq(S)
    BY <1>1, <1>13, <2>1
  <2>4. it[n + 1] \in Seq(S)
    BY <2>2, <2>3
  <2>5. QED BY <2>1, <2>4
<1> HIDE DEF Good
<1>14. 0 .. m \subseteq Good
  BY <1>1, <1>12, <1>13, InductionUpTo
<1>15. it \in [0 .. m -> Seq(S)]
  <2>1. \A n \in 0 .. m : it[n] \in Seq(S)
    BY <1>14 DEF Good
  <2>2. QED BY <1>9, <2>1
<1>16. QED BY <1>4, <1>10, <1>11, <1>15 DEF m

(* What Joined returns: the elements of the sequences, all of them, and     *)
(* none twice if no two places of theirs hold the same one.                 *)
LEMMA JoinedCollects ==
  ASSUME NEW S, NEW ss \in Seq(Seq(S))
  PROVE  /\ Joined(ss) \in Seq(S)
         /\ \A k \in DOMAIN Joined(ss) :
              \E i \in 1 .. Len(ss) : \E l \in DOMAIN ss[i] : Joined(ss)[k] = ss[i][l]
         /\ \A i \in 1 .. Len(ss) : \A l \in DOMAIN ss[i] :
              \E k \in DOMAIN Joined(ss) : Joined(ss)[k] = ss[i][l]
         /\ (\A i, j \in 1 .. Len(ss) : \A k \in DOMAIN ss[i], l \in DOMAIN ss[j] :
               ss[i][k] = ss[j][l] => i = j /\ k = l)
            => \A k, l \in DOMAIN Joined(ss) : Joined(ss)[k] = Joined(ss)[l] => k = l
<1> DEFINE m == Len(ss)
           Apart == \A i, j \in 1 .. m : \A k \in DOMAIN ss[i], l \in DOMAIN ss[j] :
                      ss[i][k] = ss[j][l] => i = j /\ k = l
<1>1. m \in Nat /\ \A n \in 1 .. m : ss[n] \in Seq(S)
  OBVIOUS
<1>2. PICK f \in [0 .. m -> Seq(S)] :
        /\ f[0] = <<>>
        /\ \A n \in 1 .. m : f[n] = f[n - 1] \o ss[n]
        /\ Joined(ss) = f[m]
  BY JoinedSteps
<1> HIDE DEF m
<1> DEFINE From(n) == \A k \in DOMAIN f[n] :
                        \E i \in 1 .. n : \E l \in DOMAIN ss[i] : f[n][k] = ss[i][l]
           To(n) == \A i \in 1 .. n : \A l \in DOMAIN ss[i] :
                      \E k \in DOMAIN f[n] : f[n][k] = ss[i][l]
           Once(n) == \A k, l \in DOMAIN f[n] : f[n][k] = f[n][l] => k = l
           Good == {n \in 0 .. m : From(n) /\ To(n) /\ (Apart => Once(n))}
<1>3. 0 \in Good
  <2>1. DOMAIN f[0] = {} /\ 1 .. 0 = {} /\ 0 \in 0 .. m
    BY <1>1, <1>2
  <2>2. QED BY <2>1
<1> HIDE DEF Good
<1>4. ASSUME NEW n \in 0 .. m, n \in Good, n < m PROVE n + 1 \in Good
  <2>1. n + 1 \in 1 .. m /\ n + 1 \in 0 .. m /\ (n + 1) - 1 = n /\ n \in Nat
    BY <1>1, <1>4
  <2> DEFINE s == f[n]
             t == ss[n + 1]
             r == f[n + 1]
  <2>2. r = s \o t /\ s \in Seq(S) /\ t \in Seq(S)
    <3>1. f[n + 1] = f[(n + 1) - 1] \o ss[n + 1]
      BY <1>2, <2>1
    <3>2. QED BY <1>1, <2>1, <3>1
  <2>3. From(n) /\ To(n) /\ (Apart => Once(n))
    BY <1>4 DEF Good
  <2> HIDE DEF s, t, r
  <2>4. /\ Len(s) \in Nat /\ Len(t) \in Nat
        /\ DOMAIN s = 1 .. Len(s) /\ DOMAIN t = 1 .. Len(t)
        /\ DOMAIN r = 1 .. (Len(s) + Len(t))
        /\ \A k \in DOMAIN s : r[k] = s[k]
        /\ \A k \in DOMAIN t : r[Len(s) + k] = t[k]
    BY <2>2
  <2>5. \A k \in DOMAIN r :
          \/ k \in DOMAIN s
          \/ k - Len(s) \in DOMAIN t /\ k = Len(s) + (k - Len(s))
    BY <2>4
  <2>6. From(n + 1)
    <3>1. ASSUME NEW k \in DOMAIN r
          PROVE  \E i \in 1 .. (n + 1) : \E l \in DOMAIN ss[i] : r[k] = ss[i][l]
      <4>1. CASE k \in DOMAIN s
        <5>1. PICK i \in 1 .. n : \E l \in DOMAIN ss[i] : s[k] = ss[i][l]
          BY <2>3, <4>1 DEF s
        <5>2. i \in 1 .. (n + 1)
          BY <2>1
        <5>3. QED BY <2>4, <4>1, <5>1, <5>2
      <4>2. CASE k - Len(s) \in DOMAIN t /\ k = Len(s) + (k - Len(s))
        <5>1. r[k] = t[k - Len(s)]
          BY <2>4, <4>2
        <5>2. n + 1 \in 1 .. (n + 1)
          BY <2>1
        <5>3. QED BY <4>2, <5>1, <5>2 DEF t
      <4>3. QED BY <2>5, <4>1, <4>2
    <3>2. QED BY <3>1 DEF r
  <2>7. To(n + 1)
    <3>1. ASSUME NEW i \in 1 .. (n + 1), NEW l \in DOMAIN ss[i]
          PROVE  \E k \in DOMAIN r : r[k] = ss[i][l]
      <4>1. CASE i = n + 1
        <5>1. l \in DOMAIN t /\ ss[i][l] = t[l]
          BY <4>1 DEF t
        <5>2. Len(s) + l \in DOMAIN r
          BY <2>4, <5>1
        <5>3. QED BY <2>4, <5>1, <5>2
      <4>2. CASE i # n + 1
        <5>1. i \in 1 .. n
          BY <2>1, <4>2
        <5>2. PICK k \in DOMAIN s : s[k] = ss[i][l]
          BY <2>3, <5>1 DEF s
        <5>3. k \in DOMAIN r
          BY <2>4
        <5>4. QED BY <2>4, <5>2, <5>3
      <4>3. QED BY <4>1, <4>2
    <3>2. QED BY <3>1 DEF r
  <2>8. ASSUME Apart PROVE Once(n + 1)
    <3>1. ASSUME NEW k \in DOMAIN s, NEW l \in DOMAIN t PROVE s[k] # t[l]
      <4>1. PICK i \in 1 .. n : \E j \in DOMAIN ss[i] : s[k] = ss[i][j]
        BY <2>3 DEF s
      <4>2. PICK j \in DOMAIN ss[i] : s[k] = ss[i][j]
        BY <4>1
      <4>3. i \in 1 .. m /\ i # n + 1
        BY <1>1, <2>1
      <4>4. l \in DOMAIN ss[n + 1] /\ t[l] = ss[n + 1][l]
        BY DEF t
      <4>5. QED BY <2>1, <2>8, <4>2, <4>3, <4>4
    <3>2. ASSUME NEW k \in DOMAIN r, NEW l \in DOMAIN r, r[k] = r[l]
          PROVE  k = l
      <4>1. CASE k \in DOMAIN s /\ l \in DOMAIN s
        <5>1. s[k] = s[l]
          BY <2>4, <3>2, <4>1
        <5>2. QED BY <2>3, <2>8, <4>1, <5>1 DEF s
      <4>2. CASE k \in DOMAIN s /\ l \notin DOMAIN s
        <5>1. l - Len(s) \in DOMAIN t /\ r[l] = t[l - Len(s)] /\ r[k] = s[k]
          BY <2>4, <2>5, <4>2
        <5>2. QED BY <3>1, <3>2, <4>2, <5>1
      <4>3. CASE k \notin DOMAIN s /\ l \in DOMAIN s
        <5>1. k - Len(s) \in DOMAIN t /\ r[k] = t[k - Len(s)] /\ r[l] = s[l]
          BY <2>4, <2>5, <4>3
        <5>2. QED BY <3>1, <3>2, <4>3, <5>1
      <4>4. CASE k \notin DOMAIN s /\ l \notin DOMAIN s
        <5>1. /\ k - Len(s) \in DOMAIN t /\ l - Len(s) \in DOMAIN t
              /\ r[k] = t[k - Len(s)] /\ r[l] = t[l - Len(s)]
          BY <2>4, <2>5, <4>4
        <5>2. k - Len(s) = l - Len(s)
          <6>1. t[k - Len(s)] = t[l - Len(s)]
            BY <3>2, <5>1
          <6>2. QED BY <2>1, <2>8, <5>1, <6>1 DEF t
        <5>3. k \in Nat /\ l \in Nat
          BY <2>4
        <5>4. QED BY <2>4, <5>2, <5>3
      <4>5. QED BY <4>1, <4>2, <4>3, <4>4
    <3>3. QED BY <3>2 DEF r
  <2>9. QED BY <2>1, <2>6, <2>7, <2>8 DEF Good
<1>5. 0 .. m \subseteq Good
  BY <1>1, <1>3, <1>4, InductionUpTo
<1>6. m \in 0 .. m
  BY <1>1
<1>7. From(m) /\ To(m) /\ (Apart => Once(m)) /\ f[m] \in Seq(S)
  BY <1>2, <1>5, <1>6 DEF Good
<1>8. QED BY <1>2, <1>7 DEF m
=============================================================================
