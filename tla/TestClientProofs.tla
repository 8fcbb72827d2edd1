-------------------------- MODULE TestClientProofs --------------------------
(***************************************************************************)
(* The packet of the test client, for every name: how its question is read *)
(* back; when its checksum is accepted, for everything the field of the    *)
(* checksum may hold before it is computed; and the tunnel it is sent      *)
(* through.                                                                *)
(*                                                                         *)
(* The community modules fold sequences and functions by recursion over    *)
(* sets, and names are taken apart by recursion over places, so the module *)
(* first shows that a recursion has the values one expects of it; then     *)
(* what get_dns_request writes, byte by byte, and what a server reads out  *)
(* of it; then what in_cksum adds up, word by word.                        *)
(***************************************************************************)
EXTENDS TestClient, TunnelProofs, SequenceTheorems

---------------------------------------------------------------------------
(* Induction and recursion over the numbers *)

\* A set with 0 in it and with the successor of what is in it has all numbers.
LEMMA AllNumbers ==
  ASSUME NEW S, 0 \in S, \A k \in Nat : k \in S => k + 1 \in S
  PROVE  \A k \in Nat : k \in S
<1> DEFINE R == OpToRel(<, Nat)
<1> DEFINE C == {k \in Nat : k \notin S}
<1> SUFFICES ASSUME C # {} PROVE FALSE
  OBVIOUS
<1>1. IsWellFoundedOn(R, Nat)
  BY NatLessThanWellFounded
<1>2. C \subseteq Nat
  OBVIOUS
<1>3. PICK m \in C : \A k \in C : ~(<<k, m>> \in R)
  <2> HIDE DEF R, C
  <2> QED
    BY <1>1, <1>2, WFMin
<1>4. m \in Nat /\ m # 0 /\ m \notin S
  OBVIOUS
<1>5. m - 1 \in Nat /\ (m - 1) + 1 = m /\ m - 1 < m
  BY <1>4
<1>6. m - 1 \in C
  BY <1>4, <1>5
<1>7. <<m - 1, m>> \in R
  BY <1>4, <1>5 DEF OpToRel
<1> QED
  BY <1>3, <1>6, <1>7

\* A recursion over D goes on from p in Go to N[p], where the measure M, which
\* is at most B, is smaller.
Descends(D, Go, N, M, B) ==
  /\ B \in Nat /\ M \in [D -> 0..B]
  /\ Go \in SUBSET D /\ N \in [Go -> D]
  /\ \A p \in Go : M[N[p]] < M[p]

\* Its values are A[p] where it ends and F[<<p, the value at N[p]>>] elsewhere.
Follows(g, D, V, Go, N, A, F) ==
  /\ g \in [D -> V]
  /\ \A p \in D : g[p] = IF p \in Go THEN F[<<p, g[N[p]]>>] ELSE A[p]

LEMMA RecursionHasValues ==
  ASSUME NEW D, NEW Go, NEW N, NEW M, NEW B, Descends(D, Go, N, M, B),
         NEW V, NEW A \in [D -> V],
         NEW F, \A p \in Go : \A v \in V : F[<<p, v>>] \in V
  PROVE  \E g : Follows(g, D, V, Go, N, A, F)
<1> USE DEF Descends
<1> DEFINE Upto(k) == {p \in D : M[p] < k}
<1> DEFINE Sol(g, k) ==
      /\ g \in [Upto(k) -> V]
      /\ \A p \in Upto(k) :
           g[p] = IF p \in Go THEN F[<<p, g[N[p]]>>] ELSE A[p]
<1> DEFINE S == {k \in Nat : \E g : Sol(g, k)}
<1>1. 0 \in S
  <2>1. Upto(0) = {}
    OBVIOUS
  <2>2. Sol([p \in {} |-> p], 0)
    BY <2>1
  <2> QED
    BY <2>2
<1>2. ASSUME NEW k \in Nat, k \in S PROVE k + 1 \in S
  <2>1. PICK g : Sol(g, k)
    BY <1>2
  <2> DEFINE h == [p \in Upto(k + 1) |->
                    IF p \in Upto(k) THEN g[p]
                    ELSE IF p \in Go THEN F[<<p, g[N[p]]>>] ELSE A[p]]
  <2>2. ASSUME NEW p \in Upto(k + 1), p \in Go PROVE N[p] \in Upto(k)
    <3>1. N[p] \in D /\ M[N[p]] < M[p] /\ M[p] < k + 1
      BY <2>2
    <3>2. M[N[p]] \in Int /\ M[p] \in Int
      BY <3>1
    <3> QED
      BY <3>1, <3>2
  <2>3. Upto(k) \subseteq Upto(k + 1)
    OBVIOUS
  <2>4. \A p \in Upto(k) : h[p] = g[p] /\ g[p] \in V
    BY <2>1, <2>3
  <2>5. ASSUME NEW p \in Upto(k + 1)
        PROVE  /\ h[p] \in V
               /\ h[p] = IF p \in Go THEN F[<<p, h[N[p]]>>] ELSE A[p]
    <3>1. CASE p \in Upto(k)
      <4>1. g[p] = IF p \in Go THEN F[<<p, g[N[p]]>>] ELSE A[p]
        BY <2>1, <3>1
      <4>2. p \in Go => h[N[p]] = g[N[p]]
        BY <2>2, <2>4
      <4> HIDE DEF h, Upto
      <4> QED
        BY <2>4, <3>1, <4>1, <4>2
    <3>2. CASE p \notin Upto(k)
      <4>1. h[p] = IF p \in Go THEN F[<<p, g[N[p]]>>] ELSE A[p]
        BY <3>2
      <4>2. p \in Go => h[N[p]] = g[N[p]] /\ g[N[p]] \in V
        BY <2>2, <2>4
      <4>3. p \in D
        OBVIOUS
      <4> HIDE DEF h, Upto
      <4> QED
        BY <4>1, <4>2, <4>3
    <3> QED
      BY <3>1, <3>2
  <2>6. h \in [Upto(k + 1) -> V]
    BY <2>5
  <2>7. Sol(h, k + 1)
    BY <2>5, <2>6
  <2> HIDE DEF h, Sol
  <2> QED
    BY <2>7
<1> HIDE DEF S
<1>3. B + 1 \in S
  BY <1>1, <1>2, AllNumbers
<1>4. PICK g : Sol(g, B + 1)
  BY <1>3 DEF S
<1>5. Upto(B + 1) = D
  OBVIOUS
<1> QED
  BY <1>4, <1>5 DEF Follows

---------------------------------------------------------------------------
(* Recursion over the subsets of a finite set *)

\* Among sets of subsets of a finite set there is one with none below it.
LEMMA LeastSet ==
  ASSUME NEW S, IsFiniteSet(S), NEW C, C \subseteq SUBSET S, C # {}
  PROVE  \E T \in C : \A U \in C : ~(U \subseteq T /\ U # T)
<1> DEFINE R == StrictSubsetOrdering(S)
<1>1. IsWellFoundedOn(R, FiniteSubsetsOf(S))
  BY FS_StrictSubsetOrderingWellFounded
<1>2. FiniteSubsetsOf(S) = SUBSET S
  BY FS_FiniteSubsetsOfFinite
<1>3. IsWellFoundedOn(R, SUBSET S)
  BY <1>1, <1>2
<1> HIDE DEF R
<1>4. PICK T \in C : \A U \in C : ~(<<U, T>> \in R)
  BY <1>3, WFMin
<1>5. ASSUME NEW U \in C, U \subseteq T, U # T PROVE FALSE
  <2>1. <<U, T>> \in R
    BY <1>5 DEF R, StrictSubsetOrdering
  <2> QED
    BY <1>4, <2>1
<1> QED
  BY <1>5

\* g[s] comes from g at what is left of s when P[s] is taken out of it.
Solves(g, T, V, base, P, F) ==
  /\ g \in [SUBSET T -> V]
  /\ \A s \in SUBSET T :
       g[s] = IF s = {} THEN base ELSE F[<<s, g[s \ {P[s]}]>>]

\* There is one, since the sets get smaller.
LEMMA SolutionExists ==
  ASSUME NEW S, IsFiniteSet(S), NEW V, NEW base \in V, NEW P,
         \A s \in SUBSET S : s # {} => P[s] \in s,
         NEW F, \A s \in SUBSET S : \A v \in V : s # {} => F[<<s, v>>] \in V
  PROVE  \E g : Solves(g, S, V, base, P, F)
<1> DEFINE D == SUBSET S
<1> DEFINE M == [s \in D |-> Cardinality(s)]
<1> DEFINE Go == D \ {{}}
<1> DEFINE N == [s \in Go |-> s \ {P[s]}]
<1> DEFINE A == [s \in D |-> base]
<1>1. ASSUME NEW s \in D
      PROVE  IsFiniteSet(s) /\ Cardinality(s) \in 0..Cardinality(S)
  BY FS_Subset, FS_CardinalityType
<1>2. Cardinality(S) \in Nat
  BY FS_CardinalityType
<1>3. M \in [D -> 0..Cardinality(S)]
  BY <1>1
<1>4. N \in [Go -> D] /\ Go \in SUBSET D /\ A \in [D -> V]
  OBVIOUS
<1>5. ASSUME NEW s \in Go PROVE M[N[s]] < M[s]
  <2>1. IsFiniteSet(s) /\ Cardinality(s) \in Nat /\ P[s] \in s
    BY <1>1, FS_CardinalityType
  <2>2. Cardinality(s \ {P[s]}) = Cardinality(s) - 1
    BY <2>1, FS_RemoveElement
  <2>3. N[s] = s \ {P[s]} /\ N[s] \in D /\ s \in D
    BY <1>4
  <2> HIDE DEF N, D
  <2>4. M[N[s]] = Cardinality(N[s]) /\ M[s] = Cardinality(s)
    BY <2>3
  <2> HIDE DEF M
  <2> QED
    BY <2>1, <2>2, <2>3, <2>4
<1>6. \A s \in Go : \A v \in V : F[<<s, v>>] \in V
  OBVIOUS
<1>7. Descends(D, Go, N, M, Cardinality(S))
  <2> HIDE DEF D, M, Go, N
  <2> QED
    BY <1>2, <1>3, <1>4, <1>5 DEF Descends
<1>8. PICK g : Follows(g, D, V, Go, N, A, F)
  <2> HIDE DEF D, M, Go, N, A
  <2> QED
    BY <1>4, <1>6, <1>7, RecursionHasValues
<1>9. ASSUME NEW s \in D
      PROVE  g[s] = IF s = {} THEN base ELSE F[<<s, g[s \ {P[s]}]>>]
  <2>1. CASE s = {}
    BY <1>8, <2>1 DEF Follows
  <2>2. CASE s # {}
    <3>1. s \in Go /\ N[s] = s \ {P[s]}
      BY <2>2
    <3> QED
      BY <1>8, <2>2, <3>1 DEF Follows
  <2> QED
    BY <2>1, <2>2
<1>10. g \in [D -> V]
  BY <1>8 DEF Follows
<1> QED
  BY <1>9, <1>10 DEF Solves

---------------------------------------------------------------------------
(* Sums *)

\* The element a fold takes out of a set.
OneOf(s) == CHOOSE x \in s : TRUE

\* What FoldFunction unfolds to when it adds up the values of a function.
Adder(f, S) ==
  CHOOSE g : g = [s \in SUBSET S |->
    IF s = {} THEN 0 ELSE f[OneOf(s)] + g[s \ {OneOf(s)}]]

\* g[s] is the sum of f over s.
Adds(g, f, S) ==
  /\ g \in [SUBSET S -> Nat]
  /\ g[{}] = 0
  /\ \A s \in SUBSET S : s # {} => g[s] = f[OneOf(s)] + g[s \ {OneOf(s)}]

LEMMA FoldAdds ==
  ASSUME NEW f PROVE FoldFunction(+, 0, f) = Adder(f, DOMAIN f)[DOMAIN f]
BY DEF FoldFunction, FoldFunctionOnSet, MapThenFoldSet, Adder, OneOf

LEMMA AdderAdds ==
  ASSUME NEW S, IsFiniteSet(S), NEW f \in [S -> Nat]
  PROVE  Adds(Adder(f, S), f, S)
<1> DEFINE P == [s \in SUBSET S |-> OneOf(s)]
<1> DEFINE F == [p \in (SUBSET S) \X Nat |-> f[OneOf(p[1])] + p[2]]
<1> DEFINE h == Adder(f, S)
<1>1. \A s \in SUBSET S : s # {} => OneOf(s) \in s
  BY DEF OneOf
<1>2. \A s \in SUBSET S : s # {} => P[s] \in s
  BY <1>1
<1>3. \A s \in SUBSET S : \A v \in Nat : s # {} => F[<<s, v>>] \in Nat
  <2> TAKE s \in SUBSET S, v \in Nat
  <2> HAVE s # {}
  <2>1. F[<<s, v>>] = f[OneOf(s)] + v
    OBVIOUS
  <2>2. OneOf(s) \in S
    BY <1>1
  <2>3. f[OneOf(s)] \in Nat
    BY <2>2
  <2> QED
    BY <2>1, <2>3
<1>4. PICK g : Solves(g, S, Nat, 0, P, F)
  <2> HIDE DEF P, F
  <2> QED
    BY <1>2, <1>3, SolutionExists
<1>5. /\ g \in [SUBSET S -> Nat]
      /\ \A s \in SUBSET S :
           g[s] = IF s = {} THEN 0 ELSE F[<<s, g[s \ {P[s]}]>>]
  BY <1>4 DEF Solves
<1>6. ASSUME NEW s \in SUBSET S, s # {}
      PROVE  F[<<s, g[s \ {P[s]}]>>] = f[OneOf(s)] + g[s \ {OneOf(s)}]
  <2>1. s \ {OneOf(s)} \in SUBSET S
    OBVIOUS
  <2>2. g[s \ {OneOf(s)}] \in Nat
    BY <1>5, <2>1
  <2>3. P[s] = OneOf(s)
    OBVIOUS
  <2> QED
    BY <2>2, <2>3
<1> HIDE DEF P, F
<1>7. g = [s \in SUBSET S |->
            IF s = {} THEN 0 ELSE f[OneOf(s)] + g[s \ {OneOf(s)}]]
  BY <1>5, <1>6
<1>8. h = [s \in SUBSET S |->
            IF s = {} THEN 0 ELSE f[OneOf(s)] + h[s \ {OneOf(s)}]]
  BY <1>7 DEF Adder
<1> HIDE DEF h
<1>9. ASSUME NEW s \in SUBSET S
      PROVE  h[s] = IF s = {} THEN 0 ELSE f[OneOf(s)] + h[s \ {OneOf(s)}]
  BY <1>8
<1>10. DOMAIN h = SUBSET S
  BY <1>8
<1>11. ASSUME NEW s \in SUBSET S PROVE h[s] \in Nat
  <2> DEFINE C == {u \in SUBSET S : h[u] \notin Nat}
  <2> SUFFICES ASSUME C # {} PROVE FALSE
    OBVIOUS
  <2>1. /\ C \subseteq SUBSET S
        /\ \A u : u \in C <=> u \in SUBSET S /\ h[u] \notin Nat
    OBVIOUS
  <2> HIDE DEF C
  <2>2. PICK u \in C : \A w \in C : ~(w \subseteq u /\ w # u)
    BY <2>1, LeastSet
  <2>3. u \in SUBSET S /\ h[u] \notin Nat
    BY <2>1
  <2>4. {} \in SUBSET S
    OBVIOUS
  <2>5. h[{}] = 0
    BY <1>9, <2>4
  <2>6. u # {}
    BY <2>3, <2>5
  <2>7. OneOf(u) \in u /\ OneOf(u) \in S
    BY <1>1, <2>3, <2>6
  <2>8. h[u \ {OneOf(u)}] \in Nat
    BY <2>1, <2>2, <2>3, <2>7
  <2>9. f[OneOf(u)] \in Nat
    BY <2>7
  <2>10. h[u] = f[OneOf(u)] + h[u \ {OneOf(u)}]
    BY <1>9, <2>3, <2>6
  <2> QED
    BY <2>3, <2>8, <2>9, <2>10
<1>12. h \in [SUBSET S -> Nat]
  BY <1>8, <1>10, <1>11
<1> QED
  BY <1>9, <1>12 DEF Adds, h

\* The order of the summands does not matter.
LEMMA TakeOut ==
  ASSUME NEW S, IsFiniteSet(S), NEW f \in [S -> Nat], NEW g, Adds(g, f, S),
         NEW T \in SUBSET S, NEW x \in T
  PROVE  g[T] = f[x] + g[T \ {x}]
<1> DEFINE Bad(U) == \E y \in U : g[U] # f[y] + g[U \ {y}]
<1> DEFINE C == {U \in SUBSET S : Bad(U)}
<1> SUFFICES ASSUME C # {} PROVE FALSE
  OBVIOUS
<1>1. C \subseteq SUBSET S /\ \A U : U \in C <=> U \in SUBSET S /\ Bad(U)
  OBVIOUS
<1> HIDE DEF C
<1>2. PICK U \in C : \A W \in C : ~(W \subseteq U /\ W # U)
  BY <1>1, LeastSet
<1>3. U \in SUBSET S /\ Bad(U)
  BY <1>1
<1>4. PICK y \in U : g[U] # f[y] + g[U \ {y}]
  BY <1>3
<1> DEFINE z == OneOf(U)
<1>5. z \in U
  BY <1>4 DEF OneOf
<1>6. g[U] = f[z] + g[U \ {z}]
  BY <1>3, <1>5 DEF Adds
<1> HIDE DEF z
<1>7. z # y
  BY <1>4, <1>6
<1> DEFINE W == (U \ {z}) \ {y}
<1>8. /\ U \ {z} \in SUBSET S /\ y \in U \ {z}
      /\ U \ {y} \in SUBSET S /\ z \in U \ {y}
      /\ (U \ {y}) \ {z} = W /\ W \in SUBSET S
  BY <1>3, <1>5, <1>7
<1>9. ~Bad(U \ {z}) /\ ~Bad(U \ {y})
  BY <1>1, <1>2, <1>5, <1>8
<1>10. g[U \ {z}] = f[y] + g[W] /\ g[U \ {y}] = f[z] + g[W]
  BY <1>8, <1>9
<1>11. y \in S /\ z \in S
  BY <1>3, <1>5
<1>12. f[y] \in Nat /\ f[z] \in Nat /\ g[W] \in Nat
  BY <1>8, <1>11 DEF Adds
<1>13. f[z] + (f[y] + g[W]) = f[y] + (f[z] + g[W])
  BY <1>12
<1> QED
  BY <1>4, <1>6, <1>10, <1>13

LEMMA SameSum ==
  ASSUME NEW S, IsFiniteSet(S), NEW f1, NEW f2, NEW g1, NEW g2,
         Adds(g1, f1, S), Adds(g2, f2, S),
         NEW T \in SUBSET S, \A x \in T : f1[x] = f2[x]
  PROVE  g1[T] = g2[T]
<1> DEFINE C == {U \in SUBSET T : g1[U] # g2[U]}
<1> SUFFICES ASSUME C # {} PROVE FALSE
  OBVIOUS
<1>1. /\ C \subseteq SUBSET S
      /\ \A U : U \in C <=> U \in SUBSET T /\ g1[U] # g2[U]
  OBVIOUS
<1> HIDE DEF C
<1>2. PICK U \in C : \A W \in C : ~(W \subseteq U /\ W # U)
  BY <1>1, LeastSet
<1>3. U \in SUBSET T /\ U \in SUBSET S /\ g1[U] # g2[U]
  BY <1>1
<1>4. U # {}
  BY <1>3 DEF Adds
<1>5. OneOf(U) \in U
  BY <1>4 DEF OneOf
<1>6. g1[U \ {OneOf(U)}] = g2[U \ {OneOf(U)}]
  BY <1>1, <1>2, <1>3, <1>5
<1>7. /\ g1[U] = f1[OneOf(U)] + g1[U \ {OneOf(U)}]
      /\ g2[U] = f2[OneOf(U)] + g2[U \ {OneOf(U)}]
  BY <1>3, <1>4 DEF Adds
<1>8. f1[OneOf(U)] = f2[OneOf(U)]
  BY <1>3, <1>5
<1> QED
  BY <1>3, <1>6, <1>7, <1>8

LEMMA SumBelow ==
  ASSUME NEW S, IsFiniteSet(S), NEW B \in Nat, NEW f \in [S -> 0..B],
         NEW g, Adds(g, f, S), NEW T \in SUBSET S
  PROVE  g[T] <= B * Cardinality(T)
<1> DEFINE C == {U \in SUBSET T : ~ (g[U] <= B * Cardinality(U))}
<1> SUFFICES ASSUME C # {} PROVE FALSE
  OBVIOUS
<1>1. /\ C \subseteq SUBSET S
      /\ \A U : U \in C <=> U \in SUBSET T /\ ~ (g[U] <= B * Cardinality(U))
  OBVIOUS
<1> HIDE DEF C
<1>2. PICK U \in C : \A W \in C : ~(W \subseteq U /\ W # U)
  BY <1>1, LeastSet
<1>3. U \in SUBSET T /\ U \in SUBSET S /\ ~ (g[U] <= B * Cardinality(U))
  BY <1>1
<1>4. IsFiniteSet(U)
  BY <1>3, FS_Subset
<1>5. U # {}
  <2> SUFFICES ASSUME U = {} PROVE FALSE
    OBVIOUS
  <2>1. Cardinality(U) = 0 /\ g[U] = 0
    BY FS_EmptySet DEF Adds
  <2> QED
    BY <1>3, <2>1
<1> DEFINE x == OneOf(U)
<1>6. x \in U
  BY <1>5 DEF OneOf
<1>7. g[U] = f[x] + g[U \ {x}]
  BY <1>3, <1>5 DEF Adds
<1> HIDE DEF x
<1> DEFINE W == U \ {x}
<1> DEFINE n == Cardinality(W)
<1>8. Cardinality(W) = Cardinality(U) - 1 /\ IsFiniteSet(W)
  BY <1>4, <1>6, FS_RemoveElement
<1>9. W \in SUBSET T /\ W # U /\ W \subseteq U
  BY <1>3, <1>6
<1>10. g[W] <= B * Cardinality(W)
  BY <1>1, <1>2, <1>9
<1>11. n \in Nat /\ Cardinality(U) \in Nat
  BY <1>4, <1>8, FS_CardinalityType
<1>12. Cardinality(U) = n + 1
  BY <1>8, <1>11
<1>13. f[x] \in 0..B /\ g[W] \in Nat
  BY <1>3, <1>6, <1>9 DEF Adds
<1>14. g[U] = f[x] + g[W] /\ g[W] <= B * n
  BY <1>7, <1>10
<1> HIDE DEF W, n
<1>15. B * (n + 1) = B * n + B
  BY <1>11
<1>16. B * n \in Nat
  BY <1>11
<1>17. g[U] <= B * n + B
  BY <1>13, <1>14, <1>16
<1> QED
  BY <1>3, <1>12, <1>15, <1>17

---------------------------------------------------------------------------
(* The question: get_dns_request *)

LEMMA ElementIn ==
  ASSUME NEW S, NEW s \in Seq(S), NEW i \in 1..Len(s)
  PROVE  s[i] \in S
OBVIOUS

LEMMA Joined ==
  ASSUME NEW S, NEW s \in Seq(S), NEW t \in Seq(S)
  PROVE  /\ s \o t \in Seq(S)
         /\ Len(s \o t) = Len(s) + Len(t)
         /\ \A i \in 1..Len(s) : (s \o t)[i] = s[i]
         /\ \A i \in 1..Len(t) : (s \o t)[Len(s) + i] = t[i]
OBVIOUS

LEMMA LeastImage ==
  ASSUME NEW s, IsFiniteSet(s), s # {}, NEW A \in [s -> SUBSET s]
  PROVE  \E x \in s : \A y \in s : ~(A[y] \subseteq A[x] /\ A[y] # A[x])
<1>1. PICK C : C = {A[x] : x \in s}
  OBVIOUS
<1>2. C \subseteq SUBSET s
  BY <1>1
<1>3. C # {}
  BY <1>1
<1>4. PICK U \in C : \A W \in C : ~(W \subseteq U /\ W # U)
  BY <1>2, <1>3, LeastSet
<1>5. PICK x \in s : U = A[x]
  BY <1>1
<1>6. \A y \in s : A[y] \in C
  BY <1>1
<1>7. \A y \in s : ~(A[y] \subseteq A[x] /\ A[y] # A[x])
  BY ONLY <1>4, <1>5, <1>6
<1> QED
  BY <1>7

\* FoldLeft takes the largest index out of a set of them.
LEMMA MaxIsMember ==
  ASSUME NEW s, IsFiniteSet(s), s # {}
  PROVE  s \subseteq Int => Max(s) \in s
<1> DEFINE Above == [x \in s |-> {y \in s : y > x}]
<1>1. Above \in [s -> SUBSET s]
  OBVIOUS
<1> HIDE DEF Above
<1>2. PICK x \in s :
        \A y \in s : ~(Above[y] \subseteq Above[x] /\ Above[y] # Above[x])
  BY <1>1, LeastImage
<1> USE DEF Above
<1> HAVE s \subseteq Int
<1>3. ASSUME NEW y \in s PROVE x >= y
  <2> SUFFICES ASSUME y > x PROVE FALSE
    OBVIOUS
  <2>1. x \in Int /\ y \in Int /\ s \subseteq Int
    OBVIOUS
  <2>2. y \in Above[x] /\ y \notin Above[y]
    BY <2>1
  <2>3. ASSUME NEW z \in Above[y] PROVE z \in Above[x]
    BY <2>1
  <2> QED
    BY <1>2, <2>2, <2>3
<1> QED
  BY <1>3 DEF Max

Character == 1..255

\* get_dns_request at work: countp is a place of buf.
States ==
  {q \in [buf : Seq(0..255), countp : Nat] : q.countp \in 1..Len(q.buf)}

Start == [buf |-> <<0>>, countp |-> 1]

LEMMA StartState == Start \in States /\ Len(Start.buf) = 1
<1>1. <<0>> \in Seq(0..255) /\ Len(<<0>>) = 1
  OBVIOUS
<1>2. 1 \in 1..Len(<<0>>)
  BY <1>1
<1> QED
  BY <1>1, <1>2 DEF Start, States

\* A character takes one more byte at most.
LEMMA AddCharKeeps ==
  ASSUME NEW q \in States, NEW c \in Character
  PROVE  /\ AddChar(q, c) \in States
         /\ Len(AddChar(q, c).buf) <= Len(q.buf) + 1
<1> DEFINE b == q.buf
<1>1. /\ q = [buf |-> b, countp |-> q.countp]
      /\ b \in Seq(0..255) /\ q.countp \in Nat /\ q.countp \in 1..Len(b)
      /\ Len(b) \in Nat
  BY DEF States
<1> HIDE DEF b
<1>2. CASE c = Dot /\ b[q.countp] = 0
  <2>1. AddChar(q, c) = q
    BY <1>2 DEF AddChar, NewLabel, b
  <2> QED
    BY <1>1, <2>1 DEF b
<1>3. CASE c = Dot /\ b[q.countp] # 0
  <2>1. AddChar(q, c) = [buf |-> Append(b, 0), countp |-> Len(b) + 1]
    BY <1>3 DEF AddChar, NewLabel, b
  <2>2. Append(b, 0) \in Seq(0..255) /\ Len(Append(b, 0)) = Len(b) + 1
    BY <1>1
  <2>3. Len(b) + 1 \in Nat /\ Len(b) + 1 \in 1..(Len(b) + 1)
    BY <1>1
  <2>4. AddChar(q, c).buf = Append(b, 0)
    BY <2>1
  <2>5. AddChar(q, c) \in States
    BY <2>1, <2>2, <2>3 DEF States
  <2> QED
    BY <1>1, <2>2, <2>4, <2>5 DEF b
<1>4. CASE c # Dot
  <2> DEFINE d == CountedUp(q.buf, q.countp)
  <2> DEFINE k == q.countp
  <2>1. k \in DOMAIN b
    BY <1>1
  <2>2. b[k] \in 0..255
    BY <1>1, ElementIn
  <2>3. (b[k] + 1) % 256 \in 0..255
    BY <2>2
  <2>4. d = [b EXCEPT ![k] = (b[k] + 1) % 256]
    BY DEF CountedUp, b
  <2> HIDE DEF d, k
  <2>5. d \in Seq(0..255) /\ Len(d) = Len(b)
    BY <1>1, <2>1, <2>3, <2>4
  <2>6. AddChar(q, c) = [buf |-> Append(d, c), countp |-> q.countp]
    BY <1>1, <1>4 DEF AddChar, b, d
  <2>7. Append(d, c) \in Seq(0..255) /\ Len(Append(d, c)) = Len(b) + 1
    BY <2>5 DEF Character
  <2>8. q.countp \in 1..(Len(b) + 1)
    BY <1>1
  <2>9. AddChar(q, c) \in States
    BY <1>1, <2>6, <2>7, <2>8 DEF States
  <2>10. AddChar(q, c).buf = Append(d, c)
    BY <2>6
  <2> QED
    BY <1>1, <2>7, <2>9, <2>10 DEF b
<1> QED
  BY <1>2, <1>3, <1>4

\* What FoldLeft unfolds to when it writes the name.
Writer(n) ==
  CHOOSE g : g = [s \in SUBSET DOMAIN n |->
    IF s = {} THEN Start ELSE AddChar(g[s \ {Max(s)}], n[Max(s)])]

LEMMA FoldWrites ==
  ASSUME NEW n
  PROVE  FoldLeft(AddChar, [buf |-> <<0>>, countp |-> 1], n)
           = Writer(n)[DOMAIN n]
BY DEF FoldLeft, MapThenFoldSet, Writer, Start

\* The state after the first i characters.
Written(n, i) == Writer(n)[1..i]

\* get_dns_request writes one character after the other.
LEMMA WriterSteps ==
  ASSUME NEW n \in Seq(Character)
  PROVE  /\ Written(n, 0) = Start
         /\ \A i \in 1..Len(n) :
              Written(n, i) = AddChar(Written(n, i - 1), n[i])
<1> DEFINE S == DOMAIN n
<1> DEFINE P == [s \in SUBSET S |-> Max(s)]
<1> DEFINE F == [p \in (SUBSET S) \X States |-> AddChar(p[2], n[Max(p[1])])]
<1> DEFINE h == Writer(n)
<1>1. S = 1..Len(n) /\ Len(n) \in Nat /\ IsFiniteSet(S)
  BY FS_Interval
<1>2. ASSUME NEW s \in SUBSET S, s # {}
      PROVE  Max(s) \in s /\ n[Max(s)] \in Character
  <2>1. IsFiniteSet(s) /\ s \subseteq Int
    BY <1>1, FS_Subset
  <2>2. Max(s) \in s
    BY <1>2, <2>1, MaxIsMember
  <2>3. Max(s) \in DOMAIN n
    BY <2>2
  <2> QED
    BY <1>1, <2>2, <2>3, ElementIn
<1> HIDE DEF S
<1>3. \A s \in SUBSET S : s # {} => P[s] \in s
  BY <1>2
<1>4. \A s \in SUBSET S : \A v \in States : s # {} => F[<<s, v>>] \in States
  <2> SUFFICES ASSUME NEW s \in SUBSET S, NEW v \in States, s # {}
               PROVE  F[<<s, v>>] \in States
    OBVIOUS
  <2>1. F[<<s, v>>] = AddChar(v, n[Max(s)])
    OBVIOUS
  <2> QED
    BY <1>2, <2>1, AddCharKeeps
<1>5. PICK g : Solves(g, S, States, Start, P, F)
  <2> HIDE DEF P, F
  <2> QED
    BY <1>1, <1>3, <1>4, StartState, SolutionExists
<1>6. /\ g \in [SUBSET S -> States]
      /\ \A s \in SUBSET S :
           g[s] = IF s = {} THEN Start ELSE F[<<s, g[s \ {P[s]}]>>]
  BY <1>5 DEF Solves
<1>7. ASSUME NEW s \in SUBSET S, s # {}
      PROVE  F[<<s, g[s \ {P[s]}]>>] = AddChar(g[s \ {Max(s)}], n[Max(s)])
  <2>1. s \ {Max(s)} \in SUBSET S
    OBVIOUS
  <2>2. g[s \ {Max(s)}] \in States
    BY <1>6, <2>1
  <2>3. P[s] = Max(s)
    OBVIOUS
  <2> QED
    BY <2>2, <2>3
<1> HIDE DEF P, F
<1>8. g = [s \in SUBSET S |->
            IF s = {} THEN Start ELSE AddChar(g[s \ {Max(s)}], n[Max(s)])]
  BY <1>6, <1>7
<1>9. h = [s \in SUBSET S |->
            IF s = {} THEN Start ELSE AddChar(h[s \ {Max(s)}], n[Max(s)])]
  BY <1>8 DEF Writer, S
<1> HIDE DEF h
<1>10. ASSUME NEW s \in SUBSET S
      PROVE  h[s] = IF s = {} THEN Start
                    ELSE AddChar(h[s \ {Max(s)}], n[Max(s)])
  BY <1>9
<1>11. 1..0 = {} /\ 1..0 \in SUBSET S
  OBVIOUS
<1>12. ASSUME NEW i \in 1..Len(n)
       PROVE  h[1..i] = AddChar(h[1..(i - 1)], n[i])
  <2>1. i \in Nat /\ i <= Len(n) /\ i >= 1
    BY <1>1
  <2>2. 1..i \in SUBSET S
    BY <1>1, <2>1
  <2>3. i \in 1..i /\ (1..i) \ {i} = 1..(i - 1)
    BY <2>1
  <2>4. Max(1..i) = i
    <3>1. i \in 1..i /\ \A y \in 1..i : i >= y
      OBVIOUS
    <3>2. \A x \in 1..i : (\A y \in 1..i : x >= y) => x = i
      OBVIOUS
    <3> QED
      BY <3>1, <3>2 DEF Max
  <2> QED
    BY <1>10, <2>2, <2>3, <2>4
<1>13. h[1..0] = Start
  BY <1>10, <1>11
<1> QED
  BY <1>12, <1>13 DEF Written, h

\* What is written are bytes, at most one more than characters.
LEMMA WriterWrites ==
  ASSUME NEW n \in Seq(Character)
  PROVE  \A i \in 0..Len(n) :
           Written(n, i) \in States /\ Len(Written(n, i).buf) <= i + 1
<1> DEFINE Fits(i) ==
      Written(n, i) \in States /\ Len(Written(n, i).buf) <= i + 1
<1> DEFINE S == {i \in Nat : i \in 0..Len(n) => Fits(i)}
<1>1. 0 \in S
  <2>1. Written(n, 0) = Start
    BY WriterSteps
  <2>2. Start \in States /\ Len(Start.buf) <= 0 + 1
    BY StartState
  <2> QED
    BY <2>1, <2>2
<1>2. ASSUME NEW i \in Nat, i \in S PROVE i + 1 \in S
  <2> SUFFICES ASSUME i + 1 \in 0..Len(n) PROVE Fits(i + 1)
    OBVIOUS
  <2>1. i + 1 \in 1..Len(n) /\ i \in 0..Len(n) /\ (i + 1) - 1 = i
    OBVIOUS
  <2>2. Fits(i)
    BY <1>2, <2>1
  <2> DEFINE q == Written(n, i)
  <2> DEFINE r == Written(n, i + 1)
  <2>3. r = AddChar(q, n[i + 1])
    BY <2>1, WriterSteps
  <2>4. n[i + 1] \in Character
    BY <2>1, ElementIn
  <2>5. q \in States /\ Len(q.buf) <= i + 1
    BY <2>2
  <2> HIDE DEF q, r
  <2>6. r \in States /\ Len(r.buf) <= Len(q.buf) + 1
    BY <2>3, <2>4, <2>5, AddCharKeeps
  <2>7. Len(q.buf) \in Nat /\ Len(r.buf) \in Nat
    BY <2>5, <2>6 DEF States
  <2>8. r \in States /\ Len(r.buf) <= (i + 1) + 1
    BY <2>5, <2>6, <2>7
  <2> QED
    BY <2>8 DEF r
<1> HIDE DEF S
<1>3. \A i \in Nat : i \in S
  BY <1>1, <1>2, AllNumbers
<1> QED
  BY <1>3 DEF S

Byte == 0..255

\* The question has 12 bytes before the name, 4 after it, and one for the count
\* of the first label and one for the 0 at the end.
LEMMA RequestIsBytes ==
  ASSUME NEW n \in Seq(Character)
  PROVE  /\ GetDnsRequest(n) \in Seq(Byte)
         /\ Len(GetDnsRequest(n)) <= Len(n) + 18
<1> DEFINE q == Written(n, Len(n))
<1>1. q \in States /\ Len(q.buf) <= Len(n) + 1
  BY WriterWrites
<1>2. QName(n) = IF q.buf[q.countp] # 0 THEN Append(q.buf, 0) ELSE q.buf
  <2>1. DOMAIN n = 1..Len(n)
    OBVIOUS
  <2> QED
    BY <2>1, FoldWrites DEF QName, Written
<1> HIDE DEF q
<1>3. q.buf \in Seq(Byte) /\ Len(q.buf) \in Nat
  BY <1>1 DEF States, Byte
<1>4. Append(q.buf, 0) \in Seq(Byte) /\ Len(Append(q.buf, 0)) = Len(q.buf) + 1
  BY <1>3 DEF Byte
<1>5. QName(n) \in Seq(Byte) /\ Len(QName(n)) <= Len(n) + 2
  BY <1>1, <1>2, <1>3, <1>4
<1>6. DnsHeader \in Seq(Byte) /\ Len(DnsHeader) = 12
  BY DEF DnsHeader, Byte
<1>7. <<0, 1, 0, 1>> \in Seq(Byte) /\ Len(<<0, 1, 0, 1>>) = 4
  BY DEF Byte
<1> DEFINE qn == QName(n)
<1> DEFINE e == <<0, 1, 0, 1>>
<1> HIDE DEF qn, e
<1> DEFINE hd == DnsHeader
<1>8. hd \in Seq(Byte) /\ Len(hd) = 12 /\ qn \in Seq(Byte)
  BY <1>5, <1>6 DEF qn
<1> HIDE DEF hd
<1>9. hd \o qn \in Seq(Byte) /\ Len(hd \o qn) = Len(hd) + Len(qn)
  <2>1. hd \in Seq(Byte) /\ qn \in Seq(Byte)
    BY ONLY <1>8
  <2>2. hd \o qn \in Seq(Byte)
    BY ONLY <2>1
  <2>3. Len(hd \o qn) = Len(hd) + Len(qn)
    BY ONLY <2>1
  <2> QED
    BY ONLY <2>2, <2>3
<1>10. hd \o qn \in Seq(Byte) /\ Len(hd \o qn) = 12 + Len(qn)
  BY <1>8, <1>9
<1>11. /\ (hd \o qn) \o e \in Seq(Byte)
      /\ Len((hd \o qn) \o e) = 12 + Len(qn) + 4
  BY <1>7, <1>10 DEF e
<1>12. GetDnsRequest(n) = (hd \o qn) \o e
  BY DEF GetDnsRequest, hd, qn, e
<1>13. Len(qn) \in Nat /\ Len(n) \in Nat /\ Len(qn) <= Len(n) + 2
  BY <1>5 DEF qn
<1> QED
  BY <1>11, <1>12, <1>13

---------------------------------------------------------------------------
(* The labels of a name, and how they stand in the question *)

\* The labels of the first i characters.
Labels(n) ==
  CHOOSE f : f = [i \in 0..Len(n) |->
    IF i = 0 THEN <<>> ELSE WithChar(f[i - 1], n, i)]

\* LabelsOf in terms of its recursion.
LEMMA LabelsOfName ==
  ASSUME NEW n PROVE LabelsOf(n) = Labels(n)[Len(n)]
BY DEF LabelsOf, Labels

SetsOfLabels == Seq(Seq(Character))

LEMMA WithCharKeeps ==
  ASSUME NEW n \in Seq(Character), NEW ls \in SetsOfLabels, NEW i \in 1..Len(n)
  PROVE  WithChar(ls, n, i) \in SetsOfLabels
<1>1. n[i] \in Character /\ Len(ls) \in Nat
  BY DEF SetsOfLabels
<1> DEFINE L == Seq(Character)
<1>2. <<n[i]>> \in L
  BY <1>1
<1>3. Append(ls, <<n[i]>>) \in SetsOfLabels
  <2> HIDE DEF L
  <2> QED
    BY <1>2 DEF SetsOfLabels, L
<1>4. [ls EXCEPT ![Len(ls)] = Append(ls[Len(ls)], n[i])] \in SetsOfLabels
  <2>1. CASE Len(ls) = 0
    <3>1. [ls EXCEPT ![Len(ls)] = Append(ls[Len(ls)], n[i])] = ls
      BY <2>1 DEF SetsOfLabels
    <3> QED
      BY <3>1
  <2>2. CASE Len(ls) # 0
    <3>1. Len(ls) \in 1..Len(ls)
      BY <1>1, <2>2
    <3>2. ls[Len(ls)] \in L
      BY <3>1 DEF SetsOfLabels
    <3>3. Append(ls[Len(ls)], n[i]) \in L
      BY <1>1, <3>2
    <3> DEFINE l == Append(ls[Len(ls)], n[i])
    <3> HIDE DEF L, l
    <3>4. [ls EXCEPT ![Len(ls)] = l] \in Seq(L)
      BY <3>1, <3>3 DEF SetsOfLabels, L, l
    <3> QED
      BY <3>4 DEF SetsOfLabels, L, l
  <2> QED
    BY <2>1, <2>2
<1> QED
  BY <1>3, <1>4 DEF WithChar, SetsOfLabels

\* The recursion has its values: one character after the other.
LEMMA LabelSteps ==
  ASSUME NEW n \in Seq(Character)
  PROVE  /\ Labels(n)[0] = <<>>
         /\ \A i \in 0..Len(n) : Labels(n)[i] \in SetsOfLabels
         /\ \A i \in 1..Len(n) :
              Labels(n)[i] = WithChar(Labels(n)[i - 1], n, i)
<1> DEFINE D == 0..Len(n)
<1> DEFINE Go == 1..Len(n)
<1> DEFINE N == [i \in Go |-> i - 1]
<1> DEFINE M == [i \in D |-> i]
<1> DEFINE V == SetsOfLabels
<1> DEFINE A == [i \in D |-> <<>>]
<1> DEFINE F == [p \in Go \X V |-> WithChar(p[2], n, p[1])]
<1>1. Len(n) \in Nat
  OBVIOUS
<1>2. Descends(D, Go, N, M, Len(n))
  BY <1>1 DEF Descends
<1>3. A \in [D -> V]
  <2>1. <<>> \in V
    BY DEF SetsOfLabels
  <2> QED
    BY <2>1
<1>4. ASSUME NEW i \in Go, NEW v \in V
      PROVE  F[<<i, v>>] = WithChar(v, n, i) /\ F[<<i, v>>] \in V
  <2>1. F[<<i, v>>] = WithChar(v, n, i)
    OBVIOUS
  <2> QED
    BY <2>1, WithCharKeeps
<1>5. PICK g : Follows(g, D, V, Go, N, A, F)
  <2> HIDE DEF D, Go, N, M, V, A, F
  <2> QED
    BY <1>2, <1>3, <1>4, RecursionHasValues
<1>6. ASSUME NEW i \in D
      PROVE  /\ g[i] \in V
             /\ g[i] = IF i = 0 THEN <<>> ELSE WithChar(g[i - 1], n, i)
  <2>1. /\ g \in [D -> V]
        /\ g[i] = IF i \in Go THEN F[<<i, g[N[i]]>>] ELSE A[i]
    BY <1>5 DEF Follows
  <2>2. CASE i = 0
    <3>1. i \notin Go
      BY <2>2
    <3> QED
      BY <2>1, <2>2, <3>1
  <2>3. CASE i # 0
    <3>1. i \in Go /\ N[i] = i - 1 /\ i - 1 \in D
      BY <1>1, <2>3
    <3>2. g[i - 1] \in V
      BY <2>1, <3>1
    <3> HIDE DEF F, N, Go, V
    <3> QED
      BY <1>4, <2>1, <2>3, <3>1, <3>2
  <2> QED
    BY <2>2, <2>3
<1>7. g = [i \in D |-> IF i = 0 THEN <<>> ELSE WithChar(g[i - 1], n, i)]
  BY <1>5, <1>6 DEF Follows
<1> DEFINE h == Labels(n)
<1>8. h = [i \in D |-> IF i = 0 THEN <<>> ELSE WithChar(h[i - 1], n, i)]
  BY <1>7 DEF Labels
<1> HIDE DEF h
<1>9. ASSUME NEW i \in D
      PROVE  h[i] = IF i = 0 THEN <<>> ELSE WithChar(h[i - 1], n, i)
  BY <1>8
<1> DEFINE S == {i \in Nat : i \in D => h[i] \in V}
<1>10. 0 \in S
  <2>1. 0 \in D /\ <<>> \in V
    BY <1>1 DEF SetsOfLabels
  <2> QED
    BY <1>9, <2>1
<1>11. ASSUME NEW i \in Nat, i \in S PROVE i + 1 \in S
  <2> SUFFICES ASSUME i + 1 \in D PROVE h[i + 1] \in V
    OBVIOUS
  <2>1. i \in D /\ i + 1 \in 1..Len(n) /\ (i + 1) - 1 = i /\ i + 1 # 0
    BY <1>1
  <2>2. h[i] \in V
    BY <1>11, <2>1
  <2>3. h[i + 1] = WithChar(h[i], n, i + 1)
    BY <1>9, <2>1
  <2> QED
    BY <2>1, <2>2, <2>3, WithCharKeeps
<1>12. \A i \in Nat : i \in S
  <2> HIDE DEF S
  <2> QED
    BY <1>10, <1>11, AllNumbers
<1>13. \A i \in D : h[i] \in V
  BY <1>12
<1>14. h[0] = <<>>
  BY <1>1, <1>9
<1>15. \A i \in 1..Len(n) : h[i] = WithChar(h[i - 1], n, i)
  BY <1>1, <1>9
<1> QED
  BY <1>13, <1>14, <1>15 DEF h

\* The places in a sequence.
Positive == Nat \ {0}

\* The label l stands in b from p on, after its count; a reader does not
\* take the count for a reference.
LabelStands(b, l, p) ==
  /\ Len(l) # 0 /\ Len(l) < 192
  /\ p + Len(l) <= Len(b)
  /\ b[p] = Len(l)
  /\ \A c \in 1..Len(l) : b[p + c] = l[c]

\* The labels ls stand in b one after the other, from P[1], P[2] and so on, and
\* what follows them begins at the last element of P.
Encodes(b, ls, P) ==
  /\ P \in [1..(Len(ls) + 1) -> Positive]
  /\ P[1] = 1
  /\ \A i, j \in 1..(Len(ls) + 1) : i <= j => P[i] <= P[j]
  /\ \A j \in 1..Len(ls) :
       LabelStands(b, ls[j], P[j]) /\ P[j + 1] = P[j] + 1 + Len(ls[j])

\* get_dns_request counts the last of the labels.
InLabel(q, ls, P) ==
  /\ ls # <<>>
  /\ q.countp = P[Len(ls)]
  /\ P[Len(ls) + 1] = Len(q.buf) + 1

\* It has put down a count for the next label.
AfterDot(q, ls, P) ==
  /\ q.countp = Len(q.buf)
  /\ P[Len(ls) + 1] = Len(q.buf)
  /\ q.buf[q.countp] = 0

\* A label stands where its bytes do not change.
LEMMA LabelStaysPut ==
  ASSUME NEW S, NEW b \in Seq(S), NEW b2 \in Seq(S), Len(b) <= Len(b2),
         NEW l \in Seq(Character), NEW p \in Positive, LabelStands(b, l, p),
         \A x \in p..(p + Len(l)) : b2[x] = b[x]
  PROVE  LabelStands(b2, l, p)
<1>1. Len(l) \in Nat /\ Len(b) \in Nat /\ Len(b2) \in Nat /\ p \in Nat
  BY DEF Positive
<1>2. b2[p] = b[p]
  BY <1>1
<1>3. \A c \in 1..Len(l) : b2[p + c] = b[p + c]
  BY <1>1
<1>4. Len(l) # 0 /\ Len(l) < 192 /\ b[p] = Len(l)
  BY DEF LabelStands
<1>5. p + Len(l) <= Len(b2)
  <2>1. p + Len(l) <= Len(b)
    BY DEF LabelStands
  <2> QED
    BY <1>1, <2>1
<1>6. \A c \in 1..Len(l) : b2[p + c] = l[c]
  <2>1. \A c \in 1..Len(l) : b[p + c] = l[c]
    BY DEF LabelStands
  <2> QED
    BY <1>3, <2>1
<1>7. b2[p] = Len(l)
  BY <1>2, <1>4
<1> QED
  BY <1>4, <1>5, <1>6, <1>7 DEF LabelStands

\* A dot after a label puts down the count of the next one.
LEMMA DotWrites ==
  ASSUME NEW q \in States, q.buf[q.countp] # 0
  PROVE  LET r == AddChar(q, Dot) IN
         /\ Len(r.buf) = Len(q.buf) + 1
         /\ r.countp = Len(r.buf)
         /\ r.buf[r.countp] = 0
         /\ \A x \in 1..Len(q.buf) : r.buf[x] = q.buf[x]
<1> DEFINE b == q.buf
<1>1. b \in Seq(0..255) /\ Len(b) \in Nat
  BY DEF States
<1>2. AddChar(q, Dot) = [buf |-> Append(b, 0), countp |-> Len(b) + 1]
  BY DEF AddChar, NewLabel
<1> HIDE DEF b
<1>3. Len(Append(b, 0)) = Len(b) + 1 /\ Append(b, 0)[Len(b) + 1] = 0
  BY <1>1
<1>4. \A x \in 1..Len(b) : Append(b, 0)[x] = b[x]
  BY <1>1
<1> QED
  BY <1>2, <1>3, <1>4 DEF b

\* A character is counted and put down.
LEMMA CharacterWrites ==
  ASSUME NEW q \in States, NEW c \in Character, c # Dot
  PROVE  LET r == AddChar(q, c) IN
         /\ Len(r.buf) = Len(q.buf) + 1
         /\ r.countp = q.countp
         /\ r.buf[q.countp] = (q.buf[q.countp] + 1) % 256
         /\ r.buf[Len(q.buf) + 1] = c
         /\ \A x \in 1..Len(q.buf) : x # q.countp => r.buf[x] = q.buf[x]
<1> DEFINE b == q.buf
<1> DEFINE k == q.countp
<1>1. q = [buf |-> b, countp |-> k]
  BY DEF States
<1>2. b \in Seq(0..255) /\ k \in 1..Len(b) /\ Len(b) \in Nat
  BY DEF States
<1> DEFINE v == (b[k] + 1) % 256
<1> DEFINE d == [b EXCEPT ![k] = v]
<1>3. AddChar(q, c) = [buf |-> Append(d, c), countp |-> k]
  BY <1>1 DEF AddChar, CountedUp
<1> HIDE DEF b, k
<1>4. b[k] \in 0..255
  BY <1>2, ElementIn
<1>5. v \in 0..255
  BY <1>4
<1> HIDE DEF v
<1>6. d \in Seq(0..255) /\ Len(d) = Len(b) /\ d[k] = v
  BY <1>2, <1>5
<1>7. \A x \in 1..Len(b) : x # k => d[x] = b[x]
  BY <1>2
<1> HIDE DEF d
<1> DEFINE e == Append(d, c)
<1>8. Len(e) = Len(b) + 1 /\ e[Len(b) + 1] = c
  BY <1>2, <1>6
<1>9. \A x \in 1..Len(b) : e[x] = d[x]
  <2> SUFFICES ASSUME NEW x \in 1..Len(b) PROVE e[x] = d[x]
    OBVIOUS
  <2>1. x \in 1..Len(d)
    BY <1>6
  <2> QED
    BY <1>6, <2>1
<1> HIDE DEF e
<1>10. AddChar(q, c).buf = e /\ AddChar(q, c).countp = k
  BY <1>3 DEF e
<1>11. e[k] = v /\ \A x \in 1..Len(b) : x # k => e[x] = b[x]
  BY <1>2, <1>6, <1>7, <1>9
<1> QED
  BY <1>8, <1>10, <1>11 DEF b, k, v

\* A label in front of place m stays when nothing there changes.
LEMMA LabelInFront ==
  ASSUME NEW b \in Seq(0..255), NEW b2 \in Seq(0..255), Len(b) <= Len(b2),
         NEW l \in Seq(Character), NEW p \in Positive, LabelStands(b, l, p),
         NEW m \in Nat, p + Len(l) < m,
         \A x \in 1..Len(b) : x < m => b2[x] = b[x]
  PROVE  LabelStands(b2, l, p)
<1>1. Len(l) \in Nat /\ Len(b) \in Nat /\ p \in Nat /\ p >= 1
  BY DEF Positive
<1>2. p + Len(l) <= Len(b)
  BY DEF LabelStands
<1>3. \A x \in p..(p + Len(l)) : b2[x] = b[x]
  BY <1>1, <1>2
<1> QED
  BY <1>3, LabelStaysPut

\* What Encodes says of the places of the labels.
LEMMA PlacesOf ==
  ASSUME NEW b \in Seq(0..255), NEW ls \in SetsOfLabels, NEW P,
         Encodes(b, ls, P)
  PROVE  /\ Len(ls) \in Nat
         /\ \A j \in 1..(Len(ls) + 1) : P[j] \in Positive /\ P[j] \in Nat
         /\ \A j \in 1..Len(ls) :
              /\ ls[j] \in Seq(Character) /\ Len(ls[j]) \in Nat
              /\ P[j + 1] = P[j] + 1 + Len(ls[j])
              /\ P[j + 1] <= P[Len(ls) + 1]
<1>1. Len(ls) \in Nat
  BY DEF SetsOfLabels
<1>2. \A j \in 1..(Len(ls) + 1) : P[j] \in Positive /\ P[j] \in Nat
  BY DEF Encodes, Positive
<1>3. ASSUME NEW j \in 1..Len(ls)
      PROVE  /\ ls[j] \in Seq(Character) /\ Len(ls[j]) \in Nat
             /\ P[j + 1] = P[j] + 1 + Len(ls[j])
             /\ P[j + 1] <= P[Len(ls) + 1]
  <2> DEFINE L == Seq(Character)
  <2>1. ls \in Seq(L)
    BY DEF SetsOfLabels
  <2> HIDE DEF L
  <2>2. ls[j] \in L
    BY <2>1
  <2>3. ls[j] \in Seq(Character)
    BY <2>2 DEF L
  <2>4. j + 1 \in 1..(Len(ls) + 1) /\ Len(ls) + 1 \in 1..(Len(ls) + 1)
        /\ j + 1 <= Len(ls) + 1
    BY <1>1
  <2>5. P[j + 1] <= P[Len(ls) + 1]
    BY <2>4 DEF Encodes
  <2>6. P[j + 1] = P[j] + 1 + Len(ls[j])
    BY DEF Encodes
  <2> QED
    BY <2>3, <2>5, <2>6
<1> QED
  BY <1>1, <1>2, <1>3

\* A dot ends the label, and leaves those that stand.
LEMMA LabelEnds ==
  ASSUME NEW q \in States, NEW ls \in SetsOfLabels, NEW P,
         Encodes(q.buf, ls, P), InLabel(q, ls, P)
  PROVE  LET r == AddChar(q, Dot) IN
         Encodes(r.buf, ls, P) /\ AfterDot(r, ls, P)
<1> DEFINE r == AddChar(q, Dot)
<1> DEFINE k == Len(ls)
<1>1. q.buf \in Seq(0..255) /\ Len(q.buf) \in Nat
  BY DEF States
<1>2. k \in Nat /\ k # 0 /\ k \in 1..Len(ls)
  BY EmptySeq DEF InLabel, SetsOfLabels
<1>3. q.buf[q.countp] # 0
  <2>1. LabelStands(q.buf, ls[k], P[k])
    BY <1>2 DEF Encodes
  <2> DEFINE l == ls[k]
  <2>2. q.countp = P[k]
    BY DEF InLabel
  <2>3. LabelStands(q.buf, l, P[k])
    BY <2>1
  <2> HIDE DEF k, l
  <2>4. q.buf[P[k]] = Len(l) /\ Len(l) # 0
    BY <2>3 DEF LabelStands
  <2>5. q.buf[q.countp] = Len(l) /\ Len(l) # 0
    BY <2>2, <2>4
  <2> QED
    BY <2>5
<1>4. r \in States
  BY AddCharKeeps DEF Dot, Character
<1>5. /\ Len(r.buf) = Len(q.buf) + 1
      /\ r.countp = Len(r.buf)
      /\ r.buf[r.countp] = 0
      /\ \A x \in 1..Len(q.buf) : r.buf[x] = q.buf[x]
  BY <1>3, DotWrites
<1>6. r.buf \in Seq(0..255)
  BY <1>4 DEF States
<1> HIDE DEF r
<1>7. P[k + 1] = Len(q.buf) + 1
  BY DEF InLabel
<1>8. ASSUME NEW j \in 1..k PROVE LabelStands(r.buf, ls[j], P[j])
  <2>1. LabelStands(q.buf, ls[j], P[j])
    BY DEF Encodes
  <2>2. ls[j] \in Seq(Character) /\ P[j] \in Positive
    BY <1>1, <1>2, PlacesOf
  <2>3. P[j] \in Nat /\ Len(ls[j]) \in Nat /\ P[j] + 1 + Len(ls[j]) <= P[k + 1]
    BY <1>1, <1>2, PlacesOf
  <2>4. P[j] + Len(ls[j]) < Len(q.buf) + 1 /\ Len(q.buf) + 1 \in Nat
    BY <1>1, <1>7, <2>3
  <2>5. Len(q.buf) <= Len(r.buf)
    BY <1>1, <1>5
  <2> HIDE DEF k
  <2> QED
    BY ONLY <1>1, <1>5, <1>6, <2>1, <2>2, <2>4, <2>5, LabelInFront
<1>9. Encodes(r.buf, ls, P)
  BY <1>8 DEF Encodes
<1>10. AfterDot(r, ls, P)
  BY <1>5, <1>7 DEF AfterDot
<1> QED
  BY <1>9, <1>10 DEF r

\* A character after a dot begins a label behind those that stand.
LEMMA LabelBegins ==
  ASSUME NEW q \in States, NEW ls \in SetsOfLabels, NEW P,
         Encodes(q.buf, ls, P), AfterDot(q, ls, P),
         NEW c \in Character, c # Dot
  PROVE  LET r == AddChar(q, c) ms == Append(ls, <<c>>) IN
         \E O : Encodes(r.buf, ms, O) /\ InLabel(r, ms, O)
<1> DEFINE r == AddChar(q, c)
<1> DEFINE ms == Append(ls, <<c>>)
<1> DEFINE k == Len(ls)
<1> DEFINE B == Len(q.buf)
<1> DEFINE O == [j \in 1..(k + 2) |-> IF j = k + 2 THEN B + 2 ELSE P[j]]
<1>1. q.buf \in Seq(0..255) /\ B \in Nat /\ B >= 1
  BY DEF States
<1>2. k \in Nat
  BY DEF SetsOfLabels
<1>3. q.countp = B /\ P[k + 1] = B /\ q.buf[B] = 0
  BY DEF AfterDot
<1>4. r \in States
  BY AddCharKeeps
<1>5. /\ Len(r.buf) = B + 1
      /\ r.countp = B
      /\ r.buf[B] = (q.buf[B] + 1) % 256
      /\ r.buf[B + 1] = c
      /\ \A x \in 1..B : x # B => r.buf[x] = q.buf[x]
  BY <1>3, CharacterWrites
<1>6. r.buf \in Seq(0..255)
  BY <1>4 DEF States
<1>7. r.buf[B] = 1
  BY <1>3, <1>5
<1> HIDE DEF r
<1> DEFINE L == Seq(Character)
<1>8. <<c>> \in L
  OBVIOUS
<1>9. Len(ms) = k + 1 /\ ms[k + 1] = <<c>> /\ \A j \in 1..k : ms[j] = ls[j]
  <2>1. ls \in Seq(L)
    BY DEF SetsOfLabels
  <2> HIDE DEF L
  <2> QED
    BY <1>8, <2>1
<1> HIDE DEF ms
<1>10. P \in [1..(k + 1) -> Positive]
  BY DEF Encodes
<1>11. O \in [1..(k + 2) -> Positive]
  <2>1. B + 2 \in Positive
    BY <1>1 DEF Positive
  <2> HIDE DEF B
  <2> QED
    BY <1>2, <1>10, <2>1
<1>12. O[k + 2] = B + 2 /\ \A j \in 1..(k + 1) : O[j] = P[j]
  BY <1>2
<1>13. P[1] = 1
  BY DEF Encodes
<1>14. ASSUME NEW i \in 1..(k + 2), NEW j \in 1..(k + 2), i <= j
       PROVE  O[i] <= O[j]
  <2>1. CASE j = k + 2 /\ i # k + 2
    <3>1. i \in 1..(k + 1) /\ k + 1 \in 1..(k + 1) /\ i <= k + 1
      BY <1>2, <2>1
    <3>2. P[i] <= P[k + 1]
      BY <3>1 DEF Encodes
    <3>3. O[i] = P[i] /\ O[j] = B + 2
      BY <1>12, <2>1, <3>1
    <3>4. P[i] \in Nat
      BY <1>10, <3>1 DEF Positive
    <3> HIDE DEF O, B
    <3> QED
      BY <1>1, <1>3, <3>2, <3>3, <3>4
  <2>2. CASE i = k + 2
    <3>1. j = k + 2
      BY <1>2, <1>14, <2>2
    <3>2. O[i] = B + 2 /\ O[j] = B + 2
      BY <1>12, <2>2, <3>1
    <3> HIDE DEF O, B
    <3> QED
      BY <1>1, <3>2
  <2>3. CASE j # k + 2
    <3>1. i \in 1..(k + 1) /\ j \in 1..(k + 1)
      BY <1>2, <1>14, <2>3
    <3>2. P[i] <= P[j]
      BY <1>14, <3>1 DEF Encodes
    <3> QED
      BY <1>12, <3>1, <3>2
  <2> QED
    BY <2>1, <2>2, <2>3
<1> HIDE DEF O
<1>15. ASSUME NEW j \in 1..k
       PROVE  /\ LabelStands(r.buf, ms[j], O[j])
              /\ O[j + 1] = O[j] + 1 + Len(ms[j])
  <2>1. LabelStands(q.buf, ls[j], P[j]) /\ P[j + 1] = P[j] + 1 + Len(ls[j])
    BY DEF Encodes
  <2>2. ls[j] \in Seq(Character) /\ P[j] \in Positive
    BY <1>1, <1>2, PlacesOf
  <2>3. P[j] \in Nat /\ Len(ls[j]) \in Nat /\ P[j] + 1 + Len(ls[j]) <= P[k + 1]
    BY <1>1, <1>2, PlacesOf
  <2>4. P[j] + Len(ls[j]) < B /\ Len(q.buf) <= Len(r.buf)
    <3>1. P[j] + Len(ls[j]) < B
      BY ONLY <1>1, <1>3, <2>3
    <3>2. Len(r.buf) = B + 1 /\ Len(q.buf) = B
      BY <1>5
    <3> HIDE DEF B
    <3> QED
      BY ONLY <1>1, <3>1, <3>2
  <2>5. \A x \in 1..Len(q.buf) : x < B => r.buf[x] = q.buf[x]
    BY <1>1, <1>5
  <2>6. LabelStands(r.buf, ls[j], P[j])
    <3> HIDE DEF k, B
    <3> QED
      BY ONLY <1>1, <1>6, <2>1, <2>2, <2>4, <2>5, LabelInFront
  <2>7. j \in 1..(k + 1) /\ j + 1 \in 1..(k + 1)
    BY <1>2
  <2>8. O[j] = P[j] /\ O[j + 1] = P[j + 1] /\ ms[j] = ls[j]
    BY <1>9, <1>12, <2>7
  <2> QED
    BY <2>1, <2>6, <2>8
<1>16. LabelStands(r.buf, ms[k + 1], O[k + 1])
       /\ O[(k + 1) + 1] = O[k + 1] + 1 + Len(ms[k + 1])
  <2>1. k + 1 \in 1..(k + 1) /\ (k + 1) + 1 = k + 2
    BY <1>2
  <2>2. O[k + 1] = B /\ O[(k + 1) + 1] = B + 2
    BY <1>3, <1>12, <2>1
  <2> DEFINE l == <<c>>
  <2>3. Len(l) = 1 /\ l[1] = c
    OBVIOUS
  <2>4. ms[k + 1] = l
    BY <1>9
  <2> HIDE DEF l
  <2>5. \A x \in 1..Len(l) : r.buf[B + x] = l[x]
    BY <1>5, <2>3
  <2>6. /\ Len(l) # 0 /\ Len(l) < 192
        /\ B + Len(l) <= Len(r.buf) /\ r.buf[B] = Len(l)
    BY <1>1, <1>5, <1>7, <2>3
  <2>7. LabelStands(r.buf, l, B)
    BY <2>5, <2>6 DEF LabelStands
  <2>8. B + 2 = B + 1 + Len(l)
    BY <1>1, <2>3
  <2> HIDE DEF B, k
  <2> QED
    BY <2>2, <2>4, <2>7, <2>8
<1>17. Encodes(r.buf, ms, O)
  <2>1. Len(ms) + 1 = k + 2
    BY <1>2, <1>9
  <2>2. O[1] = 1
    BY <1>2, <1>12, <1>13
  <2>3. ASSUME NEW j \in 1..Len(ms)
        PROVE  /\ LabelStands(r.buf, ms[j], O[j])
               /\ O[j + 1] = O[j] + 1 + Len(ms[j])
    <3>1. j \in 1..k \/ j = k + 1
      BY <1>2, <1>9
    <3> HIDE DEF k
    <3> QED
      BY <1>15, <1>16, <3>1
  <2> QED
    BY <1>11, <1>14, <2>1, <2>2, <2>3 DEF Encodes
<1>18. InLabel(r, ms, O)
  <2>1. ms # <<>>
    BY <1>2, <1>9
  <2>2. k + 1 \in 1..(k + 1) /\ (k + 1) + 1 = k + 2
    BY <1>2
  <2>3. O[Len(ms)] = B
    BY <1>3, <1>9, <1>12, <2>2
  <2>4. O[Len(ms) + 1] = B + 2
    BY <1>9, <1>12, <2>2
  <2>5. B + 2 = Len(r.buf) + 1
    BY <1>1, <1>5
  <2> QED
    BY <1>5, <2>1, <2>3, <2>4, <2>5 DEF InLabel
<1> HIDE DEF ms
<1>19. \E U : Encodes(r.buf, ms, U) /\ InLabel(r, ms, U)
  BY <1>17, <1>18
<1> QED
  BY <1>19 DEF r, ms

\* The last label grows by a character, as long as its count stays short.
LEMMA LabelGoesOn ==
  ASSUME NEW q \in States, NEW ls \in SetsOfLabels, NEW P,
         Encodes(q.buf, ls, P), InLabel(q, ls, P),
         NEW c \in Character, c # Dot, Len(ls[Len(ls)]) < 191
  PROVE  LET r == AddChar(q, c)
             ms == [ls EXCEPT ![Len(ls)] = Append(@, c)] IN
         \E O : Encodes(r.buf, ms, O) /\ InLabel(r, ms, O)
<1> DEFINE r == AddChar(q, c)
<1> DEFINE k == Len(ls)
<1> DEFINE l == ls[k]
<1> DEFINE l2 == Append(l, c)
<1> DEFINE ms == [ls EXCEPT ![k] = l2]
<1> DEFINE B == Len(q.buf)
<1> DEFINE O == [j \in 1..(k + 1) |-> IF j = k + 1 THEN B + 2 ELSE P[j]]
<1>1. q.buf \in Seq(0..255) /\ B \in Nat /\ q.countp \in 1..B
  BY DEF States
<1>2. k \in Nat /\ k # 0 /\ k \in 1..Len(ls)
  BY EmptySeq DEF InLabel, SetsOfLabels
<1>3. q.countp = P[k] /\ P[k + 1] = B + 1
  BY DEF InLabel
<1>4. /\ l \in Seq(Character) /\ Len(l) \in Nat
      /\ P[k] \in Nat /\ P[k + 1] = P[k] + 1 + Len(l)
  BY <1>1, <1>2, PlacesOf
<1>5. LabelStands(q.buf, l, P[k])
  BY <1>2 DEF Encodes
<1>6. r \in States
  BY AddCharKeeps
<1>7. /\ Len(r.buf) = B + 1
      /\ r.countp = q.countp
      /\ r.buf[q.countp] = (q.buf[q.countp] + 1) % 256
      /\ r.buf[B + 1] = c
      /\ \A x \in 1..B : x # q.countp => r.buf[x] = q.buf[x]
  BY CharacterWrites
<1>8. r.buf \in Seq(0..255)
  BY <1>6 DEF States
<1> HIDE DEF r, l
<1>9. Len(l2) = Len(l) + 1 /\ l2[Len(l) + 1] = c /\ l2 \in Seq(Character)
      /\ \A x \in 1..Len(l) : l2[x] = l[x]
  BY <1>4
<1> HIDE DEF l2
<1>10. q.buf[P[k]] = Len(l) /\ Len(l) # 0
  BY <1>5 DEF LabelStands
<1>11. Len(l) < 191
  BY DEF l
<1>12. r.buf[P[k]] = Len(l) + 1
  <2>1. r.buf[P[k]] = (Len(l) + 1) % 256
    BY <1>3, <1>7, <1>10
  <2>2. (Len(l) + 1) % 256 = Len(l) + 1
    BY <1>4, <1>11
  <2> QED
    BY <2>1, <2>2
<1>13. /\ Len(ms) = k /\ ms[k] = l2
       /\ \A j \in 1..k : j # k => ms[j] = ls[j]
  <2> DEFINE L == Seq(Character)
  <2>1. ls \in Seq(L) /\ l2 \in L
    BY <1>9 DEF SetsOfLabels
  <2> HIDE DEF L
  <2> QED
    BY <1>2, <2>1
<1> HIDE DEF ms
<1>14. P \in [1..(k + 1) -> Positive]
  BY DEF Encodes
<1>15. O \in [1..(k + 1) -> Positive]
  <2>1. B + 2 \in Positive
    BY <1>1 DEF Positive
  <2> HIDE DEF B
  <2> QED
    BY <1>2, <1>14, <2>1
<1>16. O[k + 1] = B + 2 /\ \A j \in 1..k : O[j] = P[j]
  BY <1>2
<1>17. P[1] = 1
  BY DEF Encodes
<1> HIDE DEF O
<1>18. ASSUME NEW i \in 1..(k + 1), NEW j \in 1..(k + 1), i <= j
       PROVE  O[i] <= O[j]
  <2>1. P[i] <= P[j] /\ P[i] <= P[k + 1]
    <3>1. k + 1 \in 1..(k + 1) /\ i <= k + 1
      BY <1>2
    <3> QED
      BY <1>18, <3>1 DEF Encodes
  <2>2. P[i] \in Nat /\ P[j] \in Nat
    BY <1>14 DEF Positive
  <2>3. CASE i = k + 1
    <3>1. j = k + 1
      BY <1>2, <1>18, <2>3
    <3> HIDE DEF B
    <3> QED
      BY <1>1, <1>16, <2>3, <3>1
  <2>4. CASE i # k + 1 /\ j = k + 1
    <3>1. i \in 1..k
      BY <1>2, <2>4
    <3>2. O[i] = P[i] /\ O[j] = B + 2
      BY <1>16, <2>4, <3>1
    <3> HIDE DEF B
    <3> QED
      BY <1>1, <1>3, <2>1, <2>2, <3>2
  <2>5. CASE j # k + 1
    <3>1. i \in 1..k /\ j \in 1..k
      BY <1>2, <1>18, <2>5
    <3> QED
      BY <1>16, <2>1, <3>1
  <2> QED
    BY <2>3, <2>4, <2>5
<1>19. ASSUME NEW j \in 1..k, j # k
       PROVE  /\ LabelStands(r.buf, ms[j], O[j])
              /\ O[j + 1] = O[j] + 1 + Len(ms[j])
  <2>1. LabelStands(q.buf, ls[j], P[j]) /\ P[j + 1] = P[j] + 1 + Len(ls[j])
    BY DEF Encodes
  <2>2. ls[j] \in Seq(Character) /\ P[j] \in Positive
    BY <1>1, <1>2, PlacesOf
  <2>3. P[j] \in Nat /\ Len(ls[j]) \in Nat
    BY <1>1, <1>2, PlacesOf
  <2>4. P[j + 1] <= P[k]
    <3>1. j + 1 \in 1..(k + 1) /\ k \in 1..(k + 1) /\ j + 1 <= k
      BY <1>2, <1>19
    <3> QED
      BY <3>1 DEF Encodes
  <2>5. P[j] + Len(ls[j]) < P[k] /\ Len(q.buf) <= Len(r.buf)
    <3>1. P[j] + 1 + Len(ls[j]) <= P[k]
      BY <2>1, <2>4
    <3> DEFINE p == P[j]
    <3> DEFINE m == Len(ls[j])
    <3> DEFINE pk == P[k]
    <3>2. p \in Nat /\ m \in Nat /\ pk \in Nat /\ p + 1 + m <= pk
      BY <1>4, <2>3, <3>1
    <3> HIDE DEF p, m, pk
    <3>3. p + m < pk
      BY <3>2
    <3>4. B <= Len(r.buf)
      BY <1>1, <1>7
    <3> QED
      BY <3>3, <3>4 DEF p, m, pk
  <2>6. \A x \in 1..Len(q.buf) : x < P[k] => r.buf[x] = q.buf[x]
    BY <1>1, <1>3, <1>4, <1>7
  <2>7. LabelStands(r.buf, ls[j], P[j])
    <3> HIDE DEF k, B
    <3> QED
      BY ONLY <1>1, <1>4, <1>8, <2>1, <2>2, <2>5, <2>6, LabelInFront
  <2>8. j \in 1..k /\ j + 1 \in 1..k
    BY <1>2, <1>19
  <2>9. O[j] = P[j] /\ O[j + 1] = P[j + 1] /\ ms[j] = ls[j]
    BY <1>13, <1>16, <1>19, <2>8
  <2> QED
    BY <2>1, <2>7, <2>9
<1>20. LabelStands(r.buf, ms[k], O[k]) /\ O[k + 1] = O[k] + 1 + Len(ms[k])
  <2>1. O[k] = P[k] /\ O[k + 1] = B + 2
    BY <1>2, <1>16
  <2>2. ASSUME NEW x \in 1..Len(l2) PROVE r.buf[P[k] + x] = l2[x]
    <3>1. CASE x = Len(l) + 1
      <4>1. P[k] + x = B + 1
        <5> DEFINE pk == P[k]
        <5>1. /\ pk \in Nat /\ Len(l) \in Nat /\ B \in Nat
              /\ pk + 1 + Len(l) = B + 1
          BY ONLY <1>1, <1>3, <1>4
        <5> HIDE DEF pk, B
        <5>2. pk + x = B + 1
          BY ONLY <3>1, <5>1
        <5> QED
          BY ONLY <5>2 DEF pk
      <4> QED
        BY <1>7, <1>9, <3>1, <4>1
    <3>2. CASE x # Len(l) + 1
      <4>1. x \in 1..Len(l)
        BY <1>4, <1>9, <3>2
      <4>2. q.buf[P[k] + x] = l[x]
        BY <1>5, <4>1 DEF LabelStands
      <4>3. P[k] + x \in 1..B /\ P[k] + x # P[k]
        BY ONLY <1>1, <1>3, <1>4, <4>1
      <4> HIDE DEF B
      <4> QED
        BY <1>3, <1>7, <1>9, <4>1, <4>2, <4>3
    <3> QED
      BY <3>1, <3>2
  <2> DEFINE m == Len(l)
  <2> DEFINE pk == P[k]
  <2> DEFINE n == Len(r.buf)
  <2>3. m \in Nat /\ pk \in Nat /\ B \in Nat /\ n = B + 1 /\ B + 1 = pk + 1 + m
        /\ m < 191 /\ Len(l2) = m + 1
    BY <1>1, <1>3, <1>4, <1>7, <1>9, <1>11
  <2>4. /\ Len(l2) # 0 /\ Len(l2) < 192 /\ P[k] + Len(l2) <= Len(r.buf)
        /\ r.buf[P[k]] = Len(l2)
    <3>1. r.buf[pk] = m + 1
      BY <1>12
    <3> HIDE DEF m, pk, n, B
    <3>2. m + 1 # 0 /\ m + 1 < 192 /\ pk + (m + 1) <= n
      BY <2>3
    <3> QED
      BY <2>3, <3>1, <3>2 DEF pk, n
  <2>5. LabelStands(r.buf, l2, P[k])
    BY <2>2, <2>4 DEF LabelStands
  <2>6. B + 2 = P[k] + 1 + Len(l2)
    <3> HIDE DEF m, pk, n, B
    <3>1. B + 2 = pk + 1 + (m + 1)
      BY <2>3
    <3> QED
      BY <2>3, <3>1 DEF pk
  <2> HIDE DEF B, k
  <2> QED
    BY <1>13, <2>1, <2>5, <2>6
<1>21. Encodes(r.buf, ms, O)
  <2>1. O[1] = 1
    BY <1>2, <1>16, <1>17
  <2>2. ASSUME NEW j \in 1..Len(ms)
        PROVE  /\ LabelStands(r.buf, ms[j], O[j])
               /\ O[j + 1] = O[j] + 1 + Len(ms[j])
    <3>1. j \in 1..k
      BY <1>13
    <3> HIDE DEF k
    <3> QED
      BY <1>19, <1>20, <3>1
  <2> QED
    BY <1>13, <1>15, <1>18, <2>1, <2>2 DEF Encodes
<1>22. InLabel(r, ms, O)
  <2>1. ms # <<>>
    BY <1>2, <1>13
  <2>2. r.countp = O[Len(ms)] /\ O[Len(ms) + 1] = B + 2
    BY <1>2, <1>3, <1>7, <1>13, <1>16
  <2>3. B + 2 = Len(r.buf) + 1
    BY <1>1, <1>7
  <2> QED
    BY <2>1, <2>2, <2>3 DEF InLabel
<1>23. \E U : Encodes(r.buf, ms, U) /\ InLabel(r, ms, U)
  BY <1>21, <1>22
<1>24. ms = [ls EXCEPT ![Len(ls)] = Append(@, c)]
  BY DEF ms, l2, l
<1> QED
  BY <1>23, <1>24 DEF r

\* No count is taken for a reference.
Short(labels) == \A j \in 1..Len(labels) : Len(labels[j]) < 192

\* After the first i characters of n.
Standing(n, i, P) ==
  LET q == Written(n, i)
      labels == Labels(n)[i]
  IN /\ Encodes(q.buf, labels, P)
     /\ IF i = 0 \/ n[i] = Dot THEN AfterDot(q, labels, P)
        ELSE InLabel(q, labels, P)

LEMMA NothingWritten ==
  ASSUME NEW n, Written(n, 0) = Start, Labels(n)[0] = <<>>
  PROVE  Standing(n, 0, <<1>>)
<1> DEFINE P == <<1>>
<1> DEFINE ls == <<>>
<1>1. P \in [1..1 -> Positive] /\ P[1] = 1
  BY DEF Positive
<1>2. Len(ls) = 0 /\ Start.buf = <<0>> /\ Start.countp = 1 /\ Len(<<0>>) = 1
  BY DEF Start
<1> HIDE DEF P, ls
<1>3. Encodes(Start.buf, ls, P)
  <2>1. 1..(Len(ls) + 1) = {1} /\ 1..Len(ls) = {}
    BY <1>2
  <2> QED
    BY <1>1, <1>2, <2>1 DEF Encodes
<1>4. AfterDot(Start, ls, P)
  BY <1>1, <1>2 DEF AfterDot
<1> QED
  BY <1>3, <1>4 DEF Standing, ls, P

LEMMA DotStands ==
  ASSUME NEW n \in Seq(Character), NEW i \in Nat, i + 1 \in 1..Len(n),
         Written(n, i) \in States, Labels(n)[i] \in SetsOfLabels,
         Written(n, i + 1) = AddChar(Written(n, i), n[i + 1]),
         Labels(n)[i + 1] = WithChar(Labels(n)[i], n, i + 1),
         n[i + 1] = Dot, NEW P, Standing(n, i, P)
  PROVE  Standing(n, i + 1, P)
<1> DEFINE q == Written(n, i)
<1> DEFINE ls == Labels(n)[i]
<1> DEFINE r == AddChar(q, Dot)
<1>1. q \in States /\ ls \in SetsOfLabels /\ Encodes(q.buf, ls, P)
  BY DEF Standing
<1>2. Labels(n)[i + 1] = ls /\ Written(n, i + 1) = r
  BY DEF WithChar
<1>3. Encodes(r.buf, ls, P) /\ AfterDot(r, ls, P)
  <2>1. CASE i = 0 \/ n[i] = Dot
    <3>1. AfterDot(q, ls, P)
      BY <2>1 DEF Standing
    <3>2. r = q
      BY <3>1 DEF AfterDot, AddChar, NewLabel
    <3> HIDE DEF q, ls, r
    <3> QED
      BY <1>1, <3>1, <3>2
  <2>2. CASE ~(i = 0 \/ n[i] = Dot)
    <3>1. InLabel(q, ls, P)
      BY <2>2 DEF Standing
    <3> HIDE DEF q, ls
    <3> QED
      BY <1>1, <3>1, LabelEnds
  <2> QED
    BY <2>1, <2>2
<1>4. i + 1 # 0
  OBVIOUS
<1> HIDE DEF q, ls, r
<1> QED
  BY <1>2, <1>3 DEF Standing

LEMMA CharacterStands ==
  ASSUME NEW n \in Seq(Character), NEW i \in Nat, i + 1 \in 1..Len(n),
         Written(n, i) \in States, Labels(n)[i] \in SetsOfLabels,
         Written(n, i + 1) = AddChar(Written(n, i), n[i + 1]),
         Labels(n)[i + 1] = WithChar(Labels(n)[i], n, i + 1),
         n[i + 1] # Dot, Short(Labels(n)[i + 1]), NEW P, Standing(n, i, P)
  PROVE  \E O : Standing(n, i + 1, O)
<1> DEFINE q == Written(n, i)
<1> DEFINE ls == Labels(n)[i]
<1> DEFINE c == n[i + 1]
<1> DEFINE r == AddChar(q, c)
<1> DEFINE ms == Labels(n)[i + 1]
<1>1. q \in States /\ ls \in SetsOfLabels /\ Encodes(q.buf, ls, P)
  BY DEF Standing
<1>2. c \in Character /\ c # Dot
  BY ElementIn
<1>3. \E O : Encodes(r.buf, ms, O) /\ InLabel(r, ms, O)
  <2>1. CASE i = 0 \/ n[i] = Dot
    <3>1. AfterDot(q, ls, P)
      BY <2>1 DEF Standing
    <3>2. ms = Append(ls, <<c>>)
      BY <2>1 DEF WithChar
    <3> HIDE DEF q, ls, c, ms
    <3> QED
      BY <1>1, <1>2, <3>1, <3>2, LabelBegins
  <2>2. CASE ~(i = 0 \/ n[i] = Dot)
    <3>1. InLabel(q, ls, P)
      BY <2>2 DEF Standing
    <3>2. ms = [ls EXCEPT ![Len(ls)] = Append(@, c)]
      BY <2>2 DEF WithChar
    <3>3. Short(ms)
      OBVIOUS
    <3> HIDE DEF q, ls, c, ms
    <3>4. Len(ls) \in Nat /\ Len(ls) # 0
      BY <1>1, <3>1, EmptySeq DEF InLabel, SetsOfLabels
    <3>5. ls[Len(ls)] \in Seq(Character)
      <4>1. q.buf \in Seq(0..255) /\ Len(ls) \in 1..Len(ls)
        BY <1>1, <3>4 DEF States
      <4> QED
        BY <1>1, <4>1, PlacesOf
    <3>6. Len(ms) = Len(ls) /\ ms[Len(ls)] = Append(ls[Len(ls)], c)
      BY <1>1, <3>2, <3>4 DEF SetsOfLabels
    <3>7. Len(ls[Len(ls)]) < 191
      <4>1. Len(ms[Len(ls)]) < 192
        BY <3>3, <3>4, <3>6 DEF Short
      <4>2. Len(Append(ls[Len(ls)], c)) = Len(ls[Len(ls)]) + 1
        BY <1>2, <3>5
      <4>3. Len(ls[Len(ls)]) \in Nat
        BY <3>5
      <4> QED
        BY <3>6, <4>1, <4>2, <4>3
    <3> QED
      BY <1>1, <1>2, <3>1, <3>2, <3>7, LabelGoesOn
  <2> QED
    BY <2>1, <2>2
<1>4. i + 1 # 0
  OBVIOUS
<1>5. Written(n, i + 1) = r
  OBVIOUS
<1> HIDE DEF q, ls, r, ms
<1> QED
  BY <1>3, <1>4, <1>5 DEF Standing, ms

\* What is short after another character was so before.
LEMMA ShortBefore ==
  ASSUME NEW n \in Seq(Character), NEW ls \in SetsOfLabels,
         NEW i \in 1..Len(n), Short(WithChar(ls, n, i))
  PROVE  Short(ls)
<1> DEFINE L == Seq(Character)
<1> DEFINE c == n[i]
<1>1. ls \in Seq(L) /\ c \in Character /\ <<c>> \in L
  BY ElementIn DEF SetsOfLabels
<1>2. \A j \in 1..Len(ls) : Len(ls[j]) \in Nat
  BY DEF SetsOfLabels
<1> HIDE DEF L, c
<1>3. CASE WithChar(ls, n, i) = ls
  BY <1>3
<1>4. CASE WithChar(ls, n, i) = Append(ls, <<c>>)
  <2> DEFINE e == <<c>>
  <2> HIDE DEF e
  <2> DEFINE ms == Append(ls, e)
  <2>1. Len(ms) = Len(ls) + 1 /\ \A j \in 1..Len(ls) : ms[j] = ls[j]
    BY <1>1 DEF e
  <2>2. Short(ms) /\ Len(ls) \in Nat
    BY <1>1, <1>4 DEF e
  <2> HIDE DEF ms
  <2>3. \A j \in 1..Len(ls) : j \in 1..Len(ms)
    BY <2>1, <2>2
  <2> QED
    BY <2>1, <2>2, <2>3 DEF Short
<1>5. CASE WithChar(ls, n, i) = [ls EXCEPT ![Len(ls)] = Append(@, c)]
  <2> DEFINE l == ls[Len(ls)]
  <2> DEFINE ms == [ls EXCEPT ![Len(ls)] = Append(l, c)]
  <2>1. Len(ms) = Len(ls)
    BY <1>1
  <2>2. Short(ms) /\ Len(ls) \in Nat
    BY <1>1, <1>5
  <2>3. ASSUME NEW j \in 1..Len(ls) PROVE Len(ls[j]) < 192
    <3>1. Len(ms[j]) < 192
      BY <2>1, <2>2 DEF Short
    <3>2. CASE j # Len(ls)
      <4>1. ms[j] = ls[j]
        BY <1>1, <3>2
      <4> QED
        BY <3>1, <4>1
    <3>3. CASE j = Len(ls)
      <4>1. l \in Seq(Character)
        BY <1>1, <3>3 DEF L
      <4>2. ms[j] = Append(l, c)
        BY <1>1, <3>3
      <4> HIDE DEF ms
      <4>3. Len(Append(l, c)) = Len(l) + 1 /\ Len(l) \in Nat
        BY <1>1, <4>1
      <4> QED
        BY <3>1, <3>3, <4>2, <4>3
    <3> QED
      BY <3>2, <3>3
  <2> QED
    BY <2>3 DEF Short
<1> QED
  BY <1>3, <1>4, <1>5 DEF WithChar, c

\* By induction over the characters.
LEMMA NameStands ==
  ASSUME NEW n \in Seq(Character), Short(LabelsOf(n))
  PROVE  \E P : Standing(n, Len(n), P)
<1> DEFINE S == {i \in Nat : i \in 0..Len(n) /\ Short(Labels(n)[i])
                               => \E P : Standing(n, i, P)}
<1>1. 0 \in S
  BY NothingWritten, LabelSteps, WriterSteps
<1>2. ASSUME NEW i \in Nat, i \in S PROVE i + 1 \in S
  <2> SUFFICES ASSUME i + 1 \in 0..Len(n), Short(Labels(n)[i + 1])
               PROVE  \E P : Standing(n, i + 1, P)
    OBVIOUS
  <2>1. i + 1 \in 1..Len(n) /\ i \in 0..Len(n) /\ (i + 1) - 1 = i
    OBVIOUS
  <2>2. Written(n, i) \in States /\ Labels(n)[i] \in SetsOfLabels
    BY <2>1, WriterWrites, LabelSteps
  <2>3. /\ Written(n, i + 1) = AddChar(Written(n, i), n[i + 1])
        /\ Labels(n)[i + 1] = WithChar(Labels(n)[i], n, i + 1)
    BY <2>1, WriterSteps, LabelSteps
  <2>4. Short(Labels(n)[i])
    BY <2>1, <2>2, <2>3, ShortBefore
  <2>5. PICK P : Standing(n, i, P)
    BY <1>2, <2>1, <2>4
  <2> QED
    BY <2>1, <2>2, <2>3, <2>5, DotStands, CharacterStands
<1>3. \A i \in Nat : i \in S
  <2> HIDE DEF S
  <2> QED
    BY <1>1, <1>2, AllNumbers
<1>4. Len(n) \in Nat /\ Len(n) \in 0..Len(n)
  OBVIOUS
<1> QED
  BY <1>3, <1>4, LabelsOfName

\* The name on the wire: its labels, and a 0.
LEMMA NameOnWire ==
  ASSUME NEW n \in Seq(Character), Short(LabelsOf(n))
  PROVE  LET b == QName(n) labels == LabelsOf(n) IN
         /\ b \in Seq(Byte) /\ b # <<>> /\ b[Len(b)] = 0
         /\ \E P : Encodes(b, labels, P) /\ P[Len(labels) + 1] = Len(b)
<1> DEFINE q == Written(n, Len(n))
<1> DEFINE ls == LabelsOf(n)
<1>1. q \in States
  BY WriterWrites
<1>2. QName(n) = IF q.buf[q.countp] # 0 THEN Append(q.buf, 0) ELSE q.buf
  <2>1. DOMAIN n = 1..Len(n)
    OBVIOUS
  <2> QED
    BY <2>1, FoldWrites DEF QName, Written
<1>3. ls \in SetsOfLabels /\ ls = Labels(n)[Len(n)]
  BY LabelsOfName, LabelSteps
<1>4. PICK P : Standing(n, Len(n), P)
  BY NameStands
<1>5. Encodes(q.buf, ls, P)
  BY <1>3, <1>4 DEF Standing
<1>6. AfterDot(q, ls, P) \/ InLabel(q, ls, P)
  BY <1>3, <1>4 DEF Standing
<1> HIDE DEF q, ls
<1>7. q.buf \in Seq(Byte) /\ Len(q.buf) \in Nat /\ q.countp \in 1..Len(q.buf)
  BY <1>1 DEF States, Byte
<1>8. CASE AfterDot(q, ls, P)
  <2>1. /\ q.countp = Len(q.buf) /\ P[Len(ls) + 1] = Len(q.buf)
        /\ q.buf[q.countp] = 0
    BY <1>8 DEF AfterDot
  <2>2. QName(n) = q.buf /\ q.buf # <<>>
    BY <1>2, <1>7, <2>1
  <2> QED
    BY <1>5, <1>7, <2>1, <2>2 DEF ls
<1>9. CASE InLabel(q, ls, P)
  <2>1. q.countp = P[Len(ls)] /\ P[Len(ls) + 1] = Len(q.buf) + 1 /\ ls # <<>>
    BY <1>9 DEF InLabel
  <2>2. Len(ls) \in 1..Len(ls)
    BY <1>3, <2>1, EmptySeq DEF SetsOfLabels
  <2>3. LabelStands(q.buf, ls[Len(ls)], P[Len(ls)])
    BY <1>5, <2>2 DEF Encodes
  <2>4. q.buf[q.countp] # 0
    BY <2>1, <2>3 DEF LabelStands
  <2> DEFINE b == Append(q.buf, 0)
  <2>5. QName(n) = b
    BY <1>2, <2>4
  <2>6. /\ b \in Seq(Byte) /\ Len(b) = Len(q.buf) + 1 /\ b[Len(b)] = 0
        /\ \A x \in 1..Len(q.buf) : b[x] = q.buf[x]
    BY <1>7 DEF Byte
  <2> HIDE DEF b
  <2>7. ASSUME NEW j \in 1..Len(ls) PROVE LabelStands(b, ls[j], P[j])
    <3>1. LabelStands(q.buf, ls[j], P[j])
      BY <1>5 DEF Encodes
    <3>2. q.buf \in Seq(0..255) /\ b \in Seq(0..255)
      BY <1>7, <2>6 DEF Byte
    <3>3. ls[j] \in Seq(Character) /\ P[j] \in Positive
      BY <1>3, <1>5, <3>2, PlacesOf
    <3>4. P[j] \in Nat /\ Len(ls[j]) \in Nat /\ P[j] + Len(ls[j]) <= Len(q.buf)
      <4>1. P[j] + Len(ls[j]) <= Len(q.buf)
        BY <3>1 DEF LabelStands
      <4>2. Len(ls[j]) \in Nat /\ P[j] \in Nat
        BY ONLY <3>3 DEF Positive
      <4> QED
        BY ONLY <4>1, <4>2
    <3>5. P[j] + Len(ls[j]) < Len(q.buf) + 1 /\ Len(q.buf) + 1 \in Nat
          /\ Len(q.buf) <= Len(b)
      BY <1>7, <2>6, <3>4
    <3> QED
      BY ONLY <2>6, <3>1, <3>2, <3>3, <3>5, LabelInFront
  <2>8. Encodes(b, ls, P)
    BY <1>5, <2>7 DEF Encodes
  <2>9. b # <<>>
    BY <1>7, <2>6
  <2> QED
    BY <2>1, <2>5, <2>6, <2>8, <2>9 DEF ls
<1> QED
  BY <1>6, <1>8, <1>9

---------------------------------------------------------------------------
(* How it is read *)

Reader(d) ==
  CHOOSE read : read = [p \in 1..Len(d) |->
    IF d[p] = 0 THEN [labels |-> <<>>, next |-> p + 1]
    ELSE IF AfterLabel(d, p) > Len(d)
    THEN [labels |-> <<LabelAt(d, p)>>, next |-> AfterLabel(d, p)]
    ELSE LET rest == read[AfterLabel(d, p)] IN
         [rest EXCEPT !.labels = <<LabelAt(d, p)>> \o @]]

LEMMA ReadByReader ==
  ASSUME NEW d PROVE ReadQuestion(d) = Reader(d)[Len(DnsHeader) + 1]
BY DEF ReadQuestion, Reader

\* The reader moves on, so its recursion ends.
LEMMA LabelsAdvance ==
  ASSUME NEW d \in Seq(Byte), NEW p \in 1..Len(d)
  PROVE  AfterLabel(d, p) \in Nat /\ AfterLabel(d, p) > p
<1> DEFINE y == d[p]
<1>1. y \in Byte
  BY ElementIn
<1>2. AfterLabel(d, p) = IF y >= 192 THEN p + 2 ELSE p + 1 + y
  BY DEF AfterLabel
<1> HIDE DEF y
<1>3. y \in Nat
  BY ONLY <1>1 DEF Byte
<1>4. p \in Nat
  OBVIOUS
<1> QED
  BY <1>2, <1>3, <1>4

\* It has the values one expects: one label after the other.
LEMMA ReaderReads ==
  ASSUME NEW d \in Seq(Byte), NEW p \in 1..Len(d)
  PROVE  LET h == Reader(d) IN
         /\ d[p] = 0 => h[p] = [labels |-> <<>>, next |-> p + 1]
         /\ d[p] # 0 /\ AfterLabel(d, p) <= Len(d) =>
              h[p] = [h[AfterLabel(d, p)] EXCEPT
                        !.labels = <<LabelAt(d, p)>> \o @]
<1> DEFINE D == 1..Len(d)
<1> DEFINE T == {LabelAt(d, x) : x \in D}
<1> DEFINE V == [labels : Seq(T), next : Nat]
<1> DEFINE Go == {x \in D : d[x] # 0 /\ AfterLabel(d, x) <= Len(d)}
<1> DEFINE N == [x \in Go |-> AfterLabel(d, x)]
<1> DEFINE M == [x \in D |-> Len(d) - x]
<1> DEFINE A == [x \in D |->
                  IF d[x] = 0 THEN [labels |-> <<>>, next |-> x + 1]
                  ELSE [labels |-> <<LabelAt(d, x)>>,
                        next |-> AfterLabel(d, x)]]
<1> DEFINE F == [z \in Go \X V |->
                  [z[2] EXCEPT !.labels = <<LabelAt(d, z[1])>> \o @]]
<1>1. Len(d) \in Nat
  OBVIOUS
<1>2. ASSUME NEW x \in D PROVE AfterLabel(d, x) \in Nat /\ AfterLabel(d, x) > x
  BY LabelsAdvance
<1>3. N \in [Go -> D] /\ Go \in SUBSET D
  <2>1. ASSUME NEW x \in Go PROVE AfterLabel(d, x) \in D
    BY <1>2
  <2> QED
    BY <2>1
<1>4. ASSUME NEW x \in Go PROVE M[N[x]] < M[x]
  <2>1. N[x] \in D /\ N[x] > x /\ x \in D
    BY <1>2, <1>3
  <2> HIDE DEF N
  <2>2. M[N[x]] = Len(d) - N[x] /\ M[x] = Len(d) - x
    BY <2>1
  <2> QED
    BY <1>1, <2>1, <2>2
<1>5. M \in [D -> 0..Len(d)]
  BY <1>1
<1>6. Descends(D, Go, N, M, Len(d))
  <2> HIDE DEF D, Go, N, M
  <2> QED
    BY <1>1, <1>3, <1>4, <1>5 DEF Descends
<1>7. ASSUME NEW x \in D
      PROVE  LabelAt(d, x) \in T /\ <<LabelAt(d, x)>> \in Seq(T)
  <2>1. LabelAt(d, x) \in T
    OBVIOUS
  <2> HIDE DEF T
  <2> QED
    BY <2>1
<1>8. A \in [D -> V]
  <2>1. ASSUME NEW x \in D PROVE A[x] \in V
    <3>1. <<>> \in Seq(T) /\ x + 1 \in Nat
      OBVIOUS
    <3>2. <<LabelAt(d, x)>> \in Seq(T) /\ AfterLabel(d, x) \in Nat
      BY <1>2, <1>7
    <3> HIDE DEF T
    <3> QED
      BY <3>1, <3>2
  <2>2. DOMAIN A = D
    OBVIOUS
  <2>3. A = [x \in D |-> A[x]]
    OBVIOUS
  <2> HIDE DEF A, V, D
  <2> QED
    BY <2>1, <2>3
<1>9. ASSUME NEW x \in Go, NEW v \in V
      PROVE  /\ F[<<x, v>>] = [v EXCEPT !.labels = <<LabelAt(d, x)>> \o @]
             /\ F[<<x, v>>] \in V
  <2>1. F[<<x, v>>] = [v EXCEPT !.labels = <<LabelAt(d, x)>> \o @]
    OBVIOUS
  <2>2. <<LabelAt(d, x)>> \in Seq(T)
    BY <1>7
  <2>3. <<LabelAt(d, x)>> \o v.labels \in Seq(T)
    <3> HIDE DEF T
    <3> QED
      BY <2>2, ConcatProperties
  <2> DEFINE s == <<LabelAt(d, x)>> \o v.labels
  <2>4. F[<<x, v>>] = [v EXCEPT !.labels = s]
    BY <2>1
  <2> HIDE DEF F, T, s
  <2>5. [v EXCEPT !.labels = s] \in V
    BY <2>3 DEF s
  <2> QED
    BY <2>1, <2>4, <2>5
<1>10. PICK g : Follows(g, D, V, Go, N, A, F)
  <2> HIDE DEF D, Go, N, M, V, A, F
  <2> QED
    BY <1>6, <1>8, <1>9, RecursionHasValues
<1> DEFINE Body(f, x) ==
      IF d[x] = 0 THEN [labels |-> <<>>, next |-> x + 1]
      ELSE IF AfterLabel(d, x) > Len(d)
      THEN [labels |-> <<LabelAt(d, x)>>, next |-> AfterLabel(d, x)]
      ELSE LET rest == f[AfterLabel(d, x)] IN
           [rest EXCEPT !.labels = <<LabelAt(d, x)>> \o @]
<1>11. ASSUME NEW x \in D PROVE g[x] = Body(g, x)
  <2>1. /\ g \in [D -> V]
        /\ g[x] = IF x \in Go THEN F[<<x, g[N[x]]>>] ELSE A[x]
    BY <1>10 DEF Follows
  <2>2. CASE x \in Go
    <3>1. N[x] = AfterLabel(d, x) /\ N[x] \in D
      BY <1>3, <2>2
    <3>2. d[x] # 0 /\ ~(AfterLabel(d, x) > Len(d))
      BY <1>1, <1>2, <2>2
    <3> HIDE DEF Go, N, F, V, D
    <3>3. g[N[x]] \in V
      BY <2>1, <3>1
    <3>4. g[x] = [g[N[x]] EXCEPT !.labels = <<LabelAt(d, x)>> \o @]
      BY <1>9, <2>1, <2>2, <3>3
    <3> QED
      BY <3>1, <3>2, <3>4
  <2>3. CASE x \notin Go
    <3>1. d[x] = 0 \/ AfterLabel(d, x) > Len(d)
      BY <1>1, <1>2, <2>3
    <3>2. g[x] = A[x]
      BY <2>1, <2>3
    <3> QED
      BY <3>1, <3>2
  <2> QED
    BY <2>2, <2>3
<1>12. g = [x \in D |-> Body(g, x)]
  <2>1. g \in [D -> V]
    BY <1>10 DEF Follows
  <2> HIDE DEF V, Body, D
  <2> QED
    BY <1>11, <2>1
<1> DEFINE h == Reader(d)
<1>13. h = [x \in D |-> Body(h, x)]
  BY <1>12 DEF Reader
<1> HIDE DEF h
<1>14. h[p] = Body(h, p)
  <2> HIDE DEF Body
  <2> QED
    BY <1>13
<1>15. AfterLabel(d, p) \in Nat
  BY <1>2
<1> QED
  BY <1>1, <1>14, <1>15 DEF h

\* Where the name is in the message, and what follows it.
LEMMA PartsOfRequest ==
  ASSUME NEW n, QName(n) \in Seq(Byte)
  PROVE  LET d == GetDnsRequest(n) b == QName(n) IN
         /\ d \in Seq(Byte) /\ Len(d) = 16 + Len(b)
         /\ \A x \in 1..Len(b) : d[12 + x] = b[x]
         /\ SubSeq(d, 12 + Len(b) + 1, Len(d)) = <<0, 1, 0, 1>>
<1> DEFINE hd == DnsHeader
<1> DEFINE b == QName(n)
<1> DEFINE e == <<0, 1, 0, 1>>
<1>1. hd \in Seq(Byte) /\ Len(hd) = 12
  BY DEF DnsHeader, Byte
<1>2. e \in Seq(Byte) /\ Len(e) = 4
  BY DEF Byte
<1>3. GetDnsRequest(n) = (hd \o b) \o e
  BY DEF GetDnsRequest
<1>4. b \in Seq(Byte) /\ Len(b) \in Nat
  OBVIOUS
<1> HIDE DEF hd, b, e
<1> DEFINE f == hd \o b
<1>5. /\ f \in Seq(Byte) /\ Len(f) = 12 + Len(b)
      /\ \A x \in 1..Len(b) : f[12 + x] = b[x]
  <2>1. /\ f \in Seq(Byte) /\ Len(f) = Len(hd) + Len(b)
        /\ \A x \in 1..Len(b) : f[Len(hd) + x] = b[x]
    <3>1. hd \in Seq(Byte) /\ b \in Seq(Byte)
      BY <1>1, <1>4
    <3> QED
      BY ONLY <3>1, Joined
  <2> HIDE DEF f
  <2> QED
    BY <1>1, <2>1
<1> HIDE DEF f
<1> DEFINE d == f \o e
<1>6. /\ d \in Seq(Byte) /\ Len(d) = Len(f) + 4
      /\ \A x \in 1..Len(f) : d[x] = f[x]
      /\ \A x \in 1..Len(e) : d[Len(f) + x] = e[x]
  <2>1. /\ d \in Seq(Byte) /\ Len(d) = Len(f) + Len(e)
        /\ \A x \in 1..Len(f) : d[x] = f[x]
        /\ \A x \in 1..Len(e) : d[Len(f) + x] = e[x]
    <3>1. f \in Seq(Byte) /\ e \in Seq(Byte)
      BY <1>2, <1>5
    <3> QED
      BY ONLY <3>1, Joined
  <2> HIDE DEF d
  <2> QED
    BY <1>2, <2>1
<1> HIDE DEF d
<1>7. Len(d) = 16 + Len(b)
  BY <1>4, <1>5, <1>6
<1>8. ASSUME NEW x \in 1..Len(b) PROVE d[12 + x] = b[x]
  <2>1. 12 + x \in 1..Len(f)
    BY <1>4, <1>5
  <2> QED
    BY <1>5, <1>6, <2>1
<1> DEFINE s == SubSeq(d, 12 + Len(b) + 1, Len(d))
<1>9. s = e
  <2> DEFINE lo == 12 + Len(b) + 1
  <2>1. lo \in Int /\ Len(d) \in Int /\ \A i \in lo..Len(d) : d[i] \in Byte
    BY <1>4, <1>6, <1>7, ElementIn
  <2>2. /\ s \in Seq(Byte)
        /\ Len(s) = IF lo <= Len(d) THEN Len(d) - lo + 1 ELSE 0
        /\ \A i \in 1..(Len(d) - lo + 1) : s[i] = d[lo + i - 1]
    <3> HIDE DEF lo
    <3> QED
      BY <2>1, SubSeqProperties DEF lo
  <2>3. Len(d) - lo + 1 = 4 /\ lo <= Len(d)
    BY <1>4, <1>7
  <2>4. Len(s) = Len(e)
    BY <1>2, <2>2, <2>3
  <2>5. ASSUME NEW i \in 1..Len(e) PROVE s[i] = e[i]
    <3>1. i \in 1..(Len(d) - lo + 1)
      BY <1>2, <2>3
    <3>2. lo + i - 1 = Len(f) + i
      BY <1>4, <1>5, <3>1
    <3>3. s[i] = d[lo + i - 1]
      BY <2>2, <3>1
    <3>4. d[Len(f) + i] = e[i]
      BY <1>6
    <3> HIDE DEF lo, s
    <3> QED
      BY <3>2, <3>3, <3>4
  <2> HIDE DEF s, lo
  <2> QED
    BY <1>2, <2>2, <2>4, <2>5, SeqEqual
<1>10. GetDnsRequest(n) = d
  BY <1>3 DEF d, f
<1> QED
  BY <1>6, <1>7, <1>8, <1>9, <1>10 DEF b, e

\* A label that stands somewhere is read there.
LEMMA LabelIsRead ==
  ASSUME NEW d \in Seq(Byte), NEW l \in Seq(Character), NEW p \in 1..Len(d),
         LabelStands(d, l, p)
  PROVE  d[p] # 0 /\ LabelAt(d, p) = l /\ AfterLabel(d, p) = p + 1 + Len(l)
<1>1. /\ Len(l) # 0 /\ Len(l) < 192 /\ p + Len(l) <= Len(d) /\ d[p] = Len(l)
      /\ \A c \in 1..Len(l) : d[p + c] = l[c]
  BY DEF LabelStands
<1>2. p \in Nat /\ Len(l) \in Nat /\ Len(d) \in Nat
  OBVIOUS
<1>3. ~(d[p] >= 192)
  BY <1>1, <1>2
<1>4. AfterLabel(d, p) = p + 1 + Len(l)
  BY <1>1, <1>3 DEF AfterLabel
<1> DEFINE s == SubSeq(d, p + 1, p + Len(l))
<1>5. LabelAt(d, p) = s
  BY <1>1, <1>3 DEF LabelAt
<1>6. s = l
  <2>1. \A i \in (p + 1)..(p + Len(l)) : d[i] \in Byte
    BY <1>1, <1>2, ElementIn
  <2> DEFINE lo == p + 1
  <2> DEFINE hi == p + Len(l)
  <2>2. lo \in Int /\ hi \in Int /\ lo <= hi /\ hi - lo + 1 = Len(l)
    BY <1>1, <1>2
  <2>3. /\ s \in Seq(Byte)
        /\ Len(s) = IF lo <= hi THEN hi - lo + 1 ELSE 0
        /\ \A i \in 1..(hi - lo + 1) : s[i] = d[lo + i - 1]
    <3> HIDE DEF lo, hi
    <3> QED
      BY <2>1, <2>2, SubSeqProperties DEF lo, hi
  <2>4. Len(s) = Len(l)
    BY <2>2, <2>3
  <2>5. ASSUME NEW i \in 1..Len(l) PROVE s[i] = l[i]
    <3>1. i \in 1..(hi - lo + 1) /\ lo + i - 1 = p + i
      BY <1>2, <2>2
    <3>2. s[i] = d[p + i]
      BY <2>3, <3>1
    <3> HIDE DEF s
    <3> QED
      BY <1>1, <3>2
  <2>6. s \in Seq(Byte) /\ l \in Seq(Byte)
    BY <2>3 DEF Byte, Character
  <2> HIDE DEF s
  <2> QED
    BY <2>4, <2>5, <2>6, SeqEqual
<1> QED
  BY <1>1, <1>4, <1>5, <1>6

\* From the place of a label on the reader finds it and those behind it.
LEMMA LabelsAreRead ==
  ASSUME NEW d \in Seq(Byte), NEW b \in Seq(Byte), Len(d) = 16 + Len(b),
         \A x \in 1..Len(b) : d[12 + x] = b[x],
         NEW ls \in SetsOfLabels, NEW P, Encodes(b, ls, P),
         P[Len(ls) + 1] = Len(b), b[Len(b)] = 0
  PROVE  Reader(d)[13] = [labels |-> ls, next |-> 12 + Len(b) + 1]
<1> DEFINE k == Len(ls)
<1> DEFINE B == Len(b)
<1> DEFINE h == Reader(d)
<1> DEFINE end == 12 + B + 1
<1> DEFINE Reads(j) ==
      h[12 + P[j]] = [labels |-> SubSeq(ls, j, k), next |-> end]
<1>1. k \in Nat /\ B \in Nat
  BY DEF SetsOfLabels
<1>2. b \in Seq(0..255)
  BY DEF Byte
<1>3. P[k + 1] = B /\ P[k + 1] \in Nat /\ P[k + 1] \in Positive
  BY <1>1, <1>2, PlacesOf
<1>4. B >= 1 /\ B \in 1..B
  BY <1>1, <1>3 DEF Positive
<1>5. Reads(k + 1)
  <2>1. d[12 + B] = 0
    BY <1>4
  <2>2. 12 + B \in 1..Len(d) /\ (12 + B) + 1 = end
    BY <1>1
  <2>3. h[12 + B] = [labels |-> <<>>, next |-> (12 + B) + 1]
    <3> HIDE DEF B
    <3> QED
      BY <2>1, <2>2, ReaderReads
  <2>4. SubSeq(ls, k + 1, k) = <<>>
    BY <1>1, SubSeqEmpty
  <2> HIDE DEF h, B, end
  <2> QED
    BY <1>3, <2>2, <2>3, <2>4
<1>6. ASSUME NEW j \in 1..k, Reads(j + 1) PROVE Reads(j)
  <2> DEFINE l == ls[j]
  <2> DEFINE p == 12 + P[j]
  <2>1. /\ l \in Seq(Character) /\ Len(l) \in Nat
        /\ P[j + 1] = P[j] + 1 + Len(l) /\ P[j + 1] <= B
    <3>1. /\ ls[j] \in Seq(Character) /\ Len(ls[j]) \in Nat
          /\ P[j + 1] = P[j] + 1 + Len(ls[j]) /\ P[j + 1] <= P[Len(ls) + 1]
      BY <1>2, PlacesOf
    <3> QED
      BY <3>1
  <2>2. P[j] \in Positive /\ P[j] \in Nat
    <3>1. j \in 1..(Len(ls) + 1)
      BY <1>1
    <3> QED
      BY <1>2, <3>1, PlacesOf
  <2>3. LabelStands(b, l, P[j])
    BY DEF Encodes
  <2> HIDE DEF l
  <2>4. P[j] >= 1
    BY <2>2 DEF Positive
  <2>5. p \in 1..Len(d)
    <3> DEFINE pj == P[j]
    <3> DEFINE pn == P[j + 1]
    <3>1. /\ pj \in Nat /\ pj >= 1 /\ pn = pj + 1 + Len(l) /\ pn <= B
          /\ Len(l) \in Nat /\ B \in Nat /\ Len(d) = 16 + B /\ p = 12 + pj
      BY <1>1, <2>1, <2>2, <2>4
    <3> HIDE DEF pj, pn, p, B
    <3> QED
      BY ONLY <3>1
  <2>6. LabelStands(d, l, p)
    <3>1. /\ Len(l) # 0 /\ Len(l) < 192
          /\ P[j] + Len(l) <= B /\ b[P[j]] = Len(l)
          /\ \A c \in 1..Len(l) : b[P[j] + c] = l[c]
      BY <2>3 DEF LabelStands
    <3>2. d[p] = Len(l)
      <4>1. P[j] \in 1..B
        BY <1>1, <2>1, <2>2, <2>4
      <4> QED
        BY <3>1, <4>1
    <3>3. ASSUME NEW c \in 1..Len(l) PROVE d[p + c] = l[c]
      <4>1. P[j] + c \in 1..B /\ p + c = 12 + (P[j] + c)
        <5> DEFINE pj == P[j]
        <5>1. /\ pj \in Nat /\ pj >= 1 /\ Len(l) \in Nat /\ pj + Len(l) <= B
              /\ p = 12 + pj
          BY <2>1, <2>2, <2>4, <3>1
        <5> HIDE DEF pj, p, B
        <5>2. pj + c \in 1..B /\ p + c = 12 + (pj + c)
          BY <1>1, <5>1
        <5> QED
          BY <5>2 DEF pj
      <4>2. d[12 + (P[j] + c)] = b[P[j] + c]
        BY <4>1
      <4> HIDE DEF p, B
      <4> QED
        BY <3>1, <4>1, <4>2
    <3>4. p + Len(l) <= Len(d)
      <4> DEFINE pj == P[j]
      <4>1. /\ pj \in Nat /\ pj + Len(l) <= B /\ Len(l) \in Nat
            /\ B \in Nat /\ Len(d) = 16 + B /\ p = 12 + pj
        BY <1>1, <2>1, <2>2, <3>1
      <4> HIDE DEF pj, p, B
      <4> QED
        BY ONLY <4>1
    <3> HIDE DEF p
    <3> QED
      BY <3>1, <3>2, <3>3, <3>4 DEF LabelStands
  <2>7. d[p] # 0 /\ LabelAt(d, p) = l /\ AfterLabel(d, p) = p + 1 + Len(l)
    <3> HIDE DEF p
    <3> QED
      BY <2>1, <2>5, <2>6, LabelIsRead
  <2>8. p + 1 + Len(l) = 12 + P[j + 1] /\ 12 + P[j + 1] <= Len(d)
    BY <1>1, <2>1, <2>2
  <2>9. h[p] = [h[12 + P[j + 1]] EXCEPT !.labels = <<l>> \o @]
    <3>1. AfterLabel(d, p) <= Len(d) /\ AfterLabel(d, p) = 12 + P[j + 1]
      BY <2>7, <2>8
    <3>2. h[p] = [h[AfterLabel(d, p)] EXCEPT !.labels = <<LabelAt(d, p)>> \o @]
      <4> HIDE DEF p
      <4> QED
        BY <2>5, <2>7, <3>1, ReaderReads
    <3> HIDE DEF p, h
    <3> QED
      BY <2>7, <3>1, <3>2
  <2>10. h[12 + P[j + 1]] = [labels |-> SubSeq(ls, j + 1, k), next |-> end]
    BY <1>6
  <2> DEFINE rest == SubSeq(ls, j + 1, k)
  <2>11. SubSeq(ls, j, k) = <<l>> \o rest
    <3> DEFINE L == Seq(Character)
    <3>1. ls \in Seq(L) /\ j \in 1..Len(ls) /\ k \in j..Len(ls)
      BY <1>1 DEF SetsOfLabels
    <3> HIDE DEF L
    <3>2. SubSeq(ls, j, k) = <<ls[j]>> \o SubSeq(ls, j + 1, k)
      BY <3>1, SubSeqRecursiveFirst
    <3> QED
      BY <3>2 DEF l
  <2>12. h[12 + P[j + 1]] = [labels |-> rest, next |-> end]
    BY <2>10
  <2> DEFINE R == h[12 + P[j + 1]]
  <2>13. R.labels = rest
    <3> HIDE DEF h, rest, end
    <3> QED
      BY <2>12
  <2>14. h[p] = [R EXCEPT !.labels = <<l>> \o R.labels]
    BY <2>9
  <2> HIDE DEF h, p, end, rest
  <2>15. h[p] = [labels |-> <<l>> \o rest, next |-> end]
    <3>1. R = [labels |-> rest, next |-> end]
      BY <2>12
    <3> DEFINE s == <<l>> \o rest
    <3>2. h[p] = [R EXCEPT !.labels = s]
      BY <2>13, <2>14
    <3> HIDE DEF R, s
    <3>3. h[p] = [labels |-> s, next |-> end]
      BY <3>1, <3>2
    <3> QED
      BY <3>3 DEF s
  <2> QED
    BY <2>11, <2>15 DEF p
<1> DEFINE S == {m \in Nat : m <= k => Reads(k + 1 - m)}
<1>7. 0 \in S
  <2>1. k + 1 - 0 = k + 1
    BY <1>1
  <2> HIDE DEF Reads
  <2> QED
    BY <1>5, <2>1
<1>8. ASSUME NEW m \in Nat, m \in S PROVE m + 1 \in S
  <2> SUFFICES ASSUME m + 1 <= k PROVE Reads(k + 1 - (m + 1))
    <3> HIDE DEF Reads, k
    <3> QED
      OBVIOUS
  <2> DEFINE j == k + 1 - (m + 1)
  <2>1. j \in 1..k /\ k + 1 - m = j + 1 /\ m <= k
    BY <1>1
  <2> HIDE DEF Reads
  <2>2. Reads(j + 1)
    BY <1>8, <2>1
  <2> HIDE DEF j
  <2>3. Reads(j)
    BY <1>6, <2>1, <2>2
  <2> QED
    BY <2>3 DEF j
<1>9. \A m \in Nat : m \in S
  <2> HIDE DEF S
  <2> QED
    BY <1>7, <1>8, AllNumbers
<1>10. Reads(1)
  <2>1. k + 1 - k = 1 /\ k <= k
    BY <1>1
  <2> HIDE DEF Reads
  <2> QED
    BY <1>1, <1>9, <2>1
<1>11. P[1] = 1
  BY DEF Encodes
<1>12. SubSeq(ls, 1, k) = ls
  <2> DEFINE L == Seq(Character)
  <2>1. ls \in Seq(L)
    BY DEF SetsOfLabels
  <2> HIDE DEF L
  <2> QED
    BY <2>1, SubSeqFull
<1>13. 12 + P[1] = 13
  BY <1>11
<1> HIDE DEF h, end
<1> QED
  BY <1>10, <1>12, <1>13 DEF h, end

LEMMA NameReadsBack ==
  ASSUME NEW n \in Seq(Character), Short(LabelsOf(n))
  PROVE  LET d == GetDnsRequest(n) q == ReadQuestion(d) IN
         /\ q.labels = LabelsOf(n)
         /\ SubSeq(d, q.next, Len(d)) = <<0, 1, 0, 1>>
<1> DEFINE d == GetDnsRequest(n)
<1> DEFINE b == QName(n)
<1> DEFINE ls == LabelsOf(n)
<1>1. b \in Seq(Byte) /\ b[Len(b)] = 0
  BY NameOnWire
<1>2. PICK P : Encodes(b, ls, P) /\ P[Len(ls) + 1] = Len(b)
  BY NameOnWire
<1>3. ls \in SetsOfLabels
  BY LabelsOfName, LabelSteps
<1>4. /\ d \in Seq(Byte) /\ Len(d) = 16 + Len(b)
      /\ \A x \in 1..Len(b) : d[12 + x] = b[x]
      /\ SubSeq(d, 12 + Len(b) + 1, Len(d)) = <<0, 1, 0, 1>>
  BY <1>1, PartsOfRequest
<1>5. ReadQuestion(d) = Reader(d)[13]
  <2>1. Len(DnsHeader) + 1 = 13
    BY DEF DnsHeader
  <2> QED
    BY <2>1, ReadByReader
<1> HIDE DEF d, b, ls
<1>6. Reader(d)[13] = [labels |-> ls, next |-> 12 + Len(b) + 1]
  BY <1>1, <1>2, <1>3, <1>4, LabelsAreRead
<1>7. ReadQuestion(d).labels = ls /\ ReadQuestion(d).next = 12 + Len(b) + 1
  BY <1>5, <1>6
<1> QED
  BY <1>4, <1>7 DEF d, ls

---------------------------------------------------------------------------
(* The checksum: division by Word *)

Ones == Word - 1

LEMMA WordIsBase ==
  Word \in Nat \ {0} /\ Word >= 2 /\ Ones \in Nat /\ Ones >= 1
BY ChecksumAssumption DEF Ones

LEMMA Quotient ==
  ASSUME NEW b \in Nat \ {0}, NEW x \in Nat
  PROVE  /\ x \div b \in Nat /\ x % b \in 0..(b - 1)
         /\ x = b * (x \div b) + (x % b)
OBVIOUS

LEMMA OneDigit ==
  ASSUME NEW b \in Nat \ {0}, NEW x \in 0..(b - 1)
  PROVE  x \div b = 0 /\ x % b = x
OBVIOUS

LEMMA CarryOfOne ==
  ASSUME NEW b \in Nat \ {0}, NEW x \in b..(b + b - 1)
  PROVE  x \div b = 1 /\ x % b = x - b
OBVIOUS

LEMMA QuotientBelow ==
  ASSUME NEW b \in Nat \ {0}, NEW d \in Nat, NEW r \in Nat, b * d + r < b * b
  PROVE  d < b
<1> SUFFICES ASSUME d >= b PROVE FALSE
  OBVIOUS
<1>1. b * d >= b * b
  OBVIOUS
<1> QED
  BY <1>1

\* A sum of two digits is a multiple of Ones from where it stood in.
LEMMA DigitsSum ==
  ASSUME NEW b \in Int, NEW d \in Int, NEW r \in Int
  PROVE  b * d + r = (d + r) + d * (b - 1)
OBVIOUS

LEMMA OneMore ==
  ASSUME NEW s \in Int, NEW d \in Int, NEW n \in Int
  PROVE  s + d * n = (s - n) + (d + 1) * n
OBVIOUS

---------------------------------------------------------------------------
(* Adding the carries back *)

\* The first addition.
LEMMA AddBackKeepsRemainder ==
  ASSUME NEW x \in 1..(Word * Word - 1)
  PROVE  /\ AddBack(x) \in 1..(Ones + Ones)
         /\ \E k \in Int : x = AddBack(x) + k * Ones
<1> DEFINE d == x \div Word
<1> DEFINE r == x % Word
<1>1. x \in Nat /\ x > 0 /\ x < Word * Word
  BY WordIsBase
<1>2. d \in Nat /\ r \in 0..(Word - 1) /\ x = Word * d + r
  BY <1>1, WordIsBase, Quotient
<1>3. AddBack(x) = d + r
  BY DEF AddBack
<1> HIDE DEF d, r
<1>4. d < Word
  BY <1>1, <1>2, WordIsBase, QuotientBelow
<1>5. x = (d + r) + d * (Word - 1)
  BY <1>2, WordIsBase, DigitsSum
<1>6. d + r <= Ones + Ones
  BY <1>2, <1>4, WordIsBase DEF Ones
<1>7. d + r # 0
  <2> SUFFICES ASSUME d + r = 0 PROVE FALSE
    OBVIOUS
  <2>1. d = 0 /\ r = 0
    BY <1>2, WordIsBase
  <2>2. x = 0
    BY <2>1, <1>2, WordIsBase
  <2> QED
    BY <2>2, <1>1
<1>8. d + r \in 1..(Ones + Ones)
  BY <1>2, <1>6, <1>7, WordIsBase
<1> QED
  BY <1>2, <1>3, <1>5, <1>8 DEF Ones

\* Both additions leave the sum, less a multiple of Ones, and 0 only for 0:
\* two of them are enough for all sums of two words.
LEMMA FoldKeepsRemainder ==
  ASSUME NEW x \in 1..(Word * Word - 1)
  PROVE  /\ Fold(x) \in 1..Ones
         /\ \E k \in Int : x = Fold(x) + k * Ones
<1> DEFINE s == AddBack(x)
<1>1. s \in 1..(Ones + Ones) /\ \E k \in Int : x = s + k * Ones
  BY AddBackKeepsRemainder
<1>2. Fold(x) = (s + (s \div Word)) % Word
  BY DEF Fold
<1> HIDE DEF s
<1>3. PICK k \in Int : x = s + k * Ones
  BY <1>1
<1>4. CASE s <= Ones
  <2>1. s \in 0..(Word - 1)
    BY <1>1, <1>4, WordIsBase DEF Ones
  <2>2. s \div Word = 0 /\ s % Word = s
    BY <2>1, WordIsBase, OneDigit
  <2>3. s + 0 = s
    BY <2>1, WordIsBase
  <2>4. Fold(x) = s
    BY <1>2, <2>2, <2>3
  <2> QED
    BY <1>1, <1>3, <1>4, <2>4, WordIsBase
<1>5. CASE s > Ones
  <2>1. s \in Word..(Word + Word - 1)
    BY <1>1, <1>5, WordIsBase DEF Ones
  <2>2. s \div Word = 1
    BY <2>1, WordIsBase, CarryOfOne
  <2>3. s + 1 \in Word..(Word + Word - 1)
    BY <1>1, <1>5, WordIsBase DEF Ones
  <2>4. (s + 1) % Word = (s + 1) - Word
    BY <2>3, WordIsBase, CarryOfOne
  <2>5. (s + 1) - Word = s - Ones
    BY <2>1, WordIsBase DEF Ones
  <2>6. Fold(x) = s - Ones
    BY <1>2, <2>2, <2>4, <2>5
  <2>7. s \in Int /\ Ones \in Int
    BY <1>1, WordIsBase
  <2>8. s + k * Ones = (s - Ones) + (k + 1) * Ones
    BY <2>7, OneMore
  <2>9. k + 1 \in Int /\ x = Fold(x) + (k + 1) * Ones
    BY <1>3, <2>6, <2>8
  <2>10. s - Ones \in 1..Ones
    BY <1>1, <1>5, WordIsBase
  <2> QED
    BY <2>6, <2>9, <2>10
<1> QED
  BY <1>1, <1>4, <1>5, WordIsBase

---------------------------------------------------------------------------
(* The checksum over a field that is not clear *)

\* A number between 1 and n that is a multiple of n, less something up to n.
LEMMA BelowMultiple ==
  ASSUME NEW n \in Nat \ {0}, NEW g \in 1..n, NEW old \in 0..n,
         NEW c \in Int, g = n * c - old
  PROVE  g = n <=> old \in {0, n}
<1>1. CASE c <= 0
  <2>1. n * c <= 0
    BY <1>1
  <2> QED
    BY <2>1
<1>2. CASE c = 1
  BY <1>2
<1>3. CASE c = 2
  BY <1>3
<1>4. CASE c >= 3
  <2>1. n * c >= n * 3
    BY <1>4
  <2> QED
    BY <2>1
<1> QED
  BY <1>1, <1>2, <1>3, <1>4

LEMMA TakeTogether ==
  ASSUME NEW n \in Int, NEW k \in Int, NEW j \in Int
  PROVE  n + k * n - j * n = n * (1 + k - j)
OBVIOUS

\* The field that is left by old verifies if and only if old counted for nothing.
LEMMA SumVerifies ==
  ASSUME NEW sum \in Nat, sum > 0, sum + Ones < Word * Word,
         NEW old \in 0..Ones
  PROVE  Fold(sum + Complement(sum + old)) = Ones <=> old \in {0, Ones}
<1> DEFINE f == Fold(sum + old)
<1> DEFINE total == sum + (Ones - f)
<1>1. Complement(sum + old) = Ones - f
  BY DEF Complement, Ones
<1>2. Word * Word \in Nat
  BY WordIsBase
<1>3. sum + old \in 1..(Word * Word - 1)
  BY <1>2, WordIsBase
<1>4. f \in 1..Ones /\ \E k \in Int : sum + old = f + k * Ones
  BY <1>3, FoldKeepsRemainder
<1> HIDE DEF f
<1>5. PICK k \in Int : sum + old = f + k * Ones
  BY <1>4
<1>6. total \in 1..(Word * Word - 1)
  BY <1>2, <1>4, WordIsBase
<1> DEFINE g == Fold(total)
<1>7. g \in 1..Ones /\ \E j \in Int : total = g + j * Ones
  BY <1>6, FoldKeepsRemainder
<1>8. Fold(total) = g
  OBVIOUS
<1> HIDE DEF g
<1>9. PICK j \in Int : total = g + j * Ones
  BY <1>7
<1> DEFINE kn == k * Ones
<1> DEFINE jn == j * Ones
<1>10. kn \in Int /\ jn \in Int
  BY WordIsBase
<1>11. sum + old = f + kn /\ total = g + jn
  BY <1>5, <1>9
<1>12. Ones + kn - jn = Ones * (1 + k - j)
  BY WordIsBase, TakeTogether
<1> HIDE DEF kn, jn
<1>13. g = (Ones + kn - jn) - old
  BY <1>4, <1>7, <1>10, <1>11, WordIsBase
<1>14. g = Ones * (1 + k - j) - old
  BY <1>12, <1>13
<1>15. 1 + k - j \in Int /\ Ones \in Nat \ {0}
  BY WordIsBase
<1>16. g = Ones <=> old \in {0, Ones}
  BY <1>7, <1>14, <1>15, BelowMultiple
<1> QED
  BY <1>1, <1>8, <1>16

\* A number up to n that is a multiple of n, less something between 1 and n.
LEMMA MultipleLess ==
  ASSUME NEW n \in Nat \ {0}, NEW e \in 1..n, NEW old \in 0..n,
         NEW c \in Int, old = n * c - e
  PROVE  old \in {n, n - e}
<1>1. CASE c <= 0
  <2>1. n * c <= 0
    BY <1>1
  <2> QED
    BY <2>1
<1>2. CASE c = 1
  BY <1>2
<1>3. CASE c = 2
  BY <1>3
<1>4. CASE c >= 3
  <2>1. n * c >= n * 3
    BY <1>4
  <2> QED
    BY <2>1
<1> QED
  BY <1>1, <1>2, <1>3, <1>4

\* The sum leaves 0 for a checksum when old is the checksum of the rest.
LEMMA SumLeavesZero ==
  ASSUME NEW sum \in Nat, sum > 0, sum + Ones < Word * Word,
         NEW old \in 0..Ones
  PROVE  /\ Complement(sum) \in 0..Ones
         /\ old = Complement(sum) => Complement(sum + old) = 0
         /\ Complement(sum + old) = 0 => old \in {Ones, Complement(sum)}
<1> DEFINE e == Fold(sum)
<1> DEFINE f == Fold(sum + old)
<1>1. Complement(sum) = Ones - e /\ Complement(sum + old) = Ones - f
  BY DEF Complement, Ones
<1>2. Word * Word \in Nat
  BY WordIsBase
<1>3. sum \in 1..(Word * Word - 1) /\ sum + old \in 1..(Word * Word - 1)
  BY <1>2, WordIsBase
<1>4. e \in 1..Ones /\ \E j \in Int : sum = e + j * Ones
  BY <1>3, FoldKeepsRemainder
<1>5. f \in 1..Ones /\ \E k \in Int : sum + old = f + k * Ones
  BY <1>3, FoldKeepsRemainder
<1> HIDE DEF e, f
<1>6. PICK j \in Int : sum = e + j * Ones
  BY <1>4
<1>7. PICK k \in Int : sum + old = f + k * Ones
  BY <1>5
<1> DEFINE jn == j * Ones
<1> DEFINE kn == k * Ones
<1>8. jn \in Int /\ kn \in Int /\ sum = e + jn /\ sum + old = f + kn
  BY <1>6, <1>7, WordIsBase
<1>9. /\ Ones + jn - kn = Ones * (1 + j - k)
      /\ Ones + kn - jn = Ones * (1 + k - j)
  BY WordIsBase, TakeTogether
<1>10. /\ 1 + j - k \in Int /\ 1 + k - j \in Int
       /\ Ones \in Nat \ {0}
  BY WordIsBase
<1> HIDE DEF jn, kn
<1>11. ASSUME old = Ones - e PROVE f = Ones
  <2>1. f = (Ones + jn - kn) - 0
    BY <1>4, <1>5, <1>8, <1>10, <1>11
  <2>2. f = Ones * (1 + j - k) - 0
    BY <1>9, <2>1
  <2>3. 0 \in 0..Ones
    BY <1>10
  <2> QED
    BY <1>5, <1>10, <2>2, <2>3, BelowMultiple
<1>12. ASSUME f = Ones PROVE old \in {Ones, Ones - e}
  <2>1. old = (Ones + kn - jn) - e
    BY <1>4, <1>8, <1>10, <1>12
  <2>2. old = Ones * (1 + k - j) - e
    BY <1>9, <2>1
  <2> QED
    BY <1>4, <1>10, <2>2, MultipleLess
<1>13. Ones - e \in 0..Ones
  BY <1>4, <1>10
<1>14. Ones - f = 0 <=> f = Ones
  BY <1>5, <1>10
<1> QED
  BY <1>1, <1>11, <1>12, <1>13, <1>14

\* udp_checksum adds up the datagram with what the check field happens to hold
\* (old), and complements it.  The receiver, who finds the result in its place,
\* accepts the datagram if and only if old counted for nothing, or was the right
\* checksum already, which leaves a field of 0.  sum is what the rest adds up
\* to: more than 0, since the pseudo header has a protocol.
THEOREM ChecksumNeedsCleanField ==
  ASSUME NEW sum \in Nat, sum > 0, sum + Ones < Word * Word,
         NEW old \in 0..Ones
  PROVE  Accepts(Complement(sum + old), sum + Complement(sum + old))
           <=> old \in {0, Ones, Complement(sum)}
<1>1. Fold(sum + Complement(sum + old)) = Ones <=> old \in {0, Ones}
  BY SumVerifies
<1>2. /\ old = Complement(sum) => Complement(sum + old) = 0
      /\ Complement(sum + old) = 0 => old \in {Ones, Complement(sum)}
  BY SumLeavesZero
<1>3. Accepts(Complement(sum + old), sum + Complement(sum + old))
        <=> \/ Complement(sum + old) = 0
            \/ Fold(sum + Complement(sum + old)) = Ones
  BY DEF Accepts, Ones
<1> QED
  BY ONLY <1>1, <1>2, <1>3

---------------------------------------------------------------------------
(* The bytes of the datagram, and its words *)

\* Messages that fit into buf[512] behind the headers.
Question == {q \in Seq(Byte) : Len(q) <= 484}

Address == Byte \X Byte \X Byte \X Byte

\* What the checksum is computed over.
Datagram(src, dst, q, field) ==
  Pseudo(src, dst, UdpLen(q)) \o Udp(q, field)

LEMMA QuotientByte ==
  ASSUME NEW n \in Nat, n <= 65535
  PROVE  /\ n \div 256 \in Byte /\ n % 256 \in Byte
         /\ n = (n % 256) + 256 * (n \div 256)
BY DEF Byte

\* The bytes of a datagram up to the message.
HeaderBytes(b, src, dst, len, field) ==
  /\ b[1] = src[1] /\ b[2] = src[2] /\ b[3] = src[3] /\ b[4] = src[4]
  /\ b[5] = dst[1] /\ b[6] = dst[2] /\ b[7] = dst[3] /\ b[8] = dst[4]
  /\ b[9] = 0 /\ b[10] = 17 /\ b[11] = len \div 256 /\ b[12] = len % 256
  /\ b[13] = 33675 \div 256 /\ b[14] = 33675 % 256
  /\ b[15] = 6666 \div 256 /\ b[16] = 6666 % 256
  /\ b[17] = len \div 256 /\ b[18] = len % 256
  /\ b[19] = field[1] /\ b[20] = field[2]

LEMMA DatagramBytes ==
  ASSUME NEW src \in Address, NEW dst \in Address, NEW q \in Question,
         NEW field \in Byte \X Byte, NEW b, b = Datagram(src, dst, q, field)
  PROVE  /\ b \in Seq(Byte) /\ Len(b) = 20 + Len(q)
         /\ HeaderBytes(b, src, dst, UdpLen(q), field)
         /\ \A i \in 1..Len(q) : b[20 + i] = q[i]
<1>1. PICK s1 \in Byte, s2 \in Byte, s3 \in Byte, s4 \in Byte :
        src = <<s1, s2, s3, s4>>
  BY DEF Address
<1>2. PICK d1 \in Byte, d2 \in Byte, d3 \in Byte, d4 \in Byte :
        dst = <<d1, d2, d3, d4>>
  BY DEF Address
<1>3. PICK f1 \in Byte, f2 \in Byte : field = <<f1, f2>>
  OBVIOUS
<1>4. /\ s1 \in Byte /\ s2 \in Byte /\ s3 \in Byte /\ s4 \in Byte
      /\ d1 \in Byte /\ d2 \in Byte /\ d3 \in Byte /\ d4 \in Byte
      /\ f1 \in Byte /\ f2 \in Byte
  OBVIOUS
<1>5. PICK n : n = UdpLen(q)
  OBVIOUS
<1>6. q \in Seq(Byte) /\ n \in Nat /\ n <= 65535
  BY <1>5 DEF Question, UdpLen
<1>7. PICK h \in Byte, l \in Byte : h = n \div 256 /\ l = n % 256
  BY <1>6, QuotientByte
<1>8. PICK p1 \in Byte, p2 \in Byte : p1 = 33675 \div 256 /\ p2 = 33675 % 256
  BY QuotientByte
<1>9. PICK q1 \in Byte, q2 \in Byte : q1 = 6666 \div 256 /\ q2 = 6666 % 256
  BY QuotientByte
<1>10. PICK z \in Byte, u \in Byte : z = 0 /\ u = 17
  BY DEF Byte
<1>11. b = (<<s1, s2, s3, s4>> \o <<d1, d2, d3, d4>> \o <<z, u>> \o <<h, l>>)
          \o (<<p1, p2>> \o <<q1, q2>> \o <<h, l>> \o <<f1, f2>> \o q)
  BY <1>1, <1>2, <1>3, <1>5, <1>7, <1>8, <1>9, <1>10
  DEF Datagram, Pseudo, Udp, TwoBytes
<1>12. /\ b \in Seq(Byte)
      /\ Len(b) = 20 + Len(q)
      /\ b[1] = s1 /\ b[2] = s2 /\ b[3] = s3 /\ b[4] = s4
      /\ b[5] = d1 /\ b[6] = d2 /\ b[7] = d3 /\ b[8] = d4
      /\ b[9] = z /\ b[10] = u /\ b[11] = h /\ b[12] = l
      /\ b[13] = p1 /\ b[14] = p2 /\ b[15] = q1 /\ b[16] = q2
      /\ b[17] = h /\ b[18] = l /\ b[19] = f1 /\ b[20] = f2
      /\ \A i \in 1..Len(q) : b[20 + i] = q[i]
  <2>1. /\ h \in Byte /\ l \in Byte /\ p1 \in Byte /\ p2 \in Byte
        /\ q1 \in Byte /\ q2 \in Byte /\ z \in Byte /\ u \in Byte
    OBVIOUS
  <2> QED
    BY ONLY <1>4, <1>6, <1>11, <2>1, SMTT(20)
<1>13. HeaderBytes(b, src, dst, n, field)
  BY <1>1, <1>2, <1>3, <1>7, <1>8, <1>9, <1>10, <1>12 DEF HeaderBytes
<1> QED
  BY <1>5, <1>12, <1>13

LEMMA WordIs == Word = 65536 /\ Ones = 65535
BY TestClientAssumption DEF Ones

\* The words that in_cksum adds up.
Values(b) == [w \in Words(b) |-> WordAt(b, w)]

\* The words are numbered from 1 on
LEMMA WordNumbers ==
  ASSUME NEW b \in Seq(Byte)
  PROVE  /\ \A w : w \in Words(b) <=> w \in 1..Len(b) /\ 2*w - 1 <= Len(b)
         /\ IsFiniteSet(Words(b))
         /\ Cardinality(Words(b)) \in Nat
         /\ Cardinality(Words(b)) <= Len(b)
<1>1. Len(b) \in Nat /\ DOMAIN b = 1..Len(b)
  OBVIOUS
<1>2. ASSUME NEW w
      PROVE  w \in Words(b) <=> w \in 1..Len(b) /\ 2*w - 1 <= Len(b)
  <2>1. w \in Words(b) <=> w \in 1..Len(b) /\ 2*w - 1 \in 1..Len(b)
    BY <1>1 DEF Words
  <2>2. ASSUME w \in 1..Len(b)
        PROVE  2*w - 1 \in 1..Len(b) <=> 2*w - 1 <= Len(b)
    BY <1>1, <2>2
  <2> QED
    BY <2>1, <2>2
<1>3. IsFiniteSet(1..Len(b)) /\ Cardinality(1..Len(b)) = Len(b)
  BY <1>1, FS_Interval
<1>4. Words(b) \subseteq 1..Len(b)
  BY <1>2
<1>5. /\ IsFiniteSet(Words(b))
      /\ Cardinality(Words(b)) <= Len(b)
  BY <1>3, <1>4, FS_Subset
<1>6. Cardinality(Words(b)) \in Nat
  BY <1>5, FS_CardinalityType
<1> QED
  BY <1>2, <1>5, <1>6

LEMMA ByteBounds ==
  ASSUME NEW x \in Byte
  PROVE  x \in Nat /\ x <= 255
BY DEF Byte

LEMMA TwoByteWord ==
  ASSUME NEW x \in Byte, NEW y \in Byte
  PROVE  x + 256 * y \in 0..Ones /\ x + 0 \in 0..Ones
<1>1. x \in Nat /\ x <= 255 /\ y \in Nat /\ y <= 255
  BY ByteBounds
<1>2. Ones = 65535
  BY WordIs
<1>3. x + 256 * y \in Nat /\ x + 256 * y <= Ones
  BY ONLY <1>1, <1>2
<1>4. x + 0 \in Nat /\ x + 0 <= Ones
  BY ONLY <1>1, <1>2
<1>5. Ones \in Nat
  BY ONLY <1>2
<1> QED
  BY ONLY <1>1, <1>3, <1>4, <1>5

LEMMA WordValue ==
  ASSUME NEW b \in Seq(Byte), NEW w \in Words(b)
  PROVE  /\ WordAt(b, w) \in 0..Ones
         /\ 2*w <= Len(b) => WordAt(b, w) = b[2*w - 1] + 256 * b[2*w]
<1>1. w \in Nat /\ w >= 1 /\ 2*w - 1 <= Len(b) /\ Len(b) \in Nat
  BY WordNumbers
<1>2. 2*w - 1 \in 1..Len(b)
  BY <1>1
<1>3. b[2*w - 1] \in Byte
  BY <1>2, ElementIn
<1>4. CASE 2*w <= Len(b)
  <2>1. 2*w \in 1..Len(b)
    BY <1>1, <1>4
  <2>2. b[2*w] \in Byte
    BY <2>1, ElementIn
  <2>3. WordAt(b, w) = b[2*w - 1] + 256 * b[2*w]
    BY <2>1 DEF WordAt
  <2>4. b[2*w - 1] + 256 * b[2*w] \in 0..Ones
    <3> DEFINE u == b[2*w - 1]
    <3> DEFINE v == b[2*w]
    <3>1. u \in Byte /\ v \in Byte
      BY ONLY <1>3, <2>2
    <3> HIDE DEF u, v
    <3>2. u + 256 * v \in 0..Ones
      BY ONLY <3>1, TwoByteWord
    <3> QED
      BY ONLY <3>2 DEF u, v
  <2> QED
    BY ONLY <2>3, <2>4
<1>5. CASE ~(2*w <= Len(b))
  <2>1. 2*w \notin DOMAIN b
    BY <1>1, <1>5
  <2>2. WordAt(b, w) = b[2*w - 1] + 0
    BY <2>1 DEF WordAt
  <2>3. WordAt(b, w) \in 0..Ones
    BY <1>3, <2>2, TwoByteWord
  <2> QED
    BY <1>5, <2>3
<1> QED
  BY <1>4, <1>5

LEMMA ValuesAre ==
  ASSUME NEW b \in Seq(Byte)
  PROVE  /\ Values(b) \in [Words(b) -> 0..Ones]
         /\ Values(b) \in [Words(b) -> Nat]
<1>1. \A w \in Words(b) : WordAt(b, w) \in 0..Ones
  BY WordValue
<1>2. Values(b) \in [Words(b) -> 0..Ones]
  BY <1>1 DEF Values
<1>3. \A w \in Words(b) : WordAt(b, w) \in Nat
  BY <1>1
<1>4. Values(b) \in [Words(b) -> Nat]
  BY <1>3 DEF Values
<1> QED
  BY <1>2, <1>4

LEMMA WordSumAdds ==
  ASSUME NEW b \in Seq(Byte)
  PROVE  \E g : Adds(g, Values(b), Words(b)) /\ WordSum(b) = g[Words(b)]
<1>1. PICK f : f = Values(b)
  OBVIOUS
<1>2. DOMAIN f = Words(b) /\ f \in [Words(b) -> Nat]
  BY <1>1, ValuesAre DEF Values
<1>3. WordSum(b) = FoldFunction(+, 0, f)
  BY <1>1 DEF WordSum, Values
<1>4. FoldFunction(+, 0, f) = Adder(f, DOMAIN f)[DOMAIN f]
  BY FoldAdds
<1>5. Adds(Adder(f, Words(b)), f, Words(b))
  BY <1>2, WordNumbers, AdderAdds
<1> QED
  BY <1>1, <1>3, <1>4, <1>5, <1>2

---------------------------------------------------------------------------
(* The two datagrams: what the checksum is computed over, and what is sent *)

\* The words of the addresses, and of the checksum.
Swapped == {1, 2, 3, 4, 10}

\* Two datagrams, the second with its addresses the other way round and
\* something else in the check field.
Exchanged(a, b, src, dst, q, f, h) ==
  /\ a \in Seq(Byte) /\ Len(a) = 20 + Len(q)
  /\ b \in Seq(Byte) /\ Len(b) = 20 + Len(q)
  /\ HeaderBytes(a, dst, src, UdpLen(q), f)
  /\ HeaderBytes(b, src, dst, UdpLen(q), h)
  /\ \A i \in 1..Len(q) : a[20 + i] = q[i] /\ b[20 + i] = q[i]

LEMMA SameDomain ==
  ASSUME NEW a \in Seq(Byte), NEW b \in Seq(Byte), Len(a) = Len(b)
  PROVE  DOMAIN a = DOMAIN b
OBVIOUS

LEMMA SameLength ==
  ASSUME NEW a \in Seq(Byte), NEW b \in Seq(Byte), Len(a) = Len(b)
  PROVE  Words(a) = Words(b)
BY SameDomain DEF Words

\* The word of the protocol is not 0.
LEMMA HeaderWords ==
  ASSUME NEW b \in Seq(Byte), NEW src, NEW dst, NEW len, NEW f,
         Len(b) >= 20, HeaderBytes(b, src, dst, len, f)
  PROVE  /\ Swapped \cup {5} \subseteq Words(b)
         /\ WordAt(b, 1) = src[1] + 256 * src[2]
         /\ WordAt(b, 2) = src[3] + 256 * src[4]
         /\ WordAt(b, 3) = dst[1] + 256 * dst[2]
         /\ WordAt(b, 4) = dst[3] + 256 * dst[4]
         /\ WordAt(b, 5) = 4352
         /\ WordAt(b, 10) = f[1] + 256 * f[2]
<1>1. Len(b) \in Nat
  OBVIOUS
<1>2. ASSUME NEW w \in Nat, w >= 1, w <= 10
      PROVE  w \in Words(b) /\ WordAt(b, w) = b[2*w - 1] + 256 * b[2*w]
  <2>1. w \in Words(b)
    BY <1>1, <1>2, WordNumbers
  <2>2. 2*w <= Len(b)
    BY <1>1, <1>2
  <2> QED
    BY <2>1, <2>2, WordValue
<1>3. /\ 1 \in Words(b) /\ WordAt(b, 1) = b[2*1 - 1] + 256 * b[2*1]
      /\ 2 \in Words(b) /\ WordAt(b, 2) = b[2*2 - 1] + 256 * b[2*2]
      /\ 3 \in Words(b) /\ WordAt(b, 3) = b[2*3 - 1] + 256 * b[2*3]
      /\ 4 \in Words(b) /\ WordAt(b, 4) = b[2*4 - 1] + 256 * b[2*4]
      /\ 5 \in Words(b) /\ WordAt(b, 5) = b[2*5 - 1] + 256 * b[2*5]
      /\ 10 \in Words(b) /\ WordAt(b, 10) = b[2*10 - 1] + 256 * b[2*10]
  BY <1>2
<1>4. Swapped \cup {5} \subseteq Words(b)
  BY <1>3 DEF Swapped
<1>5. /\ WordAt(b, 1) = b[1] + 256 * b[2]
      /\ WordAt(b, 2) = b[3] + 256 * b[4]
      /\ WordAt(b, 3) = b[5] + 256 * b[6]
      /\ WordAt(b, 4) = b[7] + 256 * b[8]
      /\ WordAt(b, 5) = b[9] + 256 * b[10]
      /\ WordAt(b, 10) = b[19] + 256 * b[20]
  BY <1>3
<1>6. b[9] = 0 /\ b[10] = 17 /\ b[9] + 256 * b[10] = 4352
  BY DEF HeaderBytes
<1> QED
  BY <1>4, <1>5, <1>6 DEF HeaderBytes

\* All other words are the same.
LEMMA OtherWords ==
  ASSUME NEW a, NEW b, NEW src, NEW dst, NEW q \in Seq(Byte),
         NEW f, NEW h, Exchanged(a, b, src, dst, q, f, h),
         NEW w \in Words(a) \ Swapped
  PROVE  WordAt(a, w) = WordAt(b, w)
<1>1. /\ a \in Seq(Byte) /\ b \in Seq(Byte) /\ Len(a) = Len(b)
      /\ Len(a) = 20 + Len(q) /\ Len(a) \in Nat /\ Len(q) \in Nat
  BY DEF Exchanged
<1>2. ASSUME NEW i \in Nat, i >= 9, i <= Len(a), i # 19, i # 20
      PROVE  a[i] = b[i]
  <2>1. CASE i >= 21
    <3>1. PICK j : j = i - 20
      OBVIOUS
    <3>2. j \in 1..Len(q) /\ i = 20 + j
      BY <1>1, <1>2, <2>1, <3>1
    <3> QED
      BY <3>2 DEF Exchanged
  <2>2. CASE i < 21
    <3>1. \/ i = 9 \/ i = 10 \/ i = 11 \/ i = 12 \/ i = 13
          \/ i = 14 \/ i = 15 \/ i = 16 \/ i = 17 \/ i = 18
      BY <1>2, <2>2
    <3>2. /\ a[9] = b[9] /\ a[10] = b[10] /\ a[11] = b[11]
          /\ a[12] = b[12] /\ a[13] = b[13] /\ a[14] = b[14]
          /\ a[15] = b[15] /\ a[16] = b[16] /\ a[17] = b[17]
          /\ a[18] = b[18]
      BY DEF Exchanged, HeaderBytes
    <3> QED
      BY <3>1, <3>2
  <2> QED
    BY <2>1, <2>2
<1>3. /\ w \in Nat /\ w >= 1 /\ 2*w - 1 <= Len(a)
      /\ w # 1 /\ w # 2 /\ w # 3 /\ w # 4 /\ w # 10
  BY <1>1, WordNumbers DEF Swapped
<1>4. 2*w - 1 \in Nat /\ 2*w - 1 >= 9 /\ 2*w - 1 # 19 /\ 2*w - 1 # 20
  BY <1>3
<1>5. PICK j : j = 2*w
  OBVIOUS
<1>6. j \in Nat /\ j >= 9 /\ j # 19 /\ j # 20 /\ j - 1 <= Len(a)
  BY <1>3, <1>5
<1>7. j - 1 \in Nat /\ j - 1 >= 9 /\ j - 1 # 19 /\ j - 1 # 20
  BY <1>4, <1>5
<1>8. a[j - 1] = b[j - 1]
  BY <1>2, <1>6, <1>7
<1>9. DOMAIN a = DOMAIN b
  BY <1>1, SameDomain
<1>10. j \in DOMAIN a => a[j] = b[j]
  <2>1. j \in DOMAIN a => j <= Len(a)
    BY <1>1
  <2> QED
    BY <1>2, <1>6, <2>1
<1>11. /\ WordAt(a, w) = a[j - 1] + (IF j \in DOMAIN a THEN 256 * a[j] ELSE 0)
       /\ WordAt(b, w) = b[j - 1] + (IF j \in DOMAIN b THEN 256 * b[j] ELSE 0)
  BY <1>5 DEF WordAt
<1>12. CASE j \in DOMAIN a
  BY <1>8, <1>9, <1>10, <1>11, <1>12
<1>13. CASE j \notin DOMAIN a
  BY <1>8, <1>9, <1>11, <1>13
<1> QED
  BY <1>12, <1>13

\* The addresses change places, and the sum but for the field is the same.
LEMMA SumsAgree ==
  ASSUME NEW a, NEW b, NEW src, NEW dst, NEW q \in Question,
         NEW f, NEW h, Exchanged(a, b, src, dst, q, f, h)
  PROVE  \E rest \in Nat :
           /\ rest > 0 /\ rest <= Ones * 503
           /\ WordSum(a) = rest + (f[1] + 256 * f[2])
           /\ WordSum(b) = rest + (h[1] + 256 * h[2])
<1>1. /\ a \in Seq(Byte) /\ b \in Seq(Byte) /\ Len(a) = Len(b)
      /\ Len(a) = 20 + Len(q) /\ Len(q) \in Nat /\ Len(q) <= 484
      /\ Len(a) \in Nat /\ Len(a) >= 20
      /\ q \in Seq(Byte)
  BY DEF Exchanged, Question
<1>2. PICK W : W = Words(a)
  OBVIOUS
<1>3. /\ W = Words(b) /\ IsFiniteSet(W)
      /\ Cardinality(W) \in Nat /\ Cardinality(W) <= Len(a)
  BY <1>1, <1>2, SameLength, WordNumbers
<1>4. PICK v1 : v1 = Values(a)
  OBVIOUS
<1>5. PICK v2 : v2 = Values(b)
  OBVIOUS
<1>6. /\ v1 \in [W -> 0..Ones] /\ v1 \in [W -> Nat]
      /\ v2 \in [W -> 0..Ones] /\ v2 \in [W -> Nat]
  BY <1>1, <1>2, <1>3, <1>4, <1>5, ValuesAre
<1>7. PICK g1 : Adds(g1, v1, W) /\ WordSum(a) = g1[W]
  BY <1>1, <1>2, <1>4, WordSumAdds
<1>8. PICK g2 : Adds(g2, v2, W) /\ WordSum(b) = g2[W]
  BY <1>1, <1>3, <1>5, WordSumAdds
<1>9. /\ \A w \in W : v1[w] = WordAt(a, w)
      /\ \A w \in W : v2[w] = WordAt(b, w)
  BY <1>2, <1>3, <1>4, <1>5 DEF Values
<1>10. HeaderBytes(a, dst, src, UdpLen(q), f)
  BY DEF Exchanged
<1>11. HeaderBytes(b, src, dst, UdpLen(q), h)
  BY DEF Exchanged
<1>12. /\ Swapped \cup {5} \subseteq W
       /\ v1[10] = f[1] + 256 * f[2] /\ v2[10] = h[1] + 256 * h[2]
       /\ v1[1] = v2[3] /\ v1[2] = v2[4] /\ v1[3] = v2[1] /\ v1[4] = v2[2]
       /\ v1[5] = 4352
  <2>1. Swapped \cup {5} \subseteq W
    BY <1>1, <1>2, <1>10, HeaderWords
  <2>2. 1 \in W /\ 2 \in W /\ 3 \in W /\ 4 \in W /\ 5 \in W /\ 10 \in W
    BY <2>1 DEF Swapped
  <2>3. /\ v1[1] = dst[1] + 256 * dst[2] /\ v1[2] = dst[3] + 256 * dst[4]
        /\ v1[3] = src[1] + 256 * src[2] /\ v1[4] = src[3] + 256 * src[4]
        /\ v1[5] = 4352 /\ v1[10] = f[1] + 256 * f[2]
    <3>1. /\ WordAt(a, 1) = dst[1] + 256 * dst[2]
          /\ WordAt(a, 2) = dst[3] + 256 * dst[4]
          /\ WordAt(a, 3) = src[1] + 256 * src[2]
          /\ WordAt(a, 4) = src[3] + 256 * src[4]
          /\ WordAt(a, 5) = 4352 /\ WordAt(a, 10) = f[1] + 256 * f[2]
      BY <1>1, <1>10, HeaderWords
    <3> QED
      BY <1>9, <2>2, <3>1
  <2>4. /\ v2[1] = src[1] + 256 * src[2] /\ v2[2] = src[3] + 256 * src[4]
        /\ v2[3] = dst[1] + 256 * dst[2] /\ v2[4] = dst[3] + 256 * dst[4]
        /\ v2[10] = h[1] + 256 * h[2]
    <3>1. /\ WordAt(b, 1) = src[1] + 256 * src[2]
          /\ WordAt(b, 2) = src[3] + 256 * src[4]
          /\ WordAt(b, 3) = dst[1] + 256 * dst[2]
          /\ WordAt(b, 4) = dst[3] + 256 * dst[4]
          /\ WordAt(b, 10) = h[1] + 256 * h[2]
      <4>1. b \in Seq(Byte) /\ Len(b) >= 20
        BY <1>1
      <4> QED
        BY <1>11, <4>1, HeaderWords
    <3> QED
      BY <1>9, <2>2, <3>1
  <2> QED
    BY <2>1, <2>3, <2>4
<1>13. \A w \in W \ Swapped : v1[w] = v2[w]
  BY <1>1, <1>2, <1>9, OtherWords
<1> DEFINE R == W \ Swapped
<1>14. R \in SUBSET W
  OBVIOUS
<1>15. g1[R] = g2[R]
  <2>1. \A w \in R : v1[w] = v2[w]
    BY <1>13
  <2> HIDE DEF R
  <2> QED
    BY <1>3, <1>7, <1>8, <1>14, <2>1, SameSum
<1>16. ASSUME NEW v \in [W -> Nat], NEW g, Adds(g, v, W)
       PROVE  /\ g[W] = v[10] + g[W \ {10}]
              /\ g[W \ {10}] = v[1] + (v[2] + (v[3] + (v[4] + g[R])))
  <2>1. 1 \in W /\ 2 \in W /\ 3 \in W /\ 4 \in W /\ 10 \in W
    BY <1>12 DEF Swapped
  <2>2. IsFiniteSet(W) /\ Adds(g, v, W)
    BY <1>3, <1>16
  <2>3. PICK A \in SUBSET W : A = W \ {10}
    OBVIOUS
  <2>4. PICK B \in SUBSET W : B = A \ {1}
    OBVIOUS
  <2>5. PICK C \in SUBSET W : C = B \ {2}
    OBVIOUS
  <2>6. PICK D \in SUBSET W : D = C \ {3}
    OBVIOUS
  <2>7. R = D \ {4}
    BY <2>3, <2>4, <2>5, <2>6 DEF Swapped
  <2> HIDE DEF R
  <2>8. PICK x5 \in W : x5 = 10
    BY <2>1
  <2>9. PICK x1 \in A : x1 = 1
    BY <2>1, <2>3
  <2>10. PICK x2 \in B : x2 = 2
    BY <2>1, <2>3, <2>4
  <2>11. PICK x3 \in C : x3 = 3
    BY <2>1, <2>3, <2>4, <2>5
  <2>12. PICK x4 \in D : x4 = 4
    BY <2>1, <2>3, <2>4, <2>5, <2>6
  <2>13. g[W] = v[x5] + g[W \ {x5}]
    BY <2>2, TakeOut
  <2>14. g[A] = v[x1] + g[A \ {x1}]
    BY <2>2, TakeOut
  <2>15. g[B] = v[x2] + g[B \ {x2}]
    BY <2>2, TakeOut
  <2>16. g[C] = v[x3] + g[C \ {x3}]
    BY <2>2, TakeOut
  <2>17. g[D] = v[x4] + g[D \ {x4}]
    BY <2>2, TakeOut
  <2>18. W \ {x5} = A /\ A \ {x1} = B /\ B \ {x2} = C /\ C \ {x3} = D
         /\ D \ {x4} = R
    BY <2>3, <2>4, <2>5, <2>6, <2>7, <2>8, <2>9, <2>10, <2>11, <2>12
  <2> QED
    BY <2>3, <2>8, <2>9, <2>10, <2>11, <2>12, <2>13, <2>14, <2>15,
             <2>16, <2>17, <2>18
<1>17. PICK rest : rest = g2[W \ {10}]
  OBVIOUS
<1>18. g1[W \ {10}] = rest
  <2>1. /\ v1[1] \in Nat /\ v1[2] \in Nat /\ v1[3] \in Nat /\ v1[4] \in Nat
    BY <1>6, <1>12 DEF Swapped
  <2>2. g1[R] \in Nat
    BY <1>7, <1>14 DEF Adds
  <2>3. g1[W \ {10}] = v1[1] + (v1[2] + (v1[3] + (v1[4] + g1[R])))
    BY <1>6, <1>7, <1>16
  <2>4. g2[W \ {10}] = v2[1] + (v2[2] + (v2[3] + (v2[4] + g2[R])))
    BY <1>6, <1>8, <1>16
  <2>5. g2[W \ {10}] = v1[3] + (v1[4] + (v1[1] + (v1[2] + g1[R])))
    BY <2>4, <1>12, <1>15
  <2> HIDE DEF R
  <2> QED
    BY <1>17, <2>1, <2>2, <2>3, <2>5
<1>19. /\ WordSum(a) = (f[1] + 256 * f[2]) + rest
       /\ WordSum(b) = (h[1] + 256 * h[2]) + rest
  <2>1. g1[W] = v1[10] + g1[W \ {10}]
    BY <1>6, <1>7, <1>16
  <2>2. g2[W] = v2[10] + g2[W \ {10}]
    BY <1>6, <1>8, <1>16
  <2> QED
    BY <1>7, <1>8, <1>12, <1>17, <1>18, <2>1, <2>2
<1>20. rest \in Nat /\ rest > 0
  <2>1. W \ {10} \in SUBSET W /\ (W \ {10}) \ {5} \in SUBSET W
        /\ 5 \in W \ {10}
    BY <1>12 DEF Swapped
  <2>2. PICK A \in SUBSET W : A = W \ {10}
    BY <2>1
  <2>3. PICK x \in A : x = 5
    BY <2>1, <2>2
  <2>4. g1[A] = v1[x] + g1[A \ {x}]
    BY <1>3, <1>6, <1>7, TakeOut
  <2>5. g1[A \ {x}] \in Nat
    BY <1>7 DEF Adds
  <2> QED
    BY <1>12, <1>18, <2>2, <2>3, <2>4, <2>5
<1>21. rest <= Ones * 503
  <2> DEFINE A == W \ {10}
  <2>1. 10 \in W /\ A \in SUBSET W /\ A = W \ {10}
    BY <1>12 DEF Swapped
  <2> HIDE DEF A
  <2>2. Cardinality(A) = Cardinality(W) - 1
    <3>1. PICK x \in W : x = 10
      BY <2>1
    <3>2. Cardinality(W \ {x}) = Cardinality(W) - 1
      BY <1>3, FS_RemoveElement
    <3> QED
      BY <2>1, <3>1, <3>2
  <2>3. Ones \in Nat
    BY WordIsBase
  <2>4. g1[A] <= Ones * Cardinality(A)
    BY <1>3, <1>6, <1>7, <2>1, <2>3, SumBelow
  <2>5. Cardinality(A) \in Int /\ Cardinality(A) <= 503
    BY <1>1, <1>3, <2>2
  <2>6. Ones * Cardinality(A) <= Ones * 503
    BY <2>3, <2>5, WordIs
  <2>7. g1[A] = rest /\ rest \in Nat
    BY <1>18, <1>20, <2>1
  <2> QED
    BY <2>3, <2>4, <2>5, <2>6, <2>7
<1> QED
  <2>1. f[1] + 256 * f[2] \in Nat /\ h[1] + 256 * h[2] \in Nat
    BY <1>6, <1>12 DEF Swapped
  <2>2. /\ (f[1] + 256 * f[2]) + rest = rest + (f[1] + 256 * f[2])
        /\ (h[1] + 256 * h[2]) + rest = rest + (h[1] + 256 * h[2])
    BY <1>20, <2>1
  <2> QED
    BY <1>19, <1>20, <1>21, <2>2

LEMMA TwoByteField ==
  ASSUME NEW l1 \in Byte, NEW l2 \in Byte
  PROVE  /\ l1 + 256 * l2 \in 0..Ones
         /\ l1 + 256 * l2 \in {0, Ones}
              <=> <<l1, l2>> \in {<<0, 0>>, <<255, 255>>}
<1>1. l1 \in Nat /\ l1 <= 255 /\ l2 \in Nat /\ l2 <= 255
  BY ByteBounds
<1>2. l1 + 256 * l2 \in 0..Ones
  BY TwoByteWord
<1>3. l1 + 256 * l2 = 0 <=> l1 = 0 /\ l2 = 0
  BY ONLY <1>1
<1>4. l1 + 256 * l2 = 65535 <=> l1 = 255 /\ l2 = 255
  BY ONLY <1>1
<1>5. <<l1, l2>> \in {<<0, 0>>, <<255, 255>>}
        <=> (l1 = 0 /\ l2 = 0) \/ (l1 = 255 /\ l2 = 255)
  OBVIOUS
<1>6. Ones = 65535
  BY WordIs
<1> DEFINE field == l1 + 256 * l2
<1>7. field = 0 <=> l1 = 0 /\ l2 = 0
  BY ONLY <1>3
<1>8. field = Ones <=> l1 = 255 /\ l2 = 255
  BY ONLY <1>4, <1>6
<1>9. field \in {0, Ones} <=> <<l1, l2>> \in {<<0, 0>>, <<255, 255>>}
  <2> HIDE DEF field
  <2>1. field \in {0, Ones} <=> field = 0 \/ field = Ones
    OBVIOUS
  <2> QED
    BY ONLY <2>1, <1>5, <1>7, <1>8
<1> QED
  BY <1>2, <1>9, Zenon

\* Everything a datagram of the test client adds up to stays below two words.
LEMMA SumsFit ==
  ASSUME NEW rest \in Nat, rest > 0, rest <= Ones * 503,
         NEW v, v \in 0..Ones
  PROVE  /\ rest + Ones < Word * Word
         /\ rest + v \in 1..(Word * Word - 1)
<1>1. Word = 65536 /\ Ones = 65535
  BY ONLY WordIs
<1>2. Ones * 503 = 32964105
  BY ONLY <1>1
<1>3. PICK w \in Nat : w = Word * Word /\ w = 4294967296
  BY ONLY <1>1
<1>4. v \in Nat /\ v <= Ones /\ Ones \in Nat
  BY WordIsBase
<1>5. rest <= 32964105
  BY <1>2
<1>6. PICK n \in Nat : n = Ones /\ n = 65535
  BY ONLY <1>1
<1>7. rest + n < w
  BY ONLY <1>3, <1>5, <1>6
<1>8. v <= n
  BY ONLY <1>4, <1>6
<1>9. rest + v \in Nat /\ rest + v > 0 /\ rest + v < w
  <2>1. rest > 0
    OBVIOUS
  <2> QED
    BY ONLY <1>4, <1>7, <1>8, <2>1
<1>10. rest + v \in 1..(w - 1)
  BY ONLY <1>9
<1> QED
  <2>1. w = Word * Word /\ n = Ones
    BY ONLY <1>3, <1>6
  <2> QED
    BY ONLY <1>7, <1>10, <2>1

LEMMA AddressBytes ==
  /\ 59 \in Byte /\ 66 \in Byte /\ 134 \in Byte /\ 90 \in Byte
  /\ 10 \in Byte /\ 0 \in Byte /\ 3 \in Byte
BY DEF Byte

LEMMA DatagramsExchanged ==
  ASSUME NEW q \in Question, NEW f1 \in Byte, NEW f2 \in Byte,
         NEW h1 \in Byte, NEW h2 \in Byte
  PROVE  Exchanged(Datagram(IpDst, IpSrc, q, <<f1, f2>>),
                   Datagram(IpSrc, IpDst, q, <<h1, h2>>),
                   IpSrc, IpDst, q, <<f1, f2>>, <<h1, h2>>)
<1>1. IpSrc \in Address /\ IpDst \in Address
  BY AddressBytes DEF IpSrc, IpDst, Address
<1>2. <<f1, f2>> \in Byte \X Byte /\ <<h1, h2>> \in Byte \X Byte
  OBVIOUS
<1>3. PICK src : src = IpSrc
  OBVIOUS
<1>4. PICK dst : dst = IpDst
  OBVIOUS
<1>5. PICK f : f = <<f1, f2>>
  OBVIOUS
<1>6. PICK h : h = <<h1, h2>>
  OBVIOUS
<1>7. PICK a : a = Datagram(dst, src, q, f)
  OBVIOUS
<1>8. PICK b : b = Datagram(src, dst, q, h)
  OBVIOUS
<1>9. /\ a \in Seq(Byte) /\ Len(a) = 20 + Len(q)
      /\ HeaderBytes(a, dst, src, UdpLen(q), f)
      /\ \A i \in 1..Len(q) : a[20 + i] = q[i]
  BY <1>1, <1>2, <1>3, <1>4, <1>5, <1>7, DatagramBytes
<1>10. /\ b \in Seq(Byte) /\ Len(b) = 20 + Len(q)
       /\ HeaderBytes(b, src, dst, UdpLen(q), h)
       /\ \A i \in 1..Len(q) : b[20 + i] = q[i]
  BY <1>1, <1>2, <1>3, <1>4, <1>6, <1>8, DatagramBytes
<1>11. Exchanged(a, b, src, dst, q, f, h)
  BY <1>9, <1>10 DEF Exchanged
<1> QED
  BY <1>3, <1>4, <1>5, <1>6, <1>7, <1>8, <1>11

\* The sum over a clear field is the one of all the rest.
LEMMA SumOfCleanField ==
  ASSUME NEW q \in Question, NEW h1 \in Byte, NEW h2 \in Byte,
         NEW rest \in Nat,
         WordSum(Datagram(IpSrc, IpDst, q, <<h1, h2>>))
           = rest + (h1 + 256 * h2)
  PROVE  WordSum(Datagram(IpDst, IpSrc, q, <<0, 0>>)) = rest
<1>1. PICK f : f = <<0, 0>>
  OBVIOUS
<1>2. PICK h : h = <<h1, h2>>
  OBVIOUS
<1>3. PICK a : a = Datagram(IpDst, IpSrc, q, f)
  OBVIOUS
<1>4. PICK b : b = Datagram(IpSrc, IpDst, q, h)
  OBVIOUS
<1>5. Exchanged(a, b, IpSrc, IpDst, q, f, h)
  BY <1>1, <1>2, <1>3, <1>4, AddressBytes, DatagramsExchanged
<1>6. PICK clean \in Nat :
         /\ WordSum(a) = clean + (f[1] + 256 * f[2])
         /\ WordSum(b) = clean + (h[1] + 256 * h[2])
  BY <1>5, SumsAgree
<1>7. f[1] = 0 /\ f[2] = 0 /\ h[1] = h1 /\ h[2] = h2
  BY <1>1, <1>2
<1>8. PICK hw \in Nat : hw = h1 + 256 * h2
  <2>1. h1 \in Nat /\ h2 \in Nat
    BY ByteBounds
  <2> QED
    BY ONLY <2>1
<1>9. clean + hw = rest + hw
  BY <1>2, <1>4, <1>6, <1>7, <1>8
<1>10. WordSum(a) = clean
  <2>1. 0 + 256 * 0 = 0
    OBVIOUS
  <2> QED
    BY <1>6, <1>7, <2>1
<1>11. clean = rest
  BY ONLY <1>9, clean \in Nat, rest \in Nat, hw \in Nat
<1> QED
  BY <1>1, <1>3, <1>10, <1>11

\* Words are equal when their bytes are.
LEMMA SameBytes ==
  ASSUME NEW l1 \in Byte, NEW l2 \in Byte, NEW r1 \in Byte, NEW r2 \in Byte
  PROVE  l1 + 256 * l2 = r1 + 256 * r2 <=> <<l1, l2>> = <<r1, r2>>
<1>1. /\ l1 \in Nat /\ l1 <= 255 /\ l2 \in Nat /\ l2 <= 255
      /\ r1 \in Nat /\ r1 <= 255 /\ r2 \in Nat /\ r2 <= 255
  BY ByteBounds
<1>2. l1 + 256 * l2 = r1 + 256 * r2 <=> l1 = r1 /\ l2 = r2
  BY ONLY <1>1
<1>3. <<l1, l2>> = <<r1, r2>> <=> l1 = r1 /\ l2 = r2
  OBVIOUS
<1> QED
  BY ONLY <1>2, <1>3

\* What is on the way: the datagram with the checksum in its place.
LEMMA QuestionVerifies ==
  ASSUME NEW q \in Question, NEW l1 \in Byte, NEW l2 \in Byte,
         NEW c, c = UdpChecksum(q, <<l1, l2>>),
         NEW right, right = UdpChecksum(q, <<0, 0>>)
  PROVE  Accepts(c, WordSum(Datagram(IpSrc, IpDst, q,
                                     <<c % 256, c \div 256>>)))
           <=> <<l1, l2>> \in {<<0, 0>>, <<255, 255>>,
                               <<right % 256, right \div 256>>}
<1> DEFINE a == Datagram(IpDst, IpSrc, q, <<l1, l2>>)
<1>1. c = Complement(WordSum(a))
  BY DEF UdpChecksum, InCksum, Datagram
<1> HIDE DEF a
<1>2. PICK lw : lw = l1 + 256 * l2
  OBVIOUS
<1>3. lw \in 0..Ones
  BY <1>2, TwoByteField
<1>4. \A h1, h2 \in Byte :
        \E rest \in Nat :
          /\ rest > 0 /\ rest <= Ones * 503
          /\ WordSum(a) = rest + lw
          /\ WordSum(Datagram(IpSrc, IpDst, q, <<h1, h2>>))
               = rest + (h1 + 256 * h2)
  <2> TAKE h1, h2 \in Byte
  <2>1. PICK f : f = <<l1, l2>>
    OBVIOUS
  <2>2. PICK h : h = <<h1, h2>>
    OBVIOUS
  <2>3. PICK b : b = Datagram(IpSrc, IpDst, q, h)
    OBVIOUS
  <2>4. Exchanged(a, b, IpSrc, IpDst, q, f, h)
    BY <2>1, <2>2, <2>3, DatagramsExchanged DEF a
  <2>5. PICK rest \in Nat :
           /\ rest > 0 /\ rest <= Ones * 503
           /\ WordSum(a) = rest + (f[1] + 256 * f[2])
           /\ WordSum(b) = rest + (h[1] + 256 * h[2])
    BY <2>4, SumsAgree
  <2>6. f[1] = l1 /\ f[2] = l2 /\ h[1] = h1 /\ h[2] = h2
    BY <2>1, <2>2
  <2> QED
    BY <1>2, <2>2, <2>3, <2>5, <2>6
<1>5. c \in Nat /\ c <= Ones
  <2>1. PICK rest \in Nat :
           rest > 0 /\ rest <= Ones * 503 /\ WordSum(a) = rest + lw
    BY <1>4, AddressBytes
  <2>2. WordSum(a) \in 1..(Word * Word - 1)
    BY <1>3, <2>1, SumsFit
  <2>3. Fold(WordSum(a)) \in 1..Ones
    BY <2>2, FoldKeepsRemainder
  <2> QED
    BY <1>1, <2>3, WordIsBase DEF Complement, Ones
<1>6. /\ c \div 256 \in Byte /\ c % 256 \in Byte
      /\ c = (c % 256) + 256 * (c \div 256)
  <2>1. c <= 65535
    BY <1>5, WordIs
  <2> QED
    BY <1>5, <2>1, QuotientByte
<1>7. PICK h1 \in Byte, h2 \in Byte : h1 = c % 256 /\ h2 = c \div 256
  BY <1>6
<1>8. PICK rest \in Nat :
          /\ rest > 0 /\ rest <= Ones * 503
          /\ WordSum(a) = rest + lw
          /\ WordSum(Datagram(IpSrc, IpDst, q, <<h1, h2>>))
               = rest + (h1 + 256 * h2)
  BY <1>4
<1>9. WordSum(Datagram(IpSrc, IpDst, q, <<h1, h2>>)) = rest + c
  BY <1>6, <1>7, <1>8
<1>10. rest + Ones < Word * Word
  BY <1>3, <1>8, SumsFit
<1>11. c = Complement(rest + lw)
  BY <1>1, <1>8
<1>12. Accepts(c, rest + c) <=> lw \in {0, Ones, Complement(rest)}
  BY <1>3, <1>8, <1>10, <1>11, ChecksumNeedsCleanField
<1>13. WordSum(Datagram(IpDst, IpSrc, q, <<0, 0>>)) = rest
  BY <1>7, <1>8, SumOfCleanField
<1>14. right = Complement(rest)
  BY <1>13 DEF UdpChecksum, InCksum, Datagram
<1>15. right \in Nat /\ right <= Ones
  <2>1. 0 \in 0..Ones
    BY WordIsBase
  <2>2. right \in 0..Ones
    BY <1>8, <1>10, <1>14, <2>1, SumLeavesZero
  <2> QED
    BY ONLY <2>2, WordIsBase
<1>16. /\ right \div 256 \in Byte /\ right % 256 \in Byte
       /\ right = (right % 256) + 256 * (right \div 256)
  <2>1. right <= 65535
    BY ONLY <1>15, WordIs
  <2> QED
    BY ONLY <1>15, <2>1, QuotientByte
<1>17. lw = right <=> <<l1, l2>> = <<right % 256, right \div 256>>
  BY <1>2, <1>16, SameBytes
<1>18. lw \in {0, Ones} <=> <<l1, l2>> \in {<<0, 0>>, <<255, 255>>}
  BY <1>2, TwoByteField
<1>19. lw \in {0, Ones, right}
         <=> <<l1, l2>> \in {<<0, 0>>, <<255, 255>>,
                             <<right % 256, right \div 256>>}
  <2>1. lw \in {0, Ones, right} <=> lw \in {0, Ones} \/ lw = right
    OBVIOUS
  <2>2. <<l1, l2>> \in {<<0, 0>>, <<255, 255>>,
                        <<right % 256, right \div 256>>}
          <=> \/ <<l1, l2>> \in {<<0, 0>>, <<255, 255>>}
              \/ <<l1, l2>> = <<right % 256, right \div 256>>
    OBVIOUS
  <2> QED
    BY ONLY <2>1, <2>2, <1>17, <1>18
<1>20. Accepts(c, rest + c) <=> lw \in {0, Ones, right}
  BY ONLY <1>12, <1>14
<1> QED
  BY ONLY <1>7, <1>9, <1>19, <1>20

---------------------------------------------------------------------------
(* The test client *)

\* The packet once its parts are there.
PacketInv ==
  /\ name \in Names /\ left \in Leftovers
  /\ prep \in {"name", "header", "ready"}
  /\ prep # "name" => dns = GetDnsRequest(name)
  /\ prep = "ready" => check = UdpChecksum(dns, left)

TestClientInv == TunnelInv /\ PacketInv

LEMMA TestClientInitially == TestClientInit => TestClientInv
<1> SUFFICES ASSUME TestClientInit PROVE TestClientInv
  OBVIOUS
<1>1. TunnelInv
  BY TunnelInitially DEF TestClientInit
<1>2. PacketInv
  BY DEF TestClientInit, PacketInv
<1> QED
  BY <1>1, <1>2 DEF TestClientInv

LEMMA TestClientInductive ==
  TestClientInv /\ [TestClientNext]_testVars => TestClientInv'
<1> SUFFICES ASSUME TestClientInv, [TestClientNext]_testVars
             PROVE  TestClientInv'
  OBVIOUS
<1> USE DEF TestClientInv
<1>1. CASE BuildQuestion
  <2>1. TunnelInv'
    BY <1>1, TunnelInductive DEF BuildQuestion
  <2>2. PacketInv'
    BY <1>1 DEF BuildQuestion, PacketInv
  <2> QED
    BY <2>1, <2>2
<1>2. CASE FillHeaders
  <2>1. TunnelInv'
    BY <1>2, TunnelInductive DEF FillHeaders
  <2>2. PacketInv'
    BY <1>2 DEF FillHeaders, PacketInv
  <2> QED
    BY <2>1, <2>2
<1>3. CASE InTunnel
  <2>1. TunnelInv'
    BY <1>3, TunnelInductive DEF InTunnel
  <2>2. PacketInv'
    BY <1>3 DEF InTunnel, PacketInv, packetVars
  <2> QED
    BY <2>1, <2>2
<1>4. CASE UNCHANGED testVars
  <2>1. TunnelInv'
    BY <1>4, TunnelInductive DEF testVars
  <2>2. PacketInv'
    BY <1>4 DEF testVars, PacketInv, packetVars
  <2> QED
    BY <2>1, <2>2
<1> QED
  BY <1>1, <1>2, <1>3, <1>4 DEF TestClientNext

LEMMA PacketVerifies == PacketInv => AcceptedLeftovers
<1> DEFINE right == UdpChecksum(dns, <<0, 0>>)
<1> SUFFICES ASSUME PacketInv, prep = "ready"
             PROVE  Accepts(check, WordSum(Datagram(IpSrc, IpDst, dns,
                                       <<check % 256, check \div 256>>)))
                      <=> left \in {<<0, 0>>, <<255, 255>>,
                                    <<right % 256, right \div 256>>}
  BY DEF AcceptedLeftovers, Datagram
<1> HIDE DEF right
<1>1. dns = GetDnsRequest(name) /\ name \in Names /\ left \in Leftovers
  BY DEF PacketInv
<1>2. name \in Seq(Character) /\ 20 + 8 + (Len(name) + 18) <= 512
  BY <1>1, TestClientAssumption DEF Character
<1>3. dns \in Seq(Byte) /\ Len(dns) <= Len(name) + 18
  BY <1>1, <1>2, RequestIsBytes
<1>4. Len(dns) <= 484
  <2>1. Len(dns) \in Nat /\ Len(name) \in Nat
    BY <1>2, <1>3
  <2> QED
    BY <1>2, <1>3, <2>1
<1>5. dns \in Question
  BY <1>3, <1>4 DEF Question
<1>6. PICK l1 \in Byte, l2 \in Byte : left = <<l1, l2>>
  <2>1. Leftovers \subseteq Byte \X Byte
    BY ONLY TestClientAssumption DEF Byte
  <2>2. left \in Byte \X Byte
    BY <1>1, <2>1
  <2> QED
    BY ONLY <2>2
<1>7. check = UdpChecksum(dns, <<l1, l2>>)
  BY <1>6 DEF PacketInv
<1>8. right = UdpChecksum(dns, <<0, 0>>)
  BY DEF right
<1> QED
  BY <1>5, <1>6, <1>7, <1>8, QuestionVerifies

\* do_client has udp_checksum run over a field it has not cleared, and with the
\* addresses the other way round (test_client.cpp:98-140).  The second does not
\* matter.  The first does: for every name that fits into the packet, the
\* receiver accepts the datagram if and only if the two bytes on the stack were
\* both 0, both 255, or the checksum that should be there, which makes in_cksum
\* return 0, the value of a field that is not checked.
THEOREM ReceiverChecksLeftover == TestClientSpec => []AcceptedLeftovers
<1>1. TestClientInit => TestClientInv
  BY TestClientInitially
<1>2. TestClientInv /\ [TestClientNext]_testVars => TestClientInv'
  BY TestClientInductive
<1>3. TestClientInv => AcceptedLeftovers
  BY PacketVerifies DEF TestClientInv
<1> QED
  BY <1>1, <1>2, <1>3, PTL DEF TestClientSpec

\* get_dns_request counts the labels in place, whatever dots the name has
\* (test_client.cpp:282-310): if each has less than 192 characters, what it
\* writes is read as a question for just these labels, and its type and class
\* where they are.
THEOREM QuestionIsRead ==
  ASSUME \A n \in Names : Short(LabelsOf(n))
  PROVE  TestClientSpec => []QuestionReadsBack
<1>1. TestClientInit => TestClientInv
  BY TestClientInitially
<1>2. TestClientInv /\ [TestClientNext]_testVars => TestClientInv'
  BY TestClientInductive
<1>3. TestClientInv => QuestionReadsBack
  <2> SUFFICES ASSUME TestClientInv, prep # "name"
               PROVE  /\ ReadQuestion(dns).labels = LabelsOf(name)
                      /\ SubSeq(dns, ReadQuestion(dns).next, Len(dns))
                           = <<0, 1, 0, 1>>
    BY DEF QuestionReadsBack
  <2>1. name \in Names /\ dns = GetDnsRequest(name)
    BY DEF TestClientInv, PacketInv
  <2>2. name \in Seq(Character) /\ Short(LabelsOf(name))
    BY <2>1, TestClientAssumption DEF Character
  <2> QED
    BY <2>1, <2>2, NameReadsBack
<1> QED
  BY <1>1, <1>2, <1>3, PTL DEF TestClientSpec

\* The client that first builds its packet keeps what the tunnel alone keeps:
\* one packet on the round for each keep-alive and each packet from outside,
\* and a mutual wait only when both directions are full
\* (do_client, test_client.cpp:79-188).
THEOREM TestClientKeepsTunnel ==
  TestClientSpec => [](TunnelTypeOK /\ OnePacketEach /\ StuckOnlyWhenFull)
<1>1. TestClientInit => TestClientInv
  BY TestClientInitially
<1>2. TestClientInv /\ [TestClientNext]_testVars => TestClientInv'
  BY TestClientInductive
<1>3. TestClientInv => TunnelTypeOK /\ OnePacketEach /\ StuckOnlyWhenFull
  BY Parts, RoundsBoundCirculating, FillingBoundsStuck DEF TestClientInv
<1> QED
  BY <1>1, <1>2, <1>3, PTL DEF TestClientSpec

=============================================================================
