----------------------------- MODULE FiniteSums -----------------------------
(***************************************************************************)
(* Finite sets: minimal members, least and greatest numbers, and what      *)
(* MapThenSumSet is.  The models sum the bytes of entries and of sessions  *)
(* (disk_used_bytes of src/serve/disk.rs, the budget of                    *)
(* src/serve/session.rs); the proofs about them share these lemmas.  No    *)
(* induction theorem with an operator parameter is used: a nonempty family *)
(* of subsets of a finite set has a minimal member (Minimal).              *)
(***************************************************************************)
EXTENDS Integers, FiniteSets, FiniteSetsExt, FiniteSetTheorems, FunctionTheorems,
        WellFoundedInduction, TLAPS
-----------------------------------------------------------------------------
(* Finite sets have minimal subsets, sets of numbers a least and, when      *)
(* bounded, a greatest element: the induction of this module.               *)

LEMMA Minimal ==
    ASSUME NEW S, IsFiniteSet(S), NEW F, F \subseteq SUBSET S, F # {}
    PROVE  \E T \in F : \A U \in F : U \subseteq T => U = T
<1>1. IsWellFoundedOn(StrictSubsetOrdering(S), FiniteSubsetsOf(S))
  BY FS_StrictSubsetOrderingWellFounded
<1>2. FiniteSubsetsOf(S) = SUBSET S
  BY FS_FiniteSubsetsOfFinite
<1>3. \E T \in F : \A U \in F : ~(<<U, T>> \in StrictSubsetOrdering(S))
  BY <1>1, <1>2, WFMin
<1> QED BY <1>3 DEF StrictSubsetOrdering

LEMMA Least ==
    ASSUME NEW S, S \subseteq Nat, S # {}
    PROVE  Min(S) \in S /\ \A x \in S : Min(S) =< x
<1>1. PICK k \in S : TRUE
  OBVIOUS
<1> DEFINE K == 0 .. k
           F == {0 .. x : x \in S \cap K}
<1>2. F \subseteq SUBSET K /\ F # {} /\ IsFiniteSet(K)
  <2>1. IsFiniteSet(K)
    BY <1>1, FS_Interval
  <2>2. \A x \in S \cap K : 0 .. x \subseteq K
    BY <1>1
  <2>3. k \in S \cap K
    BY <1>1
  <2> HIDE DEF K
  <2> QED BY <2>1, <2>2, <2>3
<1>3. PICK T \in F : \A U \in F : U \subseteq T => U = T
  <2> HIDE DEF F, K
  <2> QED BY <1>2, Minimal
<1>4. PICK m \in S \cap (0 .. k) : T = 0 .. m
  BY <1>3
<1>5. \A x \in S : m =< x
  <2> SUFFICES ASSUME NEW x \in S, x < m PROVE FALSE
    BY <1>4
  <2>1. x \in S \cap (0 .. k) /\ 0 .. x \in F /\ 0 .. x \subseteq T
    BY <1>4
  <2>2. 0 .. x = 0 .. m
    BY <1>3, <1>4, <2>1
  <2> QED BY <1>4, <2>2
<1> QED BY <1>4, <1>5 DEF Min

LEMMA Greatest ==
    ASSUME NEW S, S \subseteq Nat, S # {}, NEW b \in Nat, \A x \in S : x =< b
    PROVE  Max(S) \in S /\ \A x \in S : x =< Max(S)
<1> DEFINE T == {n \in Nat : \A x \in S : x =< n}
<1>1. T \subseteq Nat /\ T # {}
  OBVIOUS
<1>2. PICK m \in T : \A n \in T : m =< n
  <2> HIDE DEF T
  <2> QED BY <1>1, Least
<1>3. m \in S
  <2> SUFFICES ASSUME m \notin S PROVE FALSE
    OBVIOUS
  <2>1. m \in Nat /\ \A x \in S : x \in Nat /\ x =< m /\ x # m
    OBVIOUS
  <2>0. m > 0
    <3>1. PICK x \in S : TRUE
      OBVIOUS
    <3> QED BY <2>1, <3>1
  <2>2. m - 1 \in Nat /\ \A x \in S : x =< m - 1
    BY <2>0, <2>1
  <2> QED BY <1>2, <2>2
<1> QED BY <1>3 DEF Max
-----------------------------------------------------------------------------
(* Sums over finite sets (MapThenSumSet).                                   *)

AnyOf(s) == CHOOSE x \in s : TRUE

(* `it` sums the weights `w` over the subsets of S.                         *)
IsSum(it, w, S) ==
    it = [s \in SUBSET S |-> IF s = {} THEN 0 ELSE w[AnyOf(s)] + it[s \ {AnyOf(s)}]]

(* What a sum is: a number, and any element's weight plus that of the rest. *)
SumLaw(it, w, S) ==
    /\ it[{}] = 0
    /\ \A s \in SUBSET S : it[s] \in Nat
    /\ \A s \in SUBSET S : \A x \in s : it[s] = w[x] + it[s \ {x}]

LEMMA PickIn == ASSUME NEW s, s # {} PROVE AnyOf(s) \in s
BY DEF AnyOf

LEMMA SumAgree ==
    ASSUME NEW w, NEW A, IsFiniteSet(A), NEW B, NEW a, IsSum(a, w, A), NEW b, IsSum(b, w, B)
    PROVE  \A s \in (SUBSET A) \cap (SUBSET B) : a[s] = b[s]
<1> DEFINE F == {s \in (SUBSET A) \cap (SUBSET B) : a[s] # b[s]}
<1> SUFFICES ASSUME F # {} PROVE FALSE
  OBVIOUS
<1>1. F \subseteq SUBSET A
  OBVIOUS
<1> HIDE DEF F
<1>2. PICK T \in F : \A U \in F : U \subseteq T => U = T
  BY <1>1, Minimal
<1> USE DEF F
<1>3. T # {}
  BY DEF IsSum
<1>4. a[T \ {AnyOf(T)}] = b[T \ {AnyOf(T)}]
  BY <1>2, <1>3, PickIn
<1>5. a[T] = w[AnyOf(T)] + a[T \ {AnyOf(T)}] /\ b[T] = w[AnyOf(T)] + b[T \ {AnyOf(T)}]
  BY <1>3 DEF IsSum
<1> QED BY <1>4, <1>5

LEMMA SumExists ==
    ASSUME NEW w, NEW S, IsFiniteSet(S)
    PROVE  \E it : IsSum(it, w, S)
<1> DEFINE F == {T \in SUBSET S : ~ \E it : IsSum(it, w, T)}
<1> SUFFICES ASSUME F # {} PROVE FALSE
  OBVIOUS
<1>1. F \subseteq SUBSET S
  OBVIOUS
<1> HIDE DEF F
<1>2. PICK T \in F : \A U \in F : U \subseteq T => U = T
  BY <1>1, Minimal
<1> USE DEF F
<1> DEFINE g(U) == CHOOSE it : IsSum(it, w, U)
           h == [s \in SUBSET T |-> IF s = {} THEN 0
                                    ELSE w[AnyOf(s)] + g(s \ {AnyOf(s)})[s \ {AnyOf(s)}]]
<1>3. ASSUME NEW U \in SUBSET T, U # T PROVE IsSum(g(U), w, U)
  BY <1>2, <1>3
<1>4. ASSUME NEW s \in SUBSET T, s # T PROVE h[s] = g(s)[s]
  <2>1. CASE s = {}
    <3>1. IsSum(g(s), w, s)
      BY <1>3, <1>4
    <3> HIDE DEF g
    <3>2. g(s)[s] = 0
      BY <2>1, <3>1 DEF IsSum
    <3> QED BY <2>1, <3>2
  <2>2. CASE s # {}
    <3> DEFINE u == s \ {AnyOf(s)}
    <3>1. u \in SUBSET s /\ u # T /\ u \in SUBSET T /\ IsFiniteSet(u)
      BY <2>2, <1>4, PickIn, FS_Subset
    <3>2. IsSum(g(u), w, u) /\ IsSum(g(s), w, s) /\ u \in (SUBSET u) \cap (SUBSET s)
      BY <3>1, <1>3, <1>4
    <3> HIDE DEF g, u
    <3>3. g(u)[u] = g(s)[u]
      BY <3>1, <3>2, SumAgree
    <3>4. g(s)[s] = w[AnyOf(s)] + g(s)[u]
      BY <2>2, <3>2 DEF IsSum, u
    <3> USE DEF u
    <3> QED BY <2>2, <3>3, <3>4
  <2> QED BY <2>1, <2>2
<1>5. ASSUME NEW s \in SUBSET T, s # {} PROVE h[s] = w[AnyOf(s)] + h[s \ {AnyOf(s)}]
  <2> DEFINE u == s \ {AnyOf(s)}
  <2>1. u \in SUBSET T /\ u # T
    BY <1>5, PickIn
  <2>2. h[u] = g(u)[u]
    BY <2>1, <1>4
  <2>3. h[s] = w[AnyOf(s)] + g(u)[u]
    BY <1>5
  <2> QED BY <2>2, <2>3
<1>6. IsSum(h, w, T)
  <2>1. h[{}] = 0 /\ h = [s \in SUBSET T |-> h[s]]
    OBVIOUS
  <2> HIDE DEF h
  <2> QED BY <1>5, <2>1 DEF IsSum
<1> QED BY <1>2, <1>6

(* Whichever element is picked first.                                       *)
LEMMA SumWithout ==
    ASSUME NEW w, NEW S, IsFiniteSet(S), \A x \in S : w[x] \in Nat, NEW it, IsSum(it, w, S)
    PROVE  SumLaw(it, w, S)
<1>0. /\ it[{}] = 0
      /\ \A s \in SUBSET S : s # {} => it[s] = w[AnyOf(s)] + it[s \ {AnyOf(s)}]
  BY DEF IsSum
<1> DEFINE OK(s) == it[s] \in Nat /\ \A x \in s : it[s] = w[x] + it[s \ {x}]
           F == {s \in SUBSET S : ~OK(s)}
<1> SUFFICES ASSUME F # {} PROVE FALSE
  BY <1>0 DEF SumLaw
<1>1. F \subseteq SUBSET S
  OBVIOUS
<1> HIDE DEF F
<1>2. PICK T \in F : \A U \in F : U \subseteq T => U = T
  BY <1>1, Minimal
<1>3. T \in SUBSET S /\ ~OK(T) /\ \A U \in SUBSET T : U # T => OK(U)
  BY <1>2 DEF F
<1>4. T # {}
  <2> SUFFICES ASSUME T = {} PROVE OK(T)
    BY <1>3
  <2> QED BY <1>0
<1> DEFINE p == AnyOf(T)
<1>5. p \in T /\ w[p] \in Nat /\ OK(T \ {p}) /\ it[T] = w[p] + it[T \ {p}]
  BY <1>0, <1>3, <1>4, PickIn
<1> HIDE DEF p
<1>6. it[T] \in Nat
  BY <1>5
<1>7. ASSUME NEW x \in T PROVE it[T] = w[x] + it[T \ {x}]
  <2>1. CASE x = p
    BY <1>5, <2>1
  <2>2. CASE x # p
    <3> DEFINE c == it[(T \ {p}) \ {x}]
    <3>1. it[T \ {p}] = w[x] + c
      BY <1>5, <2>2
    <3>2. OK(T \ {x}) /\ p \in T \ {x}
      BY <1>3, <1>5, <2>2
    <3>3. (T \ {x}) \ {p} = (T \ {p}) \ {x}
      OBVIOUS
    <3>4. it[T \ {x}] = w[p] + c
      BY <3>2, <3>3
    <3>5. OK((T \ {p}) \ {x})
      BY <1>3, <1>5
    <3>6. c \in Nat /\ w[x] \in Nat
      BY <1>3, <3>5
    <3> HIDE DEF c
    <3> QED BY <1>5, <3>1, <3>4, <3>6
  <2> QED BY <2>1, <2>2
<1> QED BY <1>3, <1>6, <1>7

(* Fewer elements sum to no more.                                           *)
LEMMA SumFewer ==
    ASSUME NEW w, NEW S, IsFiniteSet(S), \A x \in S : w[x] \in Nat, NEW it, SumLaw(it, w, S),
           NEW t \in SUBSET S
    PROVE  \A s \in SUBSET S : t \subseteq s => it[t] =< it[s]
<1>0. /\ \A s \in SUBSET S : it[s] \in Nat
      /\ \A s \in SUBSET S : \A x \in s : it[s] = w[x] + it[s \ {x}]
  BY DEF SumLaw
<1> DEFINE F == {s \in SUBSET S : t \subseteq s /\ ~(it[t] =< it[s])}
<1> SUFFICES ASSUME F # {} PROVE FALSE
  OBVIOUS
<1>1. F \subseteq SUBSET S
  OBVIOUS
<1> HIDE DEF F
<1>2. PICK T \in F : \A U \in F : U \subseteq T => U = T
  BY <1>1, Minimal
<1>3. T \in SUBSET S /\ t \subseteq T /\ ~(it[t] =< it[T])
  BY <1>2 DEF F
<1>4. PICK x \in T : x \notin t
  <2> SUFFICES ASSUME T = t PROVE it[t] =< it[T]
    BY <1>3
  <2> QED BY <1>0, <1>3
<1>5. T \ {x} \in SUBSET S /\ t \subseteq T \ {x} /\ T \ {x} # T
  BY <1>3, <1>4
<1>6. it[t] =< it[T \ {x}]
  BY <1>2, <1>5 DEF F
<1>7. it[T] = w[x] + it[T \ {x}] /\ w[x] \in Nat /\ it[T \ {x}] \in Nat /\ it[t] \in Nat
  BY <1>0, <1>3, <1>4, <1>5
<1> QED BY <1>3, <1>6, <1>7

(* What is renamed without a change of weight sums to the same.             *)
LEMMA SumRenamed ==
    ASSUME NEW A, IsFiniteSet(A), NEW B, IsFiniteSet(B), NEW w, NEW v, NEW h \in [A -> B],
           \A x, y \in A : h[x] = h[y] => x = y,
           \A x \in A : w[x] = v[h[x]], \A y \in B : v[y] \in Nat,
           NEW a, IsSum(a, w, A), NEW b, IsSum(b, v, B)
    PROVE  \A s \in SUBSET A : a[s] = b[{h[x] : x \in s}]
<1> DEFINE img(s) == {h[x] : x \in s}
           F == {s \in SUBSET A : a[s] # b[img(s)]}
<1>1. \A x \in A : w[x] \in Nat
  OBVIOUS
<1>2. SumLaw(a, w, A)
  BY <1>1, SumWithout
<1>3. SumLaw(b, v, B)
  BY SumWithout
<1> SUFFICES ASSUME F # {} PROVE FALSE
  OBVIOUS
<1>4. F \subseteq SUBSET A
  OBVIOUS
<1> HIDE DEF F
<1>5. PICK T \in F : \A U \in F : U \subseteq T => U = T
  BY <1>4, Minimal
<1>6. T \in SUBSET A /\ a[T] # b[img(T)]
  BY <1>5 DEF F
<1>7. CASE T = {}
  BY <1>2, <1>3, <1>6, <1>7 DEF SumLaw
<1>8. CASE T # {}
  <2>1. PICK x \in T : TRUE
    BY <1>8
  <2> DEFINE u == T \ {x}
  <2>2. a[u] = b[img(u)]
    <3>1. u \in SUBSET A /\ u \subseteq T /\ u # T
      BY <1>6, <2>1
    <3> HIDE DEF u, img
    <3> QED BY <1>5, <3>1 DEF F
  <2>3. img(u) = img(T) \ {h[x]} /\ h[x] \in img(T) /\ img(T) \subseteq B
    BY <1>6, <2>1
  <2>4. b[img(T)] = v[h[x]] + b[img(u)]
    <3> DEFINE I == img(T)
    <3>1. I \in SUBSET B /\ h[x] \in I /\ img(u) = I \ {h[x]}
      BY <2>3
    <3> HIDE DEF img, u, I
    <3>2. b[I] = v[h[x]] + b[I \ {h[x]}]
      BY <1>3, <3>1 DEF SumLaw
    <3> QED BY <3>1, <3>2 DEF I
  <2>5. a[T] = w[x] + a[u] /\ w[x] = v[h[x]]
    BY <1>2, <1>6, <2>1 DEF SumLaw
  <2> QED BY <1>6, <2>2, <2>4, <2>5
<1> QED BY <1>7, <1>8
-----------------------------------------------------------------------------
(* The bytes of a set of entries, or of whatever has bytes.                 *)

SumOfBytes(s) == MapThenSumSet(LAMBDA x : x.bytes, s)

LEMMA SumOfBytesLink ==
    ASSUME NEW S, IsFiniteSet(S), NEW w, \A x \in S : w[x] = x.bytes, NEW it, IsSum(it, w, S)
    PROVE  SumOfBytes(S) = it[S]
<1> DEFINE P(f) == f = [s \in SUBSET S |-> IF s = {} THEN 0 ELSE AnyOf(s).bytes + f[s \ {AnyOf(s)}]]
           c == CHOOSE f : P(f)
<1>1. SumOfBytes(S) = c[S]
  BY DEF SumOfBytes, MapThenSumSet, MapThenFoldSet, AnyOf
<1>2. P(it)
  BY PickIn DEF IsSum
<1>3. P(c)
  BY <1>2
<1> HIDE DEF c
<1>4. IsSum(c, w, S)
  BY <1>3, PickIn DEF IsSum
<1>5. c[S] = it[S]
  BY <1>4, SumAgree
<1> QED BY <1>1, <1>5

LEMMA SumOfBytesWithin ==
    ASSUME NEW S, IsFiniteSet(S), NEW w, \A x \in S : w[x] = x.bytes, NEW it, IsSum(it, w, S),
           NEW t \in SUBSET S
    PROVE  SumOfBytes(t) = it[t]
<1>1. IsFiniteSet(t)
  BY FS_Subset
<1>2. PICK jt : IsSum(jt, w, t)
  BY <1>1, SumExists
<1>3. SumOfBytes(t) = jt[t]
  BY <1>1, <1>2, SumOfBytesLink
<1>4. jt[t] = it[t]
  <2>1. t \in (SUBSET t) \cap (SUBSET S)
    OBVIOUS
  <2> QED BY ONLY <1>1, <1>2, <2>1, SumAgree, IsSum(it, w, S)
<1> QED BY <1>3, <1>4

LEMMA SumOfBytesFacts ==
    ASSUME NEW S, IsFiniteSet(S), \A x \in S : x.bytes \in Nat
    PROVE  /\ SumOfBytes(S) \in Nat /\ SumOfBytes({}) = 0
           /\ \A x \in S : SumOfBytes(S) = x.bytes + SumOfBytes(S \ {x})
           /\ \A t \in SUBSET S : SumOfBytes(t) =< SumOfBytes(S)
<1>1. PICK w : \A x \in S : w[x] = x.bytes
  <2> WITNESS [x \in S |-> x.bytes]
  <2> QED OBVIOUS
<1>2. PICK it : IsSum(it, w, S)
  BY SumExists
<1>3. \A t \in SUBSET S : SumOfBytes(t) = it[t]
  BY <1>1, <1>2, SumOfBytesWithin
<1>0. \A x \in S : w[x] \in Nat
  BY <1>1
<1>4. SumLaw(it, w, S)
  BY <1>0, <1>2, SumWithout
<1>5. \A t \in SUBSET S : it[t] =< it[S]
  BY <1>0, <1>4, SumFewer
<1>6. /\ S \in SUBSET S /\ {} \in SUBSET S
      /\ \A x \in S : S \ {x} \in SUBSET S
  OBVIOUS
<1>7. /\ it[S] \in Nat /\ it[{}] = 0 /\ \A x \in S : it[S] = w[x] + it[S \ {x}]
  BY <1>4, <1>6 DEF SumLaw
<1>8. \A x \in S : SumOfBytes(S) = x.bytes + SumOfBytes(S \ {x})
  BY <1>1, <1>3, <1>6, <1>7
<1> QED BY <1>3, <1>5, <1>6, <1>7, <1>8

LEMMA SumOfBytesRenamed ==
    ASSUME NEW A, IsFiniteSet(A), NEW B, NEW h \in [A -> B], B = {h[x] : x \in A},
           \A x, y \in A : h[x] = h[y] => x = y,
           \A x \in A : x.bytes \in Nat /\ h[x].bytes = x.bytes
    PROVE  SumOfBytes(B) = SumOfBytes(A)
<1>1. h \in Bijection(A, B)
  BY DEF Bijection, Injection, Surjection, IsInjective
<1>2. IsFiniteSet(B)
  BY <1>1, FS_Bijection DEF ExistsBijection
<1>9. PICK w : \A x \in A : w[x] = x.bytes
  <2> WITNESS [x \in A |-> x.bytes]
  <2> QED OBVIOUS
<1>10. PICK v : \A y \in B : v[y] = y.bytes
  <2> WITNESS [y \in B |-> y.bytes]
  <2> QED OBVIOUS
<1>3. (\A x \in A : w[x] = x.bytes) /\ \A y \in B : v[y] = y.bytes
  BY <1>9, <1>10
<1>4. PICK a, b : IsSum(a, w, A) /\ IsSum(b, v, B)
  BY <1>2, SumExists
<1>5. h \in [A -> B] /\ {h[x] : x \in A} = B
  OBVIOUS
<1>8. (\A x \in A : w[x] = v[h[x]]) /\ \A y \in B : v[y] \in Nat
  BY <1>3
<1>6. \A s \in SUBSET A : a[s] = b[{h[x] : x \in s}]
  BY ONLY <1>2, <1>4, <1>8, h \in [A -> B], SumRenamed, IsFiniteSet(A),
          \A x, y \in A : h[x] = h[y] => x = y
<1>7. SumOfBytes(A) = a[A] /\ SumOfBytes(B) = b[B]
  BY <1>2, <1>3, <1>4, SumOfBytesWithin
<1> QED BY <1>2, <1>5, <1>6, <1>7
=============================================================================
