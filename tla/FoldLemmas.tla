----------------------------- MODULE FoldLemmas -----------------------------
(***************************************************************************)
(* Induction, recursive definitions and sums, as the other proofs need     *)
(* them.  An induction is stated over a set of numbers or of sets, and a   *)
(* fold over a function, so that the facts can be cited with instances.    *)
(***************************************************************************)
EXTENDS Integers, FiniteSets, FiniteSetTheorems, WellFoundedInduction, TLAPS

-----------------------------------------------------------------------------
(* Induction                                                               *)

(* A set of numbers has a least one.                                       *)
LEMMA LeastNat ==
  ASSUME NEW S, S \subseteq Nat, S # {}
  PROVE  \E x \in S : \A y \in S : x <= y
<1>. DEFINE Less == OpToRel(<, Nat)
<1>1. IsWellFoundedOn(Less, Nat)
  BY NatLessThanWellFounded
<1>2. \A x, y \in Nat : y < x => <<y, x>> \in Less
  BY DEF OpToRel
<1>. HIDE DEF Less
<1>3. PICK x \in S : \A y \in S : ~ (<<y, x>> \in Less)
  BY <1>1, WFMin
<1>4. \A y \in S : ~ (y < x)
  BY <1>2, <1>3
<1>. QED
  BY <1>4

(* A bounded one has a greatest.                                           *)
LEMMA GreatestNat ==
  ASSUME NEW S, NEW n \in Nat, S \subseteq 0..n, S # {}
  PROVE  \E x \in S : \A y \in S : y <= x
<1>. DEFINE Flipped == {n - x : x \in S}
<1>1. Flipped \subseteq Nat
  BY SMT
<1>2. Flipped # {}
  OBVIOUS
<1>3. PICK u \in Flipped : \A v \in Flipped : u <= v
  BY <1>1, <1>2, LeastNat
<1>4. PICK x \in S : u = n - x
  OBVIOUS
<1>5. ASSUME NEW y \in S PROVE y <= x
  <2>1. n - y \in Flipped
    OBVIOUS
  <2>2. n - x <= n - y
    BY <1>3, <1>4, <2>1
  <2>. QED
    BY <2>2
<1>. QED
  BY <1>5

(* Induction over numbers, for the set of those that have a property.      *)
LEMMA NatByInduction ==
  ASSUME NEW P, 0 \in P, \A n \in Nat : n \in P => n + 1 \in P
  PROVE  Nat \subseteq P
<1> SUFFICES ASSUME Nat \ P # {} PROVE FALSE
  OBVIOUS
<1>1. PICK n \in Nat \ P : \A m \in Nat \ P : n <= m
  BY LeastNat
<1>2. n # 0 /\ n - 1 \in Nat
  BY <1>1
<1>3. n - 1 \in P
  BY <1>1, <1>2
<1> QED BY <1>1, <1>2, <1>3

(* A part of S is in P as soon as those are that lack one of its elements. *)
Hereditary(P, S) ==
  \A T \in SUBSET S : (\A x \in T : T \ {x} \in P) => T \in P

(* Induction over the parts of a finite set, which take their elements one *)
(* by one.                                                                 *)
LEMMA SubsetsByInduction ==
  ASSUME NEW S, IsFiniteSet(S), NEW P, Hereditary(P, S)
  PROVE  SUBSET S \subseteq P
<1> DEFINE Bad == {T \in SUBSET S : T \notin P}
           Sizes == {Cardinality(T) : T \in Bad}
<1> SUFFICES ASSUME Bad # {} PROVE FALSE
  OBVIOUS
<1>1. \A T \in SUBSET S : IsFiniteSet(T) /\ Cardinality(T) \in Nat
  BY FS_Subset, FS_CardinalityType
<1>2. Sizes \subseteq Nat /\ Sizes # {}
  BY <1>1
<1>3. PICK n \in Sizes : \A m \in Sizes : n <= m
  <2> HIDE DEF Sizes
  <2> QED BY <1>2, LeastNat
<1>4. PICK T \in Bad : n = Cardinality(T)
  OBVIOUS
<1>5. PICK x \in T : T \ {x} \notin P
  BY <1>4 DEF Hereditary
<1>6. Cardinality(T \ {x}) = Cardinality(T) - 1
  BY <1>1, <1>4, FS_RemoveElement
<1>7. Cardinality(T \ {x}) \in Sizes
  BY <1>4, <1>5
<1> HIDE DEF Sizes
<1> QED BY <1>2, <1>3, <1>4, <1>6, <1>7

-----------------------------------------------------------------------------
(* Recursion over finite sets                                              *)

Chooses(c, S) == \A s \in SUBSET S : s # {} => c[s] \in s

(* What a fold defines: the value of a set is that of the set without the  *)
(* element that is chosen of it, taken one step further.                   *)
Folds(it, F, base, c, S) ==
  \A s \in SUBSET S :
    it[s] = IF s = {} THEN base ELSE F[<<it[s \ {c[s]}], c[s]>>]

(* The recursion that a fold over a finite set is defined by has a         *)
(* solution.                                                               *)
LEMMA FoldExists ==
  ASSUME NEW S, IsFiniteSet(S), NEW V, NEW base \in V,
         NEW c, Chooses(c, S), NEW F \in [V \X S -> V]
  PROVE  \E it \in [SUBSET S -> V] : Folds(it, F, base, c, S)
<1> USE DEF Chooses
<1> DEFINE Next(it, s) == IF s = {} THEN base ELSE F[<<it[s \ {c[s]}], c[s]>>]
           Right(it, n) ==
             \A s \in SUBSET S : Cardinality(s) <= n => it[s] = Next(it, s)
           P == {n \in Nat : \E it \in [SUBSET S -> V] : Right(it, n)}
<1>1. \A s \in SUBSET S : IsFiniteSet(s) /\ Cardinality(s) \in Nat
  BY FS_Subset, FS_CardinalityType
<1>2. \A it \in [SUBSET S -> V] : \A s \in SUBSET S : Next(it, s) \in V
  OBVIOUS
<1>3. 0 \in P
  <2> DEFINE it == [s \in SUBSET S |-> base]
  <2>1. \A s \in SUBSET S : Cardinality(s) <= 0 => s = {}
    BY <1>1, FS_EmptySet
  <2>2. Right(it, 0)
    BY <2>1
  <2> QED BY <2>2
<1>4. ASSUME NEW n \in Nat, n \in P PROVE n + 1 \in P
  <2>1. PICK it \in [SUBSET S -> V] : Right(it, n)
    BY <1>4
  <2> DEFINE more == [s \in SUBSET S |-> Next(it, s)]
  <2>2. more \in [SUBSET S -> V]
    BY <1>2
  <2>3. ASSUME NEW s \in SUBSET S, Cardinality(s) <= n + 1, s # {}
        PROVE  more[s \ {c[s]}] = it[s \ {c[s]}]
    <3>1. Cardinality(s \ {c[s]}) <= n
      BY <1>1, <2>3, FS_RemoveElement
    <3> QED BY <2>1, <3>1
  <2>4. Right(more, n + 1)
    BY <2>3
  <2> HIDE DEF Right, more
  <2> QED BY <2>2, <2>4
<1>5. Cardinality(S) \in P
  <2> HIDE DEF P
  <2> QED BY <1>1, <1>3, <1>4, NatByInduction
<1>6. PICK it \in [SUBSET S -> V] : Right(it, Cardinality(S))
  BY <1>5
<1>7. \A s \in SUBSET S : Cardinality(s) <= Cardinality(S)
  BY FS_Subset
<1> QED BY <1>6, <1>7 DEF Folds

-----------------------------------------------------------------------------
(* Sums                                                                    *)

(* t gives each part of S the sum of the weights in it.                    *)
Sums(t, w, S) ==
  /\ t \in [SUBSET S -> Int]
  /\ t[{}] = 0
  /\ \A s \in SUBSET S : \A x \in s : t[s] = w[x] + t[s \ {x}]

(* It does not matter in which order a sum is taken.                       *)
LEMMA SumsFromOne ==
  ASSUME NEW S, IsFiniteSet(S), NEW w, \A x \in S : w[x] \in Int,
         NEW t \in [SUBSET S -> Int], t[{}] = 0,
         \A s \in SUBSET S : s # {} => \E x \in s : t[s] = w[x] + t[s \ {x}]
  PROVE  Sums(t, w, S)
<1> DEFINE P == {s \in SUBSET S : \A x \in s : t[s] = w[x] + t[s \ {x}]}
<1>1. IsFiniteSet(S)
  OBVIOUS
<1>2. ASSUME NEW s \in SUBSET S, \A x \in s : s \ {x} \in P, NEW x \in s
      PROVE  t[s] = w[x] + t[s \ {x}]
  <2>1. PICK y \in s : t[s] = w[y] + t[s \ {y}]
    OBVIOUS
  <2>2. CASE x = y
    BY <2>1, <2>2
  <2>3. CASE x # y
    <3>1. x \in s \ {y} /\ y \in s \ {x} /\ (s \ {x}) \ {y} = (s \ {y}) \ {x}
      BY <2>3
    <3>2. /\ t[s \ {y}] = w[x] + t[(s \ {y}) \ {x}]
          /\ t[s \ {x}] = w[y] + t[(s \ {y}) \ {x}]
      BY <1>2, <3>1
    <3>3. w[x] \in Int /\ w[y] \in Int /\ t[(s \ {y}) \ {x}] \in Int
      OBVIOUS
    <3> QED BY <2>1, <3>2, <3>3
  <2> QED BY <2>2, <2>3
<1>3. Hereditary(P, S)
  BY <1>2 DEF Hereditary
<1>4. SUBSET S \subseteq P
  <2> HIDE DEF P
  <2> QED BY <1>1, <1>3, SubsetsByInduction
<1> QED BY <1>4 DEF Sums

(* The sum of the values of a function is one.                             *)
LEMMA SumOfFunction ==
  ASSUME NEW S, IsFiniteSet(S), NEW w, w \in [S -> Int]
  PROVE  \E t : Sums(t, w, S) /\ SumFunction(w) = t[S]
<1> DEFINE c == [s \in SUBSET S |-> CHOOSE x \in s : TRUE]
           F == [p \in Int \X S |-> w[p[2]] + p[1]]
           Right(it) == it = [s \in SUBSET S |->
             IF s = {} THEN 0 ELSE w[CHOOSE x \in s : TRUE] + it[s \ {CHOOSE x \in s : TRUE}]]
<1>1. \A s \in SUBSET S : s # {} => (CHOOSE x \in s : TRUE) \in s
  OBVIOUS
<1>2. PICK it \in [SUBSET S -> Int] : Folds(it, F, 0, c, S)
  <2>1. 0 \in Int /\ F \in [Int \X S -> Int] /\ Chooses(c, S)
    BY <1>1 DEF Chooses
  <2> HIDE DEF F, c
  <2> QED BY <2>1, FoldExists
<1>3. Right(it)
  <2>1. ASSUME NEW s \in SUBSET S, s # {}
        PROVE  it[s] = w[CHOOSE x \in s : TRUE] + it[s \ {CHOOSE x \in s : TRUE}]
    <3>1. c[s] = (CHOOSE x \in s : TRUE) /\ c[s] \in S /\ it[s \ {c[s]}] \in Int
      BY <1>1, <2>1
    <3>2. it[s] = w[c[s]] + it[s \ {c[s]}]
      <4> HIDE DEF c
      <4> QED BY <1>2, <2>1, <3>1 DEF Folds
    <3> QED BY <3>1, <3>2
  <2>2. it[{}] = 0
    BY <1>2 DEF Folds
  <2> QED BY <2>1, <2>2
<1>4. PICK t : Right(t) /\ SumFunction(w) = t[S]
  <2> HIDE DEF Right
  <2> DEFINE t == CHOOSE t : Right(t)
  <2>1. SumFunction(w) = t[S]
    BY DEF SumFunction, SumFunctionOnSet, FoldFunctionOnSet, MapThenFoldSet, Right
  <2> QED BY <1>3, <2>1
<1>5. /\ t \in [SUBSET S -> Int] /\ t[{}] = 0
      /\ \A s \in SUBSET S : s # {} => \E x \in s : t[s] = w[x] + t[s \ {x}]
  <2> DEFINE P == {s \in SUBSET S : t[s] \in Int}
  <2>1. ASSUME NEW s \in SUBSET S, \A x \in s : s \ {x} \in P
        PROVE  s \in P
    <3>1. CASE s = {}
      BY <1>4, <3>1
    <3>2. CASE s # {}
      <4>1. PICK x \in s : x = CHOOSE y \in s : TRUE
        BY <1>1, <3>2
      <4>2. t[s] = w[x] + t[s \ {x}]
        BY <1>4, <3>2, <4>1
      <4>3. w[x] \in Int /\ t[s \ {x}] \in Int
        BY <2>1
      <4>4. t[s] \in Int
        BY <4>2, <4>3
      <4> QED BY <4>4
    <3> QED BY <3>1, <3>2
  <2>2. SUBSET S \subseteq P
    <3>1. Hereditary(P, S)
      BY <2>1 DEF Hereditary
    <3> HIDE DEF P
    <3> QED BY <3>1, SubsetsByInduction
  <2>3. t \in [SUBSET S -> Int]
    BY <1>4, <2>2
  <2>4. t[{}] = 0
    BY <1>4
  <2>5. ASSUME NEW s \in SUBSET S, s # {}
        PROVE  \E x \in s : t[s] = w[x] + t[s \ {x}]
    BY <1>1, <1>4, <2>5
  <2> QED BY <2>3, <2>4, <2>5
<1>6. Sums(t, w, S)
  <2> HIDE DEF Right
  <2> QED BY <1>5, SumsFromOne
<1> QED BY <1>4, <1>6

(* Two sums agree where their weights do. *)
LEMMA SumsAgree ==
  ASSUME NEW S, IsFiniteSet(S), NEW w, NEW t, Sums(t, w, S),
         NEW R, IsFiniteSet(R), NEW v, NEW u, Sums(u, v, R),
         NEW Q, Q \subseteq S, Q \subseteq R, \A x \in Q : w[x] = v[x]
  PROVE  t[Q] = u[Q]
<1> DEFINE P == {s \in SUBSET Q : t[s] = u[s]}
<1>1. IsFiniteSet(Q)
  BY FS_Subset
<1>2. ASSUME NEW s \in SUBSET Q, \A x \in s : s \ {x} \in P
      PROVE  s \in P
  <2>1. CASE s = {}
    BY <2>1 DEF Sums
  <2>2. CASE s # {}
    <3>1. PICK x \in s : TRUE
      BY <2>2
    <3>2. t[s] = w[x] + t[s \ {x}] /\ u[s] = v[x] + u[s \ {x}]
      BY DEF Sums
    <3> QED BY <1>2, <3>2
  <2> QED BY <2>1, <2>2
<1>3. Hereditary(P, Q)
  BY <1>2 DEF Hereditary
<1>4. SUBSET Q \subseteq P
  <2> HIDE DEF P
  <2> QED BY <1>1, <1>3, SubsetsByInduction
<1> QED BY <1>4

-----------------------------------------------------------------------------
(* The sum of the values of a function                                     *)

(* One value taken out; the lemmas below rest on this one alone.           *)
LEMMA SumStep ==
  ASSUME NEW S, IsFiniteSet(S), NEW w, w \in [S -> Int]
  PROVE  /\ SumFunction(w) \in Int
         /\ S = {} => SumFunction(w) = 0
         /\ \A x \in S : SumFunction(w) = w[x] + SumFunction(Restrict(w, S \ {x}))
<1>1. PICK t : Sums(t, w, S) /\ SumFunction(w) = t[S]
  BY SumOfFunction
<1>2. SumFunction(w) \in Int /\ (S = {} => SumFunction(w) = 0)
  BY <1>1 DEF Sums
<1>3. ASSUME NEW x \in S
      PROVE  SumFunction(w) = w[x] + SumFunction(Restrict(w, S \ {x}))
  <2> DEFINE R == S \ {x}
             v == Restrict(w, R)
  <2>1. IsFiniteSet(R) /\ R \subseteq S
    BY FS_Subset
  <2>2. v \in [R -> Int] /\ \A y \in R : w[y] = v[y]
    BY <2>1 DEF Restrict
  <2>3. t[S] = w[x] + t[R]
    BY <1>1 DEF Sums
  <2> HIDE DEF R, v
  <2>4. PICK u : Sums(u, v, R) /\ SumFunction(v) = u[R]
    BY <2>1, <2>2, SumOfFunction
  <2>5. t[R] = u[R]
    BY <1>1, <2>1, <2>2, <2>4, SumsAgree
  <2>6. SumFunction(w) = w[x] + SumFunction(v)
    BY <1>1, <2>3, <2>4, <2>5
  <2> QED BY <2>6 DEF R, v
<1> QED BY <1>2, <1>3

(* A function restricted again.                                            *)
LEMMA RestrictTwice ==
  ASSUME NEW w, NEW S, NEW T, T \subseteq S
  PROVE  Restrict(Restrict(w, S), T) = Restrict(w, T)
BY DEF Restrict

(* The same over the parts of S, as the inductions need it.                *)
Part(w, T) == SumFunction(Restrict(w, T))

(* One value taken out of a part.                                          *)
LEMMA PartStep ==
  ASSUME NEW S, IsFiniteSet(S), NEW w, w \in [S -> Int], NEW T, T \subseteq S
  PROVE  /\ Part(w, T) \in Int
         /\ T = {} => Part(w, T) = 0
         /\ \A x \in T : /\ Part(w, T) = w[x] + Part(w, T \ {x})
                        /\ w[x] \in Int /\ Part(w, T \ {x}) \in Int
<1> DEFINE v == Restrict(w, T)
<1>1. IsFiniteSet(T) /\ v \in [T -> Int] /\ \A x \in T : v[x] = w[x]
  BY FS_Subset DEF Restrict
<1>2. \A x \in T : Restrict(v, T \ {x}) = Restrict(w, T \ {x})
  BY RestrictTwice
<1>3. \A x \in T : w[x] \in Int /\ Restrict(w, T \ {x}) \in [T \ {x} -> Int]
  BY DEF Restrict
<1>4. \A x \in T : IsFiniteSet(T \ {x})
  BY <1>1, FS_Subset
<1> HIDE DEF v
<1>5. /\ SumFunction(v) \in Int
      /\ T = {} => SumFunction(v) = 0
      /\ \A x \in T : SumFunction(v) = v[x] + SumFunction(Restrict(v, T \ {x}))
  BY <1>1, SumStep
<1>6. \A x \in T : SumFunction(Restrict(w, T \ {x})) \in Int
  BY <1>3, <1>4, SumStep
<1> QED BY <1>1, <1>2, <1>3, <1>5, <1>6 DEF v, Part

(* The whole is a part.                                                    *)
LEMMA PartAll ==
  ASSUME NEW S, NEW V, NEW w, w \in [S -> V]
  PROVE  Part(w, S) = SumFunction(w)
BY DEF Part, Restrict

(* A linear combination of two functions.                                  *)
LEMMA SumLinear ==
  ASSUME NEW S, IsFiniteSet(S), NEW a \in Int, NEW c \in Int,
         NEW u, u \in [S -> Int], NEW v, v \in [S -> Int], NEW w, w \in [S -> Int],
         \A x \in S : w[x] = a * u[x] + c * v[x]
  PROVE  SumFunction(w) = a * SumFunction(u) + c * SumFunction(v)
<1> DEFINE P == {T \in SUBSET S : Part(w, T) = a * Part(u, T) + c * Part(v, T)}
<1>1. ASSUME NEW T \in SUBSET S, \A x \in T : T \ {x} \in P
      PROVE  T \in P
  <2>1. CASE T = {}
    <3>1. Part(w, T) = 0 /\ Part(u, T) = 0 /\ Part(v, T) = 0
      BY <2>1, PartStep
    <3> QED BY <3>1
  <2>2. CASE T # {}
    <3>1. PICK x \in T : TRUE
      BY <2>2
    <3>2. PICK p, q, r, p0, q0, r0 :
            /\ p = Part(u, T) /\ q = Part(v, T) /\ r = Part(w, T)
            /\ p0 = Part(u, T \ {x}) /\ q0 = Part(v, T \ {x}) /\ r0 = Part(w, T \ {x})
      OBVIOUS
    <3>3. /\ p = u[x] + p0 /\ u[x] \in Int /\ p0 \in Int
      BY <3>2, PartStep
    <3>4. /\ q = v[x] + q0 /\ v[x] \in Int /\ q0 \in Int
      BY <3>2, PartStep
    <3>5. /\ r = w[x] + r0 /\ w[x] \in Int /\ r0 \in Int
      BY <3>2, PartStep
    <3>6. r0 = a * p0 + c * q0 /\ w[x] = a * u[x] + c * v[x]
      BY <1>1, <3>2
    <3>7. a * (u[x] + p0) = a * u[x] + a * p0 /\ c * (v[x] + q0) = c * v[x] + c * q0
      BY <3>3, <3>4
    <3>8. /\ a * u[x] \in Int /\ c * v[x] \in Int
          /\ a * p0 \in Int /\ c * q0 \in Int
      BY <3>3, <3>4
    <3>9. r = (a * u[x] + c * v[x]) + (a * p0 + c * q0)
      BY <3>5, <3>6
    <3>10. (a * u[x] + c * v[x]) + (a * p0 + c * q0)
             = (a * u[x] + a * p0) + (c * v[x] + c * q0)
      BY ONLY <3>8
    <3>11. r = a * p + c * q
      BY <3>3, <3>4, <3>7, <3>9, <3>10
    <3> QED BY <3>2, <3>11
  <2> QED BY <2>1, <2>2
<1>2. Hereditary(P, S)
  BY <1>1 DEF Hereditary
<1>3. SUBSET S \subseteq P
  <2> HIDE DEF P
  <2> QED BY <1>2, SubsetsByInduction
<1>4. Part(u, S) = SumFunction(u) /\ Part(v, S) = SumFunction(v) /\ Part(w, S) = SumFunction(w)
  BY PartAll
<1>5. Part(w, S) = a * Part(u, S) + c * Part(v, S)
  BY <1>3
<1> QED BY <1>4, <1>5

(* The values on a finite set are finitely many.                           *)
LEMMA ImageFinite ==
  ASSUME NEW S, IsFiniteSet(S), NEW h
  PROVE  /\ IsFiniteSet({h[x] : x \in S})
         /\ Cardinality({h[x] : x \in S}) <= Cardinality(S)
<1> DEFINE T == {h[x] : x \in S}
           f == [x \in S |-> h[x]]
<1>1. f \in Surjection(S, T)
  BY DEF Surjection
<1> HIDE DEF f, T
<1>2. IsFiniteSet(T) /\ Cardinality(T) <= Cardinality(S)
  BY <1>1, FS_Surjection
<1> QED BY <1>2 DEF T

(* Values at other places; what is left out of them is nothing.            *)
LEMMA SumReindexed ==
  ASSUME NEW B, IsFiniteSet(B), NEW v, v \in [B -> Int],
         NEW C, C \subseteq B, \A b \in B \ C : v[b] = 0,
         NEW h, \A b, d \in C : h[b] = h[d] => b = d,
         NEW w, w \in [{h[b] : b \in C} -> Int], \A b \in C : w[h[b]] = v[b]
  PROVE  SumFunction(w) = SumFunction(v)
<1> DEFINE At(T) == {h[b] : b \in T \cap C}
           P == {T \in SUBSET B : Part(w, At(T)) = Part(v, T)}
<1> PICK D : D = {h[b] : b \in C}
  OBVIOUS
<1>1. IsFiniteSet(D) /\ w \in [D -> Int]
  BY FS_Subset, ImageFinite
<1>2. ASSUME NEW T \in SUBSET B, \A x \in T : T \ {x} \in P
      PROVE  T \in P
  <2>1. At(T) \subseteq D
    OBVIOUS
  <2>2. CASE T = {}
    <3>1. At(T) = {}
      BY <2>2
    <3>2. Part(v, T) = 0 /\ Part(w, {}) = 0
      BY <1>1, <2>2, PartStep
    <3> QED BY <3>1, <3>2
  <2>3. CASE T # {}
    <3>1. PICK x \in T : TRUE
      BY <2>3
    <3>2. Part(w, At(T \ {x})) = Part(v, T \ {x})
      BY <1>2
    <3>3. Part(v, T) = v[x] + Part(v, T \ {x}) /\ Part(v, T \ {x}) \in Int
      BY PartStep
    <3>4. Part(w, At(T)) = Part(v, T)
      <4>1. CASE x \in C
        <5>1. h[x] \in At(T) /\ At(T) \ {h[x]} = At(T \ {x})
          BY <4>1
        <5>2. Part(w, At(T)) = w[h[x]] + Part(w, At(T) \ {h[x]})
          <6> HIDE DEF At
          <6> QED BY <1>1, <2>1, <5>1, PartStep
        <5>3. w[h[x]] = v[x]
          BY <4>1
        <5> HIDE DEF At
        <5> QED BY <3>2, <3>3, <5>1, <5>2, <5>3
      <4>2. CASE x \notin C
        <5>1. At(T) = At(T \ {x}) /\ v[x] = 0
          BY <4>2
        <5> HIDE DEF At
        <5> QED BY <3>2, <3>3, <5>1
      <4> QED BY <4>1, <4>2
    <3> QED BY <3>4
  <2> QED BY <2>2, <2>3
<1>3. Hereditary(P, B)
  BY <1>2 DEF Hereditary
<1>4. SUBSET B \subseteq P
  <2> HIDE DEF P
  <2> QED BY <1>3, SubsetsByInduction
<1>5. At(B) = D
  OBVIOUS
<1>6. Part(w, D) = SumFunction(w) /\ Part(v, B) = SumFunction(v)
  BY <1>1, PartAll
<1> QED BY <1>4, <1>5, <1>6

(* Two parts that share nothing add up.                                    *)
LEMMA PartUnion ==
  ASSUME NEW S, IsFiniteSet(S), NEW w, w \in [S -> Int],
         NEW T, T \subseteq S, NEW R, R \subseteq S, T \cap R = {}
  PROVE  Part(w, T \cup R) = Part(w, T) + Part(w, R)
<1> DEFINE P == {Q \in SUBSET R : Part(w, T \cup Q) = Part(w, T) + Part(w, Q)}
<1>1. Part(w, T) \in Int
  BY PartStep
<1>2. ASSUME NEW Q \in SUBSET R, \A x \in Q : Q \ {x} \in P
      PROVE  Q \in P
  <2>1. CASE Q = {}
    <3>1. T \cup Q = T /\ Part(w, Q) = 0
      BY <2>1, PartStep
    <3> QED BY <1>1, <3>1
  <2>2. CASE Q # {}
    <3>1. PICK x \in Q : TRUE
      BY <2>2
    <3>2. (T \cup Q) \ {x} = T \cup (Q \ {x}) /\ T \cup Q \subseteq S /\ Q \subseteq S
      BY <3>1
    <3>3. Part(w, T \cup Q) = w[x] + Part(w, (T \cup Q) \ {x})
      BY <3>1, <3>2, PartStep
    <3>4. /\ Part(w, Q) = w[x] + Part(w, Q \ {x})
          /\ w[x] \in Int /\ Part(w, Q \ {x}) \in Int
      BY <3>1, <3>2, PartStep
    <3>5. Part(w, T \cup (Q \ {x})) = Part(w, T) + Part(w, Q \ {x})
      BY <1>2
    <3>6. Part(w, T \cup Q) = w[x] + (Part(w, T) + Part(w, Q \ {x}))
      BY <3>2, <3>3, <3>5, Zenon
    <3>7. Part(w, T \cup Q) = Part(w, T) + Part(w, Q)
      BY ONLY <1>1, <3>4, <3>6
    <3> QED BY <3>7
  <2> QED BY <2>1, <2>2
<1>3. Hereditary(P, R)
  BY <1>2 DEF Hereditary
<1>4. IsFiniteSet(R)
  BY FS_Subset
<1>5. SUBSET R \subseteq P
  <2> HIDE DEF P
  <2> QED BY <1>3, <1>4, SubsetsByInduction
<1> QED BY <1>5

(* A sum taken group by group.                                             *)
LEMMA SumGrouped ==
  ASSUME NEW S, IsFiniteSet(S), NEW w, w \in [S -> Int],
         NEW B, IsFiniteSet(B), NEW k, \A x \in S : k[x] \in B,
         NEW g, g \in [B -> Int], \A b \in B : g[b] = Part(w, {x \in S : k[x] = b})
  PROVE  SumFunction(w) = SumFunction(g)
<1> DEFINE In(T) == {x \in S : k[x] \in T}
           P == {T \in SUBSET B : Part(w, In(T)) = Part(g, T)}
<1>1. ASSUME NEW T \in SUBSET B, \A b \in T : T \ {b} \in P
      PROVE  T \in P
  <2>1. CASE T = {}
    <3>1. In(T) = {}
      BY <2>1
    <3>2. Part(g, T) = 0 /\ Part(w, {}) = 0
      BY <2>1, PartStep
    <3> QED BY <3>1, <3>2
  <2>2. CASE T # {}
    <3>1. PICK b \in T : TRUE
      BY <2>2
    <3> DEFINE one == {x \in S : k[x] = b}
               rest == In(T \ {b})
    <3>2. In(T) = rest \cup one /\ rest \cap one = {} /\ rest \subseteq S /\ one \subseteq S
      BY <3>1
    <3>3. Part(w, rest) = Part(g, T \ {b}) /\ g[b] = Part(w, one)
      BY <1>1
    <3> HIDE DEF one, rest, In
    <3>4. Part(w, In(T)) = Part(w, rest) + Part(w, one)
      BY <3>2, PartUnion
    <3>5. /\ Part(g, T) = g[b] + Part(g, T \ {b})
          /\ g[b] \in Int /\ Part(g, T \ {b}) \in Int
      BY <3>1, PartStep
    <3> QED BY <3>3, <3>4, <3>5
  <2> QED BY <2>1, <2>2
<1>2. Hereditary(P, B)
  BY <1>1 DEF Hereditary
<1>3. SUBSET B \subseteq P
  <2> HIDE DEF P
  <2> QED BY <1>2, SubsetsByInduction
<1>4. In(B) = S
  OBVIOUS
<1>5. Part(w, S) = SumFunction(w) /\ Part(g, B) = SumFunction(g)
  BY PartAll
<1> QED BY <1>3, <1>4, <1>5

(* Errors add up.                                                          *)
LEMMA SumWithin ==
  ASSUME NEW B, IsFiniteSet(B), NEW u, u \in [B -> Int], NEW v, v \in [B -> Int],
         NEW e \in Nat,
         \A b \in B : 2 * (u[b] - v[b]) <= e /\ 2 * (v[b] - u[b]) <= e
  PROVE  /\ 2 * (SumFunction(u) - SumFunction(v)) <= e * Cardinality(B)
         /\ 2 * (SumFunction(v) - SumFunction(u)) <= e * Cardinality(B)
<1> DEFINE Near(p, q, n) == 2 * (p - q) <= e * n /\ 2 * (q - p) <= e * n
           P == {T \in SUBSET B : Near(Part(u, T), Part(v, T), Cardinality(T))}
<1>1. ASSUME NEW T \in SUBSET B, \A b \in T : T \ {b} \in P
      PROVE  T \in P
  <2>1. IsFiniteSet(T)
    BY FS_Subset
  <2>2. CASE T = {}
    <3>1. Part(u, T) = 0 /\ Part(v, T) = 0 /\ Cardinality(T) = 0
      BY <2>2, PartStep, FS_EmptySet
    <3> QED BY <3>1
  <2>3. CASE T # {}
    <3>1. PICK b \in T : TRUE
      BY <2>3
    <3>2. PICK p, q, p0, q0, n0 :
            /\ p = Part(u, T) /\ q = Part(v, T)
            /\ p0 = Part(u, T \ {b}) /\ q0 = Part(v, T \ {b}) /\ n0 = Cardinality(T \ {b})
      OBVIOUS
    <3>3. p = u[b] + p0 /\ u[b] \in Int /\ p0 \in Int
      BY <3>2, PartStep
    <3>4. q = v[b] + q0 /\ v[b] \in Int /\ q0 \in Int
      BY <3>2, PartStep
    <3>5. Cardinality(T) = n0 + 1 /\ n0 \in Nat
      <4>1. IsFiniteSet(T \ {b}) /\ Cardinality(T \ {b}) = Cardinality(T) - 1
        BY <2>1, FS_RemoveElement
      <4>2. Cardinality(T) \in Nat /\ Cardinality(T \ {b}) \in Nat
        BY <2>1, <4>1, FS_CardinalityType
      <4> QED BY <3>2, <4>1, <4>2
    <3>6. Near(p0, q0, n0)
      BY <1>1, <3>2
    <3>7. e * (n0 + 1) = e * n0 + e /\ e * n0 \in Int
      BY <3>5
    <3>8. 2 * (u[b] - v[b]) <= e /\ 2 * (v[b] - u[b]) <= e
      OBVIOUS
    <3>9. PICK m \in Int : m = e * n0
      BY <3>7
    <3>10. 2 * (p0 - q0) <= m /\ 2 * (q0 - p0) <= m
      BY <3>6, <3>9
    <3>11. 2 * (p - q) <= m + e /\ 2 * (q - p) <= m + e
      BY <3>3, <3>4, <3>8, <3>10
    <3>12. Near(p, q, n0 + 1)
      BY <3>7, <3>9, <3>11
    <3> QED BY <3>2, <3>5, <3>12
  <2> QED BY <2>2, <2>3
<1>2. Hereditary(P, B)
  BY <1>1 DEF Hereditary
<1>3. SUBSET B \subseteq P
  <2> HIDE DEF P
  <2> QED BY <1>2, SubsetsByInduction
<1>4. Part(u, B) = SumFunction(u) /\ Part(v, B) = SumFunction(v)
  BY PartAll
<1> QED BY <1>3, <1>4

=============================================================================
