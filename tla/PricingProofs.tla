---------------------------- MODULE PricingProofs ----------------------------
(***************************************************************************)
(* Proofs about a round of pricing: every column that it adds is a stable  *)
(* set of negative reduced cost, and when it returns 0 there is none but   *)
(* those that the clique search may miss.                                  *)
(***************************************************************************)
EXTENDS Pricing, FiniteSetTheorems, SequenceTheorems, WellFoundedInduction, TLAPS

-----------------------------------------------------------------------------
(* Induction and recursion over the subsets of a finite set.               *)

(* A nonempty set of natural numbers has a least element. *)
LEMMA LeastNatural ==
  ASSUME NEW T \in SUBSET Nat, T # {}
  PROVE  \E m \in T : \A k \in T : m <= k
<1>1. PICK x \in T : \A y \in T : ~(<<y, x>> \in OpToRel(<, Nat))
  BY NatLessThanWellFounded, WFMin
<1>2. \A y \in T : ~(y < x)
  BY <1>1 DEF OpToRel
<1>. QED  BY <1>2

(* A set G of subsets has them all if it has every subset that has been    *)
(* reached from smaller ones.                                              *)
LEMMA SubsetInduction ==
  ASSUME NEW D, IsFiniteSet(D), NEW G, {} \in G,
         \A s \in SUBSET D : (\A x \in s : s \ {x} \in G) => s \in G
  PROVE  (SUBSET D) \subseteq G
<1> DEFINE Bad == {Cardinality(s) : s \in (SUBSET D) \ G}
<1>1. \A s \in SUBSET D : IsFiniteSet(s) /\ Cardinality(s) \in Nat
  BY FS_Subset, FS_CardinalityType
<1>2. Bad \in SUBSET Nat
  BY <1>1
<1>3. SUFFICES ASSUME Bad # {} PROVE FALSE
  OBVIOUS
<1>4. PICK m \in Bad : \A k \in Bad : m <= k
  BY <1>2, <1>3, LeastNatural
<1>5. PICK s \in (SUBSET D) \ G : Cardinality(s) = m
  BY <1>4
<1>6. ASSUME NEW x \in s PROVE s \ {x} \in G
  <2>1. s \ {x} \in SUBSET D /\ Cardinality(s \ {x}) = m - 1 /\ m \in Nat
    BY <1>1, <1>5, FS_RemoveElement
  <2>2. s \ {x} \notin G => m - 1 \in Bad
    BY <2>1
  <2>. HIDE DEF Bad
  <2>. QED  BY <1>4, <2>1, <2>2
<1>. QED  BY <1>5, <1>6

(* h is defined on the sets of T by recursion: pick[s] is the element that *)
(* is taken out of s, step[x][c] the value for x and the value c of the    *)
(* other elements.                                                         *)
Recursive(h, T, base, pick, step) ==
  h = [s \in T |-> IF s = {} THEN base ELSE step[pick[s]][h[s \ {pick[s]}]]]

(* Such a function exists on the subsets of a finite set. *)
LEMMA RecursionExists ==
  ASSUME NEW D, IsFiniteSet(D), NEW X, NEW base \in X,
         NEW pick, \A s \in SUBSET D : s # {} => pick[s] \in s,
         NEW step \in [D -> [X -> X]]
  PROVE  \E h \in [SUBSET D -> X] : Recursive(h, SUBSET D, base, pick, step)
<1> DEFINE Upto(n) == {s \in SUBSET D : Cardinality(s) <= n}
           Good(n) == \E h \in [Upto(n) -> X] : Recursive(h, Upto(n), base, pick, step)
           Bad == {n \in Nat : ~Good(n)}
<1>1. \A s \in SUBSET D : IsFiniteSet(s) /\ Cardinality(s) \in Nat
  BY FS_Subset, FS_CardinalityType
<1>2. SUFFICES Bad = {}
  <2>1. Good(Cardinality(D))
    BY <1>1, <1>2
  <2>2. Upto(Cardinality(D)) = SUBSET D
    BY FS_Subset
  <2>. HIDE DEF Upto
  <2>. QED  BY <2>1, <2>2
<1>3. SUFFICES ASSUME Bad # {} PROVE FALSE
  OBVIOUS
<1>4. PICK m \in Bad : \A k \in Bad : m <= k
  BY <1>3, LeastNatural
<1>5. m # 0
  <2>1. Upto(0) = {{}}
    BY <1>1, FS_EmptySet
  <2>2. /\ [s \in {{}} |-> base] \in [{{}} -> X]
        /\ Recursive([s \in {{}} |-> base], {{}}, base, pick, step)
    BY DEF Recursive
  <2>3. Good(0)
    BY ZenonT(60), <2>1, <2>2
  <2>. HIDE DEF Good
  <2>. QED  BY <1>4, <2>3
<1>6. m \in Nat /\ m - 1 \in Nat /\ Good(m - 1)
  <2>1. Bad \subseteq Nat /\ \A n \in Nat : n \notin Bad => Good(n)
    OBVIOUS
  <2>. HIDE DEF Bad, Good
  <2>. QED  BY <1>4, <1>5, <2>1
<1>7. PICK h \in [Upto(m - 1) -> X] : Recursive(h, Upto(m - 1), base, pick, step)
  BY <1>6
<1> DEFINE body(g, s) == IF s = {} THEN base ELSE step[pick[s]][g[s \ {pick[s]}]]
           g == [s \in Upto(m) |-> body(h, s)]
<1>8. \A s \in Upto(m) : s # {} => pick[s] \in D /\ s \ {pick[s]} \in Upto(m - 1)
  <2>1. TAKE s \in Upto(m)
  <2>2. HAVE s # {}
  <2>3. pick[s] \in s /\ Cardinality(s \ {pick[s]}) = Cardinality(s) - 1
    BY SMTT(60), <1>1, <2>2, FS_RemoveElement
  <2>. QED  BY <1>1, <1>6, <2>1, <2>3
<1>9. Upto(m - 1) \subseteq Upto(m)
  BY <1>1, <1>6
<1>. HIDE DEF Upto
<1>10. g \in [Upto(m) -> X]
  BY SMTT(60), <1>7, <1>8
<1>11. \A t \in Upto(m - 1) : g[t] = h[t]
  BY <1>7, <1>9 DEF Recursive
<1>12. \A s \in Upto(m) : body(g, s) = body(h, s)
  <2>. HIDE DEF g
  <2>. QED  BY SMTT(60), <1>8, <1>11
<1>13. g = [s \in Upto(m) |-> body(g, s)]
  <2>1. g = [s \in Upto(m) |-> body(h, s)]
    OBVIOUS
  <2>. HIDE DEF g, body
  <2>. QED  BY <1>12, <2>1
<1>14. Recursive(g, Upto(m), base, pick, step)
  <2>. HIDE DEF g
  <2>. QED  BY <1>13 DEF Recursive
<1>. HIDE DEF g
<1>. QED  BY <1>4, <1>10, <1>14

-----------------------------------------------------------------------------
(* Weights of finite sets, the sums that MapThenSumSet computes.           *)

(* The function that MapThenSumSet recurses with. *)
Summing(h, T, g) ==
  h = [s \in T |-> IF s = {} THEN 0
                   ELSE g[CHOOSE x \in s : TRUE] + h[s \ {CHOOSE x \in s : TRUE}]]

(* It exists on the subsets of a finite set. *)
LEMMA SummingExists ==
  ASSUME NEW D, IsFiniteSet(D), NEW g, \A x \in D : g[x] \in Int
  PROVE  \E h \in [SUBSET D -> Int] : Summing(h, SUBSET D, g)
<1> DEFINE pick == [s \in SUBSET D |-> CHOOSE x \in s : TRUE]
           step == [x \in D |-> [c \in Int |-> g[x] + c]]
<1>1. \A s \in SUBSET D : s # {} => pick[s] \in s /\ pick[s] = CHOOSE x \in s : TRUE
  OBVIOUS
<1>2. step \in [D -> [Int -> Int]] /\ \A x \in D, c \in Int : step[x][c] = g[x] + c
  OBVIOUS
<1>. HIDE DEF pick, step
<1>3. PICK h \in [SUBSET D -> Int] : Recursive(h, SUBSET D, 0, pick, step)
  <2>1. \A s \in SUBSET D : s # {} => pick[s] \in s
    BY <1>1
  <2>2. step \in [D -> [Int -> Int]] /\ 0 \in Int
    BY <1>2
  <2>. QED  BY <2>1, <2>2, RecursionExists, Zenon
<1>4. ASSUME NEW s \in SUBSET D, s # {}
      PROVE  h[s] = g[CHOOSE x \in s : TRUE] + h[s \ {CHOOSE x \in s : TRUE}]
  <2>1. h[s] = step[pick[s]][h[s \ {pick[s]}]]
    BY <1>3, <1>4 DEF Recursive
  <2>2. pick[s] \in D /\ h[s \ {pick[s]}] \in Int
    BY <1>1, <1>3, <1>4
  <2>. QED  BY ZenonT(60), <1>1, <1>2, <1>4, <2>1, <2>2
<1>5. h[{}] = 0
  BY <1>3 DEF Recursive
<1>. QED  BY <1>3, <1>4, <1>5 DEF Summing

(* Whatever set it is asked for, MapThenSumSet follows that function.      *)
LEMMA SumIs ==
  ASSUME NEW D, IsFiniteSet(D), NEW g, NEW h, Summing(h, SUBSET D, g),
         NEW S \in SUBSET D
  PROVE  Weight(g, S) = h[S]
<1> DEFINE k == CHOOSE f : Summing(f, SUBSET S, g)
           G == {s \in SUBSET S : k[s] = h[s]}
<1>1. Weight(g, S) = k[S]
  BY DEF Weight, MapThenSumSet, MapThenFoldSet, Summing
<1>2. Summing(k, SUBSET S, g)
  <2>1. Summing([s \in SUBSET S |-> h[s]], SUBSET S, g)
    BY DEF Summing
  <2>. QED  BY <2>1
<1>. HIDE DEF k
<1>3. {} \in G
  BY <1>2 DEF Summing
<1>4. ASSUME NEW s \in SUBSET S, \A x \in s : s \ {x} \in G
      PROVE  s \in G
  <2>1. CASE s = {}
    BY <1>3, <2>1
  <2>2. CASE s # {}
    BY <1>2, <1>4, <2>2 DEF Summing
  <2>. QED  BY <2>1, <2>2
<1>5. IsFiniteSet(S)
  BY FS_Subset
<1>6. SUBSET S \subseteq G
  <2>. HIDE DEF G
  <2>. QED  BY <1>3, <1>4, <1>5, SubsetInduction
<1>. QED  BY <1>1, <1>6

(* A sum is that of the other elements and any one of them.                *)
LEMMA SumAdd ==
  ASSUME NEW D, IsFiniteSet(D), NEW g, \A x \in D : g[x] \in Int
  PROVE  /\ Weight(g, {}) = 0
         /\ Weight(g, D) \in Int
         /\ \A x \in D : Weight(g, D) = g[x] + Weight(g, D \ {x})
<1>1. PICK h \in [SUBSET D -> Int] : Summing(h, SUBSET D, g)
  BY SummingExists
<1>2. \A S \in SUBSET D : Weight(g, S) = h[S]
  BY <1>1, SumIs
<1> DEFINE G == {s \in SUBSET D : \A x \in s : h[s] = g[x] + h[s \ {x}]}
<1>3. {} \in G
  OBVIOUS
<1>4. ASSUME NEW s \in SUBSET D, \A x \in s : s \ {x} \in G
      PROVE  s \in G
  <2> SUFFICES ASSUME NEW x \in s PROVE h[s] = g[x] + h[s \ {x}]
    OBVIOUS
  <2> DEFINE y == CHOOSE z \in s : TRUE
  <2>1. y \in s /\ h[s] = g[y] + h[s \ {y}]
    BY <1>1 DEF Summing
  <2>. HIDE DEF y
  <2>2. CASE x = y
    BY <2>1, <2>2
  <2>3. CASE x # y
    <3> DEFINE t == s \ {x, y}
    <3>1. (s \ {y}) \ {x} = t /\ (s \ {x}) \ {y} = t /\ t \in SUBSET D
      OBVIOUS
    <3>2. x \in s \ {y} /\ y \in s \ {x} /\ s \ {y} \in G /\ s \ {x} \in G
      BY <1>4, <2>1, <2>3
    <3>. HIDE DEF t
    <3>3. h[s \ {y}] = g[x] + h[t] /\ h[s \ {x}] = g[y] + h[t]
      BY <3>1, <3>2
    <3>4. g[x] \in Int /\ g[y] \in Int /\ h[t] \in Int
      BY <1>1, <2>1, <3>1
    <3>. HIDE DEF G
    <3>. QED  BY <2>1, <3>3, <3>4
  <2>. QED  BY <2>2, <2>3
<1>5. D \in G
  <2>. HIDE DEF G
  <2>. QED  BY <1>3, <1>4, SubsetInduction
<1>6. h[{}] = 0 /\ h[D] \in Int
  BY <1>1 DEF Summing
<1>7. \A x \in D : h[D] = g[x] + h[D \ {x}]
  BY <1>5
<1>. HIDE DEF G
<1>8. ASSUME NEW x \in D PROVE Weight(g, D \ {x}) = h[D \ {x}]
  BY <1>2
<1>. QED  BY <1>2, <1>6, <1>7, <1>8

(* What is not negative adds up.                                           *)
LEMMA SumGrows ==
  ASSUME NEW D, IsFiniteSet(D), NEW g, \A x \in D : g[x] \in Nat
  PROVE  \A S \in SUBSET D : 0 <= Weight(g, S) /\ Weight(g, S) <= Weight(g, D)
<1> DEFINE G == {s \in SUBSET D : 0 <= Weight(g, s) /\ \A S \in SUBSET s : Weight(g, S) <= Weight(g, s)}
<1>1. /\ Weight(g, {}) = 0
      /\ \A s \in SUBSET D : Weight(g, s) \in Int /\ \A x \in s : Weight(g, s) = g[x] + Weight(g, s \ {x})
  <2>1. \A s \in SUBSET D : IsFiniteSet(s) /\ \A x \in s : g[x] \in Int
    BY FS_Subset
  <2>. QED  BY <2>1, SumAdd
<1>2. {} \in G
  BY <1>1
<1>3. ASSUME NEW s \in SUBSET D, \A x \in s : s \ {x} \in G
      PROVE  s \in G
  <2>1. ASSUME NEW x \in s
        PROVE  Weight(g, s \ {x}) <= Weight(g, s) /\ 0 <= Weight(g, s \ {x})
    <3>1. Weight(g, s \ {x}) \in Int /\ Weight(g, s) \in Int /\ g[x] \in Nat
          /\ Weight(g, s) = g[x] + Weight(g, s \ {x})
      BY <1>1
    <3>2. 0 <= Weight(g, s \ {x})
      BY <1>3
    <3>. QED  BY <3>1, <3>2
  <2>2. 0 <= Weight(g, s)
    <3>1. CASE s = {}
      BY <1>1, <3>1
    <3>2. CASE s # {}
      <4>1. PICK x \in s : TRUE
        BY <3>2
      <4>2. Weight(g, s \ {x}) \in Int /\ Weight(g, s) \in Int
        BY <1>1
      <4>. QED  BY <2>1, <4>2
    <3>. QED  BY <3>1, <3>2
  <2>3. ASSUME NEW S \in SUBSET s PROVE Weight(g, S) <= Weight(g, s)
    <3>1. CASE S = s
      BY <1>1, <3>1
    <3>2. CASE S # s
      <4>1. PICK x \in s : x \notin S
        BY <3>2
      <4>2. S \in SUBSET (s \ {x}) /\ s \ {x} \in G
        BY <1>3, <4>1
      <4>3. Weight(g, S) <= Weight(g, s \ {x})
        BY <4>2
      <4>4. Weight(g, S) \in Int /\ Weight(g, s \ {x}) \in Int /\ Weight(g, s) \in Int
        BY <1>1
      <4>. QED  BY <2>1, <4>3, <4>4
    <3>. QED  BY <3>1, <3>2
  <2>. QED  BY <2>2, <2>3
<1>4. D \in G
  <2>. HIDE DEF G
  <2>. QED  BY <1>2, <1>3, SubsetInduction
<1>5. \A S \in SUBSET D : S \in G
  <2>1. SUBSET D \subseteq G
    <3>. HIDE DEF G
    <3>. QED  BY <1>2, <1>3, SubsetInduction
  <2>. QED  BY <2>1
<1>. QED  BY <1>4, <1>5

(* The image of a finite set is finite. *)
LEMMA ImageIsFinite ==
  ASSUME NEW D, IsFiniteSet(D), NEW f
  PROVE  IsFiniteSet({f[v] : v \in D})
<1> DEFINE Im(s) == {f[v] : v \in s}
           G == {s \in SUBSET D : IsFiniteSet(Im(s))}
<1>1. {} \in G
  <2>1. Im({}) = {}
    OBVIOUS
  <2>. QED  BY <2>1, FS_EmptySet
<1>2. ASSUME NEW s \in SUBSET D, \A x \in s : s \ {x} \in G
      PROVE  s \in G
  <2>1. CASE s = {}
    BY <1>1, <2>1
  <2>2. CASE s # {}
    <3>1. PICK v \in s : TRUE
      BY <2>2
    <3>2. Im(s) = Im(s \ {v}) \cup {f[v]}
      OBVIOUS
    <3>3. IsFiniteSet(Im(s \ {v}))
      BY <1>2
    <3>. HIDE DEF Im
    <3>. QED  BY <3>2, <3>3, FS_AddElement
  <2>. QED  BY <2>1, <2>2
<1>3. D \in G
  <2>. HIDE DEF G
  <2>. QED  BY <1>1, <1>2, SubsetInduction
<1>. QED  BY <1>3

(* The parts of a set of vertices weigh no more than its vertices do.      *)
LEMMA SumOfParts ==
  ASSUME NEW D, IsFiniteSet(D), NEW f, NEW g, \A v \in D : g[f[v]] \in Nat,
         NEW w, \A v \in D : w[v] = g[f[v]]
  PROVE  Weight(g, {f[v] : v \in D}) <= Weight(w, D)
<1> DEFINE Im(s) == {f[v] : v \in s}
           G == {s \in SUBSET D : Weight(g, Im(s)) <= Weight(w, s)}
<1>1. \A s \in SUBSET D : IsFiniteSet(s) /\ IsFiniteSet(Im(s)) /\ \A i \in Im(s) : g[i] \in Int
  <2>1. TAKE s \in SUBSET D
  <2>2. IsFiniteSet(s)
    BY FS_Subset
  <2>3. IsFiniteSet(Im(s))
    BY <2>2, ImageIsFinite
  <2>. QED  BY <2>2, <2>3
<1>2. ASSUME NEW s \in SUBSET D
      PROVE  /\ Weight(w, {}) = 0 /\ Weight(w, s) \in Int
             /\ \A v \in s : Weight(w, s) = w[v] + Weight(w, s \ {v})
             /\ Weight(g, {}) = 0 /\ Weight(g, Im(s)) \in Int
             /\ \A i \in Im(s) : Weight(g, Im(s)) = g[i] + Weight(g, Im(s) \ {i})
  <2>1. \A v \in s : w[v] \in Int
    OBVIOUS
  <2>. HIDE DEF Im
  <2>2. IsFiniteSet(s) /\ IsFiniteSet(Im(s)) /\ \A i \in Im(s) : g[i] \in Int
    BY <1>1
  <2>. QED  BY <2>1, <2>2, SumAdd
<1>3. {} \in G
  <2>1. Im({}) = {}
    OBVIOUS
  <2>. HIDE DEF Im
  <2>. QED  BY <1>2, <2>1
<1>4. ASSUME NEW s \in SUBSET D, \A x \in s : s \ {x} \in G
      PROVE  s \in G
  <2>1. CASE s = {}
    BY <1>3, <2>1
  <2>2. CASE s # {}
    <3>1. PICK v \in s : TRUE
      BY <2>2
    <3>2. /\ Weight(g, Im(s \ {v})) <= Weight(w, s \ {v})
          /\ Weight(w, s) = w[v] + Weight(w, s \ {v})
      BY <1>2, <1>4, <3>1
    <3>3. /\ Weight(w, s) \in Int /\ Weight(w, s \ {v}) \in Int /\ w[v] \in Nat
          /\ Weight(g, Im(s)) \in Int /\ Weight(g, Im(s \ {v})) \in Int /\ w[v] = g[f[v]]
      BY <1>2
    <3>4. CASE f[v] \in Im(s \ {v})
      <4>1. Im(s) = Im(s \ {v})
        BY <3>4
      <4>. HIDE DEF Im
      <4>. QED  BY <3>2, <3>3, <4>1
    <3>5. CASE f[v] \notin Im(s \ {v})
      <4>1. Im(s) \ {f[v]} = Im(s \ {v}) /\ f[v] \in Im(s)
        BY <3>5
      <4>. HIDE DEF Im
      <4>2. Weight(g, Im(s)) = g[f[v]] + Weight(g, Im(s \ {v}))
        BY ZenonT(60), <1>2, <4>1
      <4>. QED  BY <3>2, <3>3, <4>2
    <3>. QED  BY <3>4, <3>5
  <2>. QED  BY <2>1, <2>2
<1>5. D \in G
  <2>. HIDE DEF G
  <2>. QED  BY <1>3, <1>4, SubsetInduction
<1>. QED  BY <1>5

-----------------------------------------------------------------------------
(* Sets in order.                                                          *)

(* A finite set that R orders totally can be listed in that order.         *)
LEMMA OrderExists ==
  ASSUME NEW S, IsFiniteSet(S), NEW R,
         \A a, b \in S : a # b => <<a, b>> \in R \/ <<b, a>> \in R,
         \A a, b, c \in S : <<a, b>> \in R /\ <<b, c>> \in R => <<a, c>> \in R
  PROVE  \E s \in [1 .. Cardinality(S) -> S] :
           \A i, j \in 1 .. Cardinality(S) : i < j => <<s[i], s[j]>> \in R
<1> DEFINE Latest(t) == {m \in t : \A a \in t \ {m} : <<a, m>> \in R}
           G == {t \in SUBSET S : t = {} \/ Latest(t) # {}}
           Ordered(s, t) == /\ s \in [1 .. Cardinality(t) -> t]
                            /\ \A i, j \in 1 .. Cardinality(t) : i < j => <<s[i], s[j]>> \in R
           H == {t \in SUBSET S : \E s : Ordered(s, t)}
<1>1. {} \in G
  OBVIOUS
<1>2. ASSUME NEW t \in SUBSET S, \A x \in t : t \ {x} \in G
      PROVE  t \in G
  <2>1. SUFFICES ASSUME NEW x \in t PROVE Latest(t) # {}
    OBVIOUS
  <2>2. CASE t \ {x} = {}
    BY <2>2
  <2>3. CASE t \ {x} # {}
    <3>1. PICK m \in t \ {x} : \A a \in (t \ {x}) \ {m} : <<a, m>> \in R
      BY <1>2, <2>3
    <3>2. CASE <<x, m>> \in R
      BY <3>1, <3>2
    <3>3. CASE <<m, x>> \in R
      <4>1. \A a \in t \ {x} : <<a, x>> \in R
        BY <3>1, <3>3
      <4>. QED  BY <4>1
    <3>. QED  BY <3>1, <3>2, <3>3
  <2>. QED  BY <2>2, <2>3
<1>3. SUBSET S \subseteq G
  <2>. HIDE DEF G
  <2>. QED  BY <1>1, <1>2, SubsetInduction
<1>4. {} \in H
  <2>1. Cardinality({}) = 0 /\ 1 .. 0 = {}
    BY FS_EmptySet
  <2>2. Ordered([i \in {} |-> i], {})
    BY <2>1
  <2>. QED  BY <2>2
<1>5. ASSUME NEW t \in SUBSET S, \A x \in t : t \ {x} \in H
      PROVE  t \in H
  <2>1. CASE t = {}
    BY <1>4, <2>1
  <2>2. CASE t # {}
    <3>1. PICK m \in t : \A a \in t \ {m} : <<a, m>> \in R
      BY <1>3, <2>2
    <3>2. PICK s : Ordered(s, t \ {m})
      BY <1>5, <3>1
    <3> DEFINE n == Cardinality(t)
               r == [i \in 1 .. n |-> IF i = n THEN m ELSE s[i]]
    <3>3. n \in Nat \ {0} /\ Cardinality(t \ {m}) = n - 1
      <4>1. IsFiniteSet(t)
        BY FS_Subset
      <4>. QED  BY <3>1, <4>1, FS_RemoveElement, FS_CardinalityType, FS_EmptySet
    <3>. HIDE DEF n
    <3>4. \A i \in 1 .. n : i # n => i \in 1 .. n - 1 /\ s[i] \in t \ {m}
      <4>1. s \in [1 .. n - 1 -> t \ {m}]
        BY <3>2, <3>3
      <4>2. \A i \in 1 .. n : i # n => i \in 1 .. n - 1
        BY <3>3
      <4>. QED  BY <4>1, <4>2
    <3>5. r \in [1 .. n -> t]
      BY <3>1, <3>4
    <3>6. ASSUME NEW i \in 1 .. n, NEW j \in 1 .. n, i < j
          PROVE  <<r[i], r[j]>> \in R
      <4>1. i # n /\ i \in 1 .. n - 1 /\ s[i] \in t \ {m} /\ r[i] = s[i]
        BY <3>3, <3>4, <3>6
      <4>2. CASE j = n
        BY <3>1, <4>1, <4>2
      <4>3. CASE j # n
        BY <3>2, <3>3, <3>4, <3>6, <4>1, <4>3
      <4>. QED  BY <4>2, <4>3
    <3>. HIDE DEF r
    <3>7. Ordered(r, t)
      BY <3>5, <3>6 DEF n
    <3>. QED  BY <3>7
  <2>. QED  BY <2>1, <2>2
<1>6. S \in H
  <2>. HIDE DEF H
  <2>. QED  BY <1>4, <1>5, SubsetInduction
<1>. QED  BY <1>6

(* SetToSeq lists a finite set. *)
LEMMA SetToSeqIs ==
  ASSUME NEW S, IsFiniteSet(S)
  PROVE  /\ Cardinality(S) \in Nat
         /\ SetToSeq(S) \in [1 .. Cardinality(S) -> S]
<1>1. /\ Cardinality(S) \in Nat
      /\ ExistsBijection(1 .. Cardinality(S), S)
  <2>1. PICK n \in Nat : ExistsBijection(1 .. n, S)
    BY FS_NatBijection
  <2>2. Cardinality(S) = n
    BY <2>1, FS_CountingElements
  <2>. QED  BY <2>1, <2>2
<1>2. PICK f \in [1 .. Cardinality(S) -> S] : IsInjective(f)
  BY <1>1 DEF ExistsBijection, Bijection, Injection, IsInjective
<1>. QED  BY <1>1, <1>2 DEF SetToSeq

-----------------------------------------------------------------------------
(* The instance of the node.                                               *)

(* What the assumption on the instances says of the one that is priced. *)
LEMMA InstanceFacts ==
  ASSUME inst \in Instances
  PROVE  /\ IsFiniteSet(V) /\ V \subseteq Nat /\ DOMAIN inst.mu \subseteq Nat
         /\ inst.p \in [V -> DOMAIN inst.gamma] /\ inst.q \in [V -> DOMAIN inst.mu]
         /\ inst.gamma \in [DOMAIN inst.gamma -> Nat] /\ inst.mu \in [DOMAIN inst.mu -> Nat]
         /\ inst.pool \in Seq(SUBSET V)
         /\ \A i \in 1 .. Len(inst.pool) : inst.pool[i] \in StableSetsOf(V)
         /\ \A u, v \in V : Adjacent(u, v) => Adjacent(v, u) /\ u # v
<1>1. /\ IsFiniteSet(V) /\ V \subseteq Nat /\ DOMAIN inst.mu \subseteq Nat
      /\ inst.p \in [V -> DOMAIN inst.gamma] /\ inst.q \in [V -> DOMAIN inst.mu]
      /\ inst.gamma \in [DOMAIN inst.gamma -> Nat] /\ inst.mu \in [DOMAIN inst.mu -> Nat]
      /\ inst.pool \in Seq(SUBSET V)
  BY PricingAssumption DEF V
<1>2. ASSUME NEW i \in 1 .. Len(inst.pool) PROVE inst.pool[i] \in StableSetsOf(V)
  <2>1. inst.pool[i] \in SUBSET V /\ inst.pool[i] \in Range(inst.pool)
    BY <1>1 DEF Range
  <2>2. \A S \in Range(inst.pool) : \A u, v \in S : {u, v} \notin inst.E
    BY PricingAssumption
  <2>. QED  BY <2>1, <2>2 DEF StableSetsOf, IsStable, Adjacent
<1>3. ASSUME NEW u \in V, NEW v \in V, Adjacent(u, v) PROVE Adjacent(v, u) /\ u # v
  <2>1. {u, v} = {v, u}
    OBVIOUS
  <2>2. Adjacent(v, u)
    BY <1>3, <2>1 DEF Adjacent
  <2>3. Cardinality({u, v}) = 2
    BY <1>3, PricingAssumption DEF Adjacent
  <2>4. u # v
    <3>1. SUFFICES ASSUME u = v PROVE FALSE
      OBVIOUS
    <3>2. {u, v} = {u}
      BY <3>1
    <3>3. Cardinality({u}) = 1
      BY FS_Singleton
    <3>. QED  BY <2>3, <3>2, <3>3
  <2>. QED  BY <2>2, <2>4
<1>. QED  BY <1>1, <1>2, <1>3

(* The columns of the instance, and those that are worth what their cost   *)
(* says or more.                                                           *)
Columns ==
  [stable : SUBSET V, ps : SUBSET DOMAIN inst.gamma, qs : SUBSET DOMAIN inst.mu, cost : Int]

Matches(c) == IsStable(c.stable) /\ c.ps = PartsP(c.stable) /\ c.qs = PartsQ(c.stable)

WorthAtLeast(least) ==
  {c \in Columns : Matches(c) /\ least < c.cost /\ c.cost <= Value(c.ps, c.qs)}

Worthies == WorthAtLeast(One)

(* No stable set has negative reduced cost. *)
Cheap == \A S \in StableSetsOf(V) : ColumnOf(S).cost <= One

(* What is said of the instance stays so. *)
LEMMA InstanceKept ==
  ASSUME inst' = inst
  PROVE  Worthies' = Worthies /\ Cheap' = Cheap
<1>1. \A ps, qs : Value(ps, qs)' = Value(ps, qs)
  BY DEF Value
<1>2. V' = V /\ \A S : IsStable(S)' = IsStable(S) /\ PartsP(S)' = PartsP(S) /\ PartsQ(S)' = PartsQ(S)
  BY DEF V, IsStable, Adjacent, PartsP, PartsQ
<1>3. Columns' = Columns
  BY <1>2 DEF Columns
<1>4. \A c : Matches(c)' = Matches(c)
  BY <1>2 DEF Matches
<1>5. Worthies' = Worthies
  BY <1>1, <1>3, <1>4 DEF Worthies, WorthAtLeast
<1>6. \A S : ColumnOf(S)' = ColumnOf(S)
  BY <1>1, <1>2 DEF ColumnOf, Column
<1>7. StableSetsOf(V)' = StableSetsOf(V)
  BY <1>2 DEF StableSetsOf
<1>8. Cheap' = Cheap
  BY <1>6, <1>7 DEF Cheap
<1>. QED  BY <1>5, <1>8

(* The parts of a set of vertices are finitely many. *)
LEMMA PartsFacts ==
  ASSUME inst \in Instances
  PROVE  \A S \in SUBSET V :
           /\ IsFiniteSet(S)
           /\ PartsP(S) \in SUBSET DOMAIN inst.gamma /\ IsFiniteSet(PartsP(S))
           /\ PartsQ(S) \in SUBSET DOMAIN inst.mu /\ IsFiniteSet(PartsQ(S))
<1>1. TAKE S \in SUBSET V
<1>2. IsFiniteSet(S)
  BY InstanceFacts, FS_Subset
<1>3. IsFiniteSet(PartsP(S)) /\ IsFiniteSet(PartsQ(S))
  BY <1>2, ImageIsFinite DEF PartsP, PartsQ
<1>. QED  BY <1>2, <1>3, InstanceFacts DEF PartsP, PartsQ

(* What a part more, or fewer Q-parts, change in the value. *)
LEMMA ValueFacts ==
  ASSUME inst \in Instances,
         NEW ps \in SUBSET DOMAIN inst.gamma, IsFiniteSet(ps),
         NEW qs \in SUBSET DOMAIN inst.mu, IsFiniteSet(qs)
  PROVE  /\ Value(ps, qs) \in Int
         /\ \A i \in (DOMAIN inst.gamma) \ ps :
              Value(ps \cup {i}, qs) = Value(ps, qs) + inst.gamma[i]
         /\ \A j \in (DOMAIN inst.mu) \ qs :
              Value(ps, qs \cup {j}) = Value(ps, qs) - inst.mu[j]
         /\ \A r \in SUBSET qs : Value(ps, qs) <= Value(ps, r)
<1>1. /\ \A i \in DOMAIN inst.gamma : inst.gamma[i] \in Nat
      /\ \A j \in DOMAIN inst.mu : inst.mu[j] \in Nat
  BY InstanceFacts
<1>2. Weight(inst.gamma, ps) \in Int /\ Weight(inst.mu, qs) \in Int
  <2>1. /\ \A i \in ps : inst.gamma[i] \in Int
        /\ \A j \in qs : inst.mu[j] \in Int
    BY <1>1
  <2>. QED  BY <2>1, SumAdd
<1>3. ASSUME NEW i \in (DOMAIN inst.gamma) \ ps
      PROVE  Weight(inst.gamma, ps \cup {i}) = Weight(inst.gamma, ps) + inst.gamma[i]
  <2>1. IsFiniteSet(ps \cup {i}) /\ \A x \in ps \cup {i} : inst.gamma[x] \in Int
    BY <1>1, FS_AddElement
  <2>2. Weight(inst.gamma, ps \cup {i}) = inst.gamma[i] + Weight(inst.gamma, (ps \cup {i}) \ {i})
    BY <2>1, SumAdd
  <2>3. (ps \cup {i}) \ {i} = ps
    OBVIOUS
  <2>. QED  BY <1>1, <1>2, <2>2, <2>3
<1>4. ASSUME NEW j \in (DOMAIN inst.mu) \ qs
      PROVE  Weight(inst.mu, qs \cup {j}) = Weight(inst.mu, qs) + inst.mu[j]
  <2>1. IsFiniteSet(qs \cup {j}) /\ \A x \in qs \cup {j} : inst.mu[x] \in Int
    BY <1>1, FS_AddElement
  <2>2. Weight(inst.mu, qs \cup {j}) = inst.mu[j] + Weight(inst.mu, (qs \cup {j}) \ {j})
    BY <2>1, SumAdd
  <2>3. (qs \cup {j}) \ {j} = qs
    OBVIOUS
  <2>. QED  BY <1>1, <1>2, <2>2, <2>3
<1>5. ASSUME NEW r \in SUBSET qs
      PROVE  Weight(inst.mu, r) <= Weight(inst.mu, qs) /\ Weight(inst.mu, r) \in Int
  <2>1. \A j \in qs : inst.mu[j] \in Nat
    BY <1>1
  <2>2. Weight(inst.mu, r) <= Weight(inst.mu, qs)
    BY <2>1, SumGrows
  <2>3. IsFiniteSet(r) /\ \A j \in r : inst.mu[j] \in Int
    BY <2>1, FS_Subset
  <2>. QED  BY <2>2, <2>3, SumAdd
<1>6. ASSUME NEW j \in (DOMAIN inst.mu) \ qs
      PROVE  Value(ps, qs \cup {j}) = Value(ps, qs) - inst.mu[j]
  BY <1>1, <1>2, <1>4 DEF Value
<1>7. ASSUME NEW i \in (DOMAIN inst.gamma) \ ps
      PROVE  Value(ps \cup {i}, qs) = Value(ps, qs) + inst.gamma[i]
  BY <1>1, <1>2, <1>3 DEF Value
<1>8. ASSUME NEW r \in SUBSET qs
      PROVE  Value(ps, qs) <= Value(ps, r)
  BY <1>2, <1>5 DEF Value
<1>9. Value(ps, qs) \in Int
  BY <1>2 DEF Value
<1>. QED  BY <1>6, <1>7, <1>8, <1>9

(* A stable set is a column that is worth its cost. *)
LEMMA ColumnOfFits ==
  ASSUME inst \in Instances, NEW S \in StableSetsOf(V)
  PROVE  /\ ColumnOf(S) \in Columns /\ Matches(ColumnOf(S))
         /\ ColumnOf(S).cost = Value(PartsP(S), PartsQ(S))
         /\ ColumnOf(S).ps = PartsP(S) /\ ColumnOf(S).qs = PartsQ(S)
<1>1. S \in SUBSET V /\ IsStable(S)
  BY DEF StableSetsOf
<1>2. Value(PartsP(S), PartsQ(S)) \in Int
  BY <1>1, PartsFacts, ValueFacts
<1>. QED  BY <1>1, <1>2, PartsFacts DEF ColumnOf, Column, Columns, Matches

-----------------------------------------------------------------------------
(* What proves that no stable set has negative reduced cost.               *)

(* A stable set is worth no more than its P-parts, and these no more than  *)
(* its vertices.                                                           *)
LEMMA CostBounded ==
  ASSUME inst \in Instances, NEW T \in StableSetsOf(V)
  PROVE  /\ Weight(weightsP, T) \in Int /\ ColumnOf(T).cost \in Int
         /\ ColumnOf(T).cost <= Weight(weightsP, T)
<1>1. T \in SUBSET V
  BY DEF StableSetsOf
<1>2. \A v \in V : weightsP[v] = inst.gamma[inst.p[v]] /\ inst.gamma[inst.p[v]] \in Nat
  BY InstanceFacts DEF weightsP
<1>3. Weight(inst.gamma, PartsP(T)) <= Weight(weightsP, T)
  <2>1. IsFiniteSet(T)
    BY <1>1, PartsFacts
  <2>2. \A v \in T : inst.gamma[inst.p[v]] \in Nat /\ weightsP[v] = inst.gamma[inst.p[v]]
    BY <1>1, <1>2
  <2>3. Weight(inst.gamma, {inst.p[v] : v \in T}) <= Weight(weightsP, T)
    BY <2>1, <2>2, SumOfParts
  <2>. QED  BY <2>3 DEF PartsP
<1>4. 0 <= Weight(inst.mu, PartsQ(T)) /\ Weight(inst.mu, PartsQ(T)) \in Int
  <2>1. IsFiniteSet(PartsQ(T)) /\ \A j \in PartsQ(T) : inst.mu[j] \in Nat
    BY <1>1, PartsFacts, InstanceFacts
  <2>2. 0 <= Weight(inst.mu, PartsQ(T))
    BY <2>1, SumGrows
  <2>3. Weight(inst.mu, PartsQ(T)) \in Int
    BY <2>1, SumAdd
  <2>. QED  BY <2>2, <2>3
<1>5. Weight(weightsP, T) \in Int
  <2>1. IsFiniteSet(T)
    BY <1>1, PartsFacts
  <2>2. \A v \in T : weightsP[v] \in Int
    BY <1>1, <1>2
  <2>. QED  BY <2>1, <2>2, SumAdd
<1>6. Weight(inst.gamma, PartsP(T)) \in Int
  <2>1. IsFiniteSet(PartsP(T)) /\ \A i \in PartsP(T) : inst.gamma[i] \in Int
    BY <1>1, PartsFacts, InstanceFacts
  <2>. QED  BY <2>1, SumAdd
<1>7. ColumnOf(T).cost = Weight(inst.gamma, PartsP(T)) - Weight(inst.mu, PartsQ(T))
  BY ColumnOfFits DEF Value
<1>. QED  BY <1>3, <1>4, <1>5, <1>6, <1>7

(* A heaviest set, were its Q-parts free, that is not worth adding does. *)
LEMMA HeaviestProves ==
  ASSUME inst \in Instances, NEW S \in Heaviest(V, weightsP), PProves(S)
  PROVE  Cheap
<1> SUFFICES ASSUME NEW T \in StableSetsOf(V)
             PROVE  ColumnOf(T).cost <= One
  BY DEF Cheap
<1>1. S \in StableSetsOf(V)
  BY DEF Heaviest
<1>2. Weight(weightsP, T) <= Weight(weightsP, S) /\ Weight(weightsP, S) <= One
  BY DEF Heaviest, PProves
<1>3. Weight(weightsP, S) \in Int
  BY <1>1, CostBounded
<1>4. /\ Weight(weightsP, T) \in Int /\ ColumnOf(T).cost \in Int
      /\ ColumnOf(T).cost <= Weight(weightsP, T)
  BY CostBounded
<1>5. One \in Int
  BY PricingAssumption
<1>. QED  BY <1>2, <1>3, <1>4, <1>5

(* Vertices without weight add nothing. *)
LEMMA WeightOfWeighted ==
  ASSUME NEW D, IsFiniteSet(D), NEW g, \A x \in D : g[x] \in Nat
  PROVE  Weight(g, Weighted(D, g)) = Weight(g, D)
<1> DEFINE G == {s \in SUBSET D : Weight(g, Weighted(s, g)) = Weight(g, s)}
<1>1. \A s \in SUBSET D : IsFiniteSet(s) /\ \A x \in s : g[x] \in Int
  BY FS_Subset
<1>2. \A s \in SUBSET D : Weight(g, s) \in Int /\ \A x \in s : Weight(g, s) = g[x] + Weight(g, s \ {x})
  BY <1>1, SumAdd
<1>3. {} \in G
  BY DEF Weighted
<1>4. ASSUME NEW s \in SUBSET D, \A x \in s : s \ {x} \in G
      PROVE  s \in G
  <2>1. CASE s = {}
    BY <1>3, <2>1
  <2>2. CASE s # {}
    <3>1. PICK x \in s : TRUE
      BY <2>2
    <3> DEFINE t == s \ {x}
    <3>2. Weight(g, Weighted(t, g)) = Weight(g, t) /\ t \in SUBSET D
      BY <1>4, <3>1
    <3>3. Weight(g, s) = g[x] + Weight(g, t) /\ Weight(g, t) \in Int /\ g[x] \in Nat
      BY <1>2, <3>1, <3>2
    <3>4. CASE g[x] > 0
      <4>1. x \in Weighted(s, g) /\ Weighted(s, g) \in SUBSET D
        BY <3>1, <3>4 DEF Weighted
      <4>2. Weighted(s, g) \ {x} = Weighted(t, g)
        BY DEF Weighted
      <4>3. Weight(g, Weighted(s, g)) = g[x] + Weight(g, Weighted(t, g))
        BY <1>2, <4>1, <4>2
      <4>. QED  BY <3>2, <3>3, <4>3
    <3>5. CASE ~(g[x] > 0)
      <4>1. Weighted(s, g) = Weighted(t, g)
        BY <3>5 DEF Weighted
      <4>2. Weight(g, s) = Weight(g, t)
        BY <3>3, <3>5
      <4>. QED  BY <3>2, <4>1, <4>2
    <3>. QED  BY <3>4, <3>5
  <2>. QED  BY <2>1, <2>2
<1>5. D \in G
  <2>. HIDE DEF G
  <2>. QED  BY <1>3, <1>4, SubsetInduction
<1>. QED  BY <1>5

(* What the clique search returns proves it for all sets but those with a  *)
(* single vertex that has weight.                                          *)
LEMMA CliquesProve ==
  ASSUME inst \in Instances, NEW S \in CliqueAnswers(V, weightsP), PProves(S),
         NEW T \in StableSetsOf(V), Cardinality(Weighted(T, weightsP)) # 1
  PROVE  ColumnOf(T).cost <= One
<1> DEFINE W == Weighted(T, weightsP)
           stable == StableSetsOf(Weighted(V, weightsP)) \ {{}}
           several == {R \in stable : Cardinality(R) > 1}
           sets == IF several = {} THEN stable ELSE several
<1>1. T \in SUBSET V /\ IsStable(T) /\ IsFiniteSet(T) /\ \A v \in T : weightsP[v] \in Nat
  BY PartsFacts, InstanceFacts DEF StableSetsOf, weightsP
<1>2. Weight(weightsP, W) = Weight(weightsP, T)
  BY <1>1, WeightOfWeighted
<1>3. W \in StableSetsOf(Weighted(V, weightsP)) /\ W \in StableSetsOf(V)
  BY <1>1 DEF Weighted, StableSetsOf, IsStable
<1>4. IsFiniteSet(W) /\ Cardinality(W) \in Nat /\ Cardinality(W) # 1
  <2>1. W \in SUBSET T
    BY DEF Weighted
  <2>. QED  BY <1>1, <2>1, FS_Subset, FS_CardinalityType
<1>5. S \in sets /\ \A R \in sets : Weight(weightsP, R) <= Weight(weightsP, S)
  BY DEF CliqueAnswers
<1>6. S \in StableSetsOf(V)
  <2>1. S \in StableSetsOf(Weighted(V, weightsP))
    BY <1>5
  <2>. QED  BY <2>1 DEF StableSetsOf, Weighted
<1>7. Weight(weightsP, S) <= One /\ Weight(weightsP, S) \in Int /\ One \in Nat
  BY <1>6, CostBounded, PricingAssumption DEF PProves
<1>8. /\ Weight(weightsP, T) \in Int /\ ColumnOf(T).cost \in Int
      /\ ColumnOf(T).cost <= Weight(weightsP, T)
  BY CostBounded
<1>9. CASE W = {}
  <2>1. Weight(weightsP, {}) = 0
    BY <1>1, SumAdd
  <2>. HIDE DEF W
  <2>. QED  BY <1>2, <1>7, <1>8, <1>9, <2>1
<1>10. CASE W # {}
  <2>1. Cardinality(W) > 1
    <3>1. Cardinality(W) # 0
      BY <1>4, <1>10, FS_EmptySet
    <3>. HIDE DEF W
    <3>. QED  BY <1>4, <3>1
  <2>2. W \in several
    BY <1>3, <1>10, <2>1
  <2>3. W \in sets
    BY <2>2
  <2>4. Weight(weightsP, W) <= Weight(weightsP, S)
    BY <1>5, <2>3
  <2>. HIDE DEF W
  <2>. QED  BY <1>2, <1>7, <1>8, <2>4
<1>. QED  BY <1>9, <1>10

(* So does an optimal point that is not: a stable set with one vertex of   *)
(* each of its P-parts is a point, of the same value.                      *)
LEMMA OptimalProves ==
  ASSUME inst \in Instances, NEW x \in OptimalPoints, Objective(x) <= One
  PROVE  Cheap
<1> SUFFICES ASSUME NEW T \in StableSetsOf(V)
             PROVE  ColumnOf(T).cost <= One
  BY DEF Cheap
<1> DEFINE rep(i) == CHOOSE v \in T : inst.p[v] = i
           U == {rep(i) : i \in PartsP(T)}
           y == [S |-> U, w |-> PartsQ(T)]
<1>1. T \in SUBSET V /\ IsStable(T)
  BY DEF StableSetsOf
<1>2. \A i \in PartsP(T) : rep(i) \in T /\ inst.p[rep(i)] = i
  BY DEF PartsP
<1>. HIDE DEF rep
<1>3. U \in SUBSET T /\ PartsP(U) = PartsP(T)
  <2>1. PartsP(U) \subseteq PartsP(T)
    BY <1>2 DEF PartsP
  <2>2. ASSUME NEW i \in PartsP(T) PROVE i \in PartsP(U)
    <3>1. rep(i) \in U /\ inst.p[rep(i)] = i
      BY <1>2
    <3>. HIDE DEF U
    <3>. QED  BY <3>1 DEF PartsP
  <2>. QED  BY <1>2, <2>1, <2>2
<1>4. \A u, v \in U : u # v => inst.p[u] # inst.p[v]
  BY <1>2
<1>. HIDE DEF U
<1>5. U \in StableSetsOf(V)
  BY <1>1, <1>3 DEF StableSetsOf, IsStable
<1>6. /\ PartsQ(U) \subseteq PartsQ(T)
      /\ PartsQ(T) \in SUBSET {inst.q[v] : v \in V}
  BY <1>1, <1>3 DEF PartsQ
<1>7. y \in Points
  BY <1>4, <1>5, <1>6 DEF Points
<1>8. Objective(y) = ColumnOf(T).cost
  BY <1>3, ColumnOfFits DEF Objective
<1>9. Objective(y) <= Objective(x)
  BY <1>7 DEF OptimalPoints
<1>10. x \in Points
  BY DEF OptimalPoints
<1>11. \A z \in Points : Objective(z) \in Int
  <2>1. TAKE z \in Points
  <2>2. z.S \in SUBSET V /\ z.w \in SUBSET PartsQ(V)
    BY DEF Points, StableSetsOf, PartsQ
  <2>3. z.w \in SUBSET DOMAIN inst.mu /\ IsFiniteSet(z.w)
    BY <2>2, PartsFacts, FS_Subset
  <2>. QED  BY <2>2, <2>3, PartsFacts, ValueFacts DEF Objective
<1>. HIDE DEF y
<1>. QED  BY <1>7, <1>8, <1>9, <1>10, <1>11, PricingAssumption

-----------------------------------------------------------------------------
(* Vertices that are paid for.                                             *)

(* Min takes the least element. *)
LEMMA MinIs ==
  ASSUME NEW T \in SUBSET Nat, T # {}
  PROVE  Min(T) \in T /\ \A k \in T : Min(T) <= k
BY LeastNatural DEF Min

(* A function on 1 .. n is a sequence, and Reverse lists the same elements. *)
LEMMA ReverseIs ==
  ASSUME NEW S, NEW n \in Nat, NEW s \in [1 .. n -> S]
  PROVE  /\ s \in Seq(S) /\ Len(s) = n
         /\ Reverse(s) \in [1 .. n -> S]
<1>1. s \in Seq(S) /\ Len(s) = n
  OBVIOUS
<1>2. \A i \in 1 .. n : (n - i) + 1 \in 1 .. n
  OBVIOUS
<1>. QED  BY <1>1, <1>2 DEF Reverse

(* A vertex that is paid for, of another P-part and without a neighbour in *)
(* the set, joins a column at no cost.                                     *)
LEMMA JoinFits ==
  ASSUME inst \in Instances, NEW c \in Columns, Matches(c), c.cost <= Value(c.ps, c.qs),
         NEW v \in V, inst.p[v] \notin c.ps, inst.q[v] \in c.qs,
         \A u \in c.stable : ~Adjacent(u, v)
  PROVE  LET d == WithVertex(c, v)
         IN /\ d \in Columns /\ Matches(d) /\ d.qs = c.qs
            /\ d.cost <= Value(d.ps, d.qs) /\ c.cost <= d.cost
<1> DEFINE d == WithVertex(c, v)
<1>1. /\ d.stable = c.stable \cup {v} /\ d.ps = c.ps \cup {inst.p[v]}
      /\ d.qs = c.qs /\ d.cost = c.cost + inst.gamma[inst.p[v]]
      /\ d = [stable |-> d.stable, ps |-> d.ps, qs |-> d.qs, cost |-> d.cost]
  BY DEF WithVertex, Column
<1>. HIDE DEF d
<1>2. /\ c.stable \in SUBSET V /\ c.ps \in SUBSET DOMAIN inst.gamma
      /\ c.qs \in SUBSET DOMAIN inst.mu /\ c.cost \in Int
      /\ inst.p[v] \in DOMAIN inst.gamma /\ inst.gamma[inst.p[v]] \in Nat
  BY InstanceFacts DEF Columns
<1>3. d \in Columns
  BY <1>1, <1>2 DEF Columns
<1>4. IsStable(d.stable)
  BY <1>1, <1>2, InstanceFacts DEF IsStable, Matches
<1>5. d.ps = PartsP(d.stable) /\ d.qs = PartsQ(d.stable)
  BY <1>1 DEF PartsP, PartsQ, Matches
<1>6. IsFiniteSet(c.ps) /\ IsFiniteSet(c.qs)
  BY <1>2, PartsFacts DEF Matches
<1>7. Value(d.ps, d.qs) = Value(c.ps, c.qs) + inst.gamma[inst.p[v]] /\ Value(c.ps, c.qs) \in Int
  BY <1>1, <1>2, <1>6, ValueFacts
<1>8. d.cost <= Value(d.ps, d.qs) /\ c.cost <= d.cost
  BY <1>1, <1>2, <1>7
<1>9. Matches(d)
  BY <1>4, <1>5 DEF Matches
<1>10. d.qs = c.qs
  BY <1>1
<1>. QED  BY <1>3, <1>8, <1>9, <1>10 DEF d

(* The functions that the two loops recurse with. *)
Joining(h, T, seq, base) ==
  h = [s \in T |-> IF s = {} THEN base ELSE Joined(seq[Min(s)], h[s \ {Min(s)}])]

JoiningExact(h, T, seq, base) ==
  h = [s \in T |-> IF s = {} THEN base ELSE JoinedExact(seq[Min(s)], h[s \ {Min(s)}])]

(* What no vertex takes out of X is in X after the loop of mwis_P_Q_solve. *)
LEMMA JoinedLoop ==
  ASSUME NEW n \in Nat, NEW W, NEW seq \in [1 .. n -> W], NEW X, NEW base \in X,
         \A v \in W, c \in X : Joined(v, c) \in X
  PROVE  FoldRight(Joined, seq, base) \in X
<1> DEFINE D == 1 .. n
           pick == [s \in SUBSET D |-> Min(s)]
           step == [i \in D |-> [c \in X |-> Joined(seq[i], c)]]
           k == CHOOSE f : Joining(f, SUBSET D, seq, base)
           G == {s \in SUBSET D : k[s] \in X}
<1>1. FoldRight(Joined, seq, base) = k[D]
  BY DEF FoldRight, MapThenFoldSet, Joining
<1>2. \A s \in SUBSET D : s # {} => Min(s) \in s /\ pick[s] = Min(s)
  BY MinIs
<1>3. step \in [D -> [X -> X]] /\ \A i \in D, c \in X : step[i][c] = Joined(seq[i], c)
  OBVIOUS
<1>4. IsFiniteSet(D)
  BY FS_Interval
<1>. HIDE DEF D, pick, step, k
<1>5. PICK h \in [SUBSET D -> X] : Recursive(h, SUBSET D, base, pick, step)
  <2>1. \A s \in SUBSET D : s # {} => pick[s] \in s
    BY <1>2
  <2>2. step \in [D -> [X -> X]]
    BY <1>3
  <2>. QED  BY <1>4, <2>1, <2>2, RecursionExists, Zenon
<1>6. ASSUME NEW s \in SUBSET D, s # {}
      PROVE  h[s] = Joined(seq[Min(s)], h[s \ {Min(s)}])
  <2>1. h[s] = step[pick[s]][h[s \ {pick[s]}]]
    BY <1>5, <1>6 DEF Recursive
  <2>2. Min(s) \in D /\ h[s \ {Min(s)}] \in X
    BY <1>2, <1>5, <1>6
  <2>. QED  BY <1>2, <1>3, <1>6, <2>1, <2>2
<1>7. h[{}] = base
  BY <1>5 DEF Recursive
<1>8. Joining(h, SUBSET D, seq, base)
  BY <1>5, <1>6, <1>7 DEF Joining
<1>9. Joining(k, SUBSET D, seq, base)
  BY <1>8 DEF k
<1>10. {} \in G
  BY <1>9 DEF Joining
<1>11. ASSUME NEW s \in SUBSET D, \A x \in s : s \ {x} \in G
       PROVE  s \in G
  <2>1. CASE s = {}
    BY <1>10, <2>1
  <2>2. CASE s # {}
    <3>1. Min(s) \in s /\ seq[Min(s)] \in W
      BY <1>2, <2>2 DEF D
    <3>2. k[s \ {Min(s)}] \in X
      BY <1>11, <3>1
    <3>3. k[s] = Joined(seq[Min(s)], k[s \ {Min(s)}])
      BY <1>9, <2>2 DEF Joining
    <3>. QED  BY <3>1, <3>2, <3>3
  <2>. QED  BY <2>1, <2>2
<1>12. D \in G
  <2>. HIDE DEF G
  <2>1. \A s \in SUBSET D : (\A x \in s : s \ {x} \in G) => s \in G
    BY <1>11
  <2>2. (SUBSET D) \subseteq G
    BY <1>4, <1>10, <2>1, SubsetInduction
  <2>. QED  BY <2>2
<1>. QED  BY <1>1, <1>12

(* What no vertex takes out of X is in X after the loop of exact_solve. *)
LEMMA JoinedExactLoop ==
  ASSUME NEW n \in Nat, NEW W, NEW seq \in [1 .. n -> W], NEW X, NEW base \in X,
         \A v \in W, c \in X : JoinedExact(v, c) \in X
  PROVE  FoldRight(JoinedExact, seq, base) \in X
<1> DEFINE D == 1 .. n
           pick == [s \in SUBSET D |-> Min(s)]
           step == [i \in D |-> [c \in X |-> JoinedExact(seq[i], c)]]
           k == CHOOSE f : JoiningExact(f, SUBSET D, seq, base)
           G == {s \in SUBSET D : k[s] \in X}
<1>1. FoldRight(JoinedExact, seq, base) = k[D]
  BY DEF FoldRight, MapThenFoldSet, JoiningExact
<1>2. \A s \in SUBSET D : s # {} => Min(s) \in s /\ pick[s] = Min(s)
  BY MinIs
<1>3. step \in [D -> [X -> X]] /\ \A i \in D, c \in X : step[i][c] = JoinedExact(seq[i], c)
  OBVIOUS
<1>4. IsFiniteSet(D)
  BY FS_Interval
<1>. HIDE DEF D, pick, step, k
<1>5. PICK h \in [SUBSET D -> X] : Recursive(h, SUBSET D, base, pick, step)
  <2>1. \A s \in SUBSET D : s # {} => pick[s] \in s
    BY <1>2
  <2>2. step \in [D -> [X -> X]]
    BY <1>3
  <2>. QED  BY <1>4, <2>1, <2>2, RecursionExists, Zenon
<1>6. ASSUME NEW s \in SUBSET D, s # {}
      PROVE  h[s] = JoinedExact(seq[Min(s)], h[s \ {Min(s)}])
  <2>1. h[s] = step[pick[s]][h[s \ {pick[s]}]]
    BY <1>5, <1>6 DEF Recursive
  <2>2. Min(s) \in D /\ h[s \ {Min(s)}] \in X
    BY <1>2, <1>5, <1>6
  <2>. QED  BY <1>2, <1>3, <1>6, <2>1, <2>2
<1>7. h[{}] = base
  BY <1>5 DEF Recursive
<1>8. JoiningExact(h, SUBSET D, seq, base)
  BY <1>5, <1>6, <1>7 DEF JoiningExact
<1>9. JoiningExact(k, SUBSET D, seq, base)
  BY <1>8 DEF k
<1>10. {} \in G
  BY <1>9 DEF JoiningExact
<1>11. ASSUME NEW s \in SUBSET D, \A x \in s : s \ {x} \in G
       PROVE  s \in G
  <2>1. CASE s = {}
    BY <1>10, <2>1
  <2>2. CASE s # {}
    <3>1. Min(s) \in s /\ seq[Min(s)] \in W
      BY <1>2, <2>2 DEF D
    <3>2. k[s \ {Min(s)}] \in X
      BY <1>11, <3>1
    <3>3. k[s] = JoinedExact(seq[Min(s)], k[s \ {Min(s)}])
      BY <1>9, <2>2 DEF JoiningExact
    <3>. QED  BY <3>1, <3>2, <3>3
  <2>. QED  BY <2>1, <2>2
<1>12. D \in G
  <2>. HIDE DEF G
  <2>1. \A s \in SUBSET D : (\A x \in s : s \ {x} \in G) => s \in G
    BY <1>11
  <2>2. (SUBSET D) \subseteq G
    BY <1>4, <1>10, <2>1, SubsetInduction
  <2>. QED  BY <2>2
<1>. QED  BY <1>1, <1>12

(* mwis_P_Q_solve turns a stable set into a column that is worth its cost. *)
LEMMA MaximalFits ==
  ASSUME inst \in Instances, NEW S \in StableSetsOf(V)
  PROVE  LET d == Maximal(ColumnOf(S))
         IN d \in Columns /\ Matches(d) /\ d.cost <= Value(d.ps, d.qs)
<1> DEFINE c == ColumnOf(S)
           W == {v \in V : inst.q[v] \in c.qs}
           Before(u, v) == inst.q[u] < inst.q[v] \/ (inst.q[u] = inst.q[v] /\ u < v)
           R == {e \in W \X W : Before(e[1], e[2])}
           n == Cardinality(W)
           order == InOrder(W, LAMBDA u, v : Before(u, v))
           X == {d \in Columns : /\ Matches(d) /\ d.qs = c.qs
                                 /\ d.cost <= Value(d.ps, d.qs)}
<1>1. c \in Columns /\ Matches(c) /\ c.cost = Value(c.ps, c.qs)
  BY ColumnOfFits
<1>2. c \in X
  BY <1>1 DEF Columns
<1>3. IsFiniteSet(W) /\ n \in Nat
  BY InstanceFacts, FS_Subset, FS_CardinalityType
<1>4. \A v \in W : inst.q[v] \in Nat /\ v \in Nat
  BY InstanceFacts
<1>5. /\ \A u, v \in W : u # v => <<u, v>> \in R \/ <<v, u>> \in R
      /\ \A u, v, w \in W : <<u, v>> \in R /\ <<v, w>> \in R => <<u, w>> \in R
  BY <1>4
<1>6. \A u, v \in W : <<u, v>> \in R <=> Before(u, v)
  OBVIOUS
<1>. HIDE DEF R, W, c
<1>7. PICK s \in [1 .. n -> W] : \A i, j \in 1 .. n : i < j => <<s[i], s[j]>> \in R
  BY <1>3, <1>5, OrderExists
<1>8. \A i, j \in 1 .. n : i < j => Before(s[i], s[j])
  BY <1>6, <1>7
<1>9. order \in [1 .. n -> W]
  BY <1>7, <1>8 DEF InOrder
<1>. HIDE DEF order, n
<1>10. Reverse(order) \in [1 .. n -> W]
  BY <1>3, <1>9, ReverseIs
<1>11. ASSUME NEW v \in W, NEW d \in X PROVE Joined(v, d) \in X
  <2>1. v \in V /\ inst.q[v] \in d.qs
    BY DEF W
  <2>2. CASE v \in d.stable \/ inst.p[v] \in d.ps \/ \E u \in d.stable : Adjacent(u, v)
    BY <2>2 DEF Joined
  <2>3. CASE ~(v \in d.stable \/ inst.p[v] \in d.ps \/ \E u \in d.stable : Adjacent(u, v))
    <3>1. Joined(v, d) = WithVertex(d, v)
      BY <2>3 DEF Joined
    <3>. QED  BY <2>1, <2>3, <3>1, JoinFits
  <2>. QED  BY <2>2, <2>3
<1>12. FoldRight(Joined, Reverse(order), c) \in X
  <2>. HIDE DEF X
  <2>. QED  BY <1>2, <1>3, <1>10, <1>11, JoinedLoop
<1>13. Maximal(c) = FoldRight(Joined, Reverse(order), c)
  BY DEF Maximal, order, W, InOrder
<1>. QED  BY <1>12, <1>13 DEF c

(* The recovered column has the cost of the point or a greater value, and  *)
(* exact_solve lets vertices join it.                                      *)
LEMMA RecoveredFits ==
  ASSUME inst \in Instances, NEW x \in Points
  PROVE  LET d == Recovered(x)
         IN /\ d \in Columns /\ Matches(d) /\ d.cost <= Value(d.ps, d.qs)
            /\ d.cost = Objective(x)
<1>1. x.S \in SUBSET V /\ IsStable(x.S) /\ x.w \in SUBSET PartsQ(V) /\ PartsQ(x.S) \in SUBSET x.w
  BY DEF Points, StableSetsOf, PartsQ
<1>2. x.w \in SUBSET DOMAIN inst.mu /\ IsFiniteSet(x.w)
  BY <1>1, PartsFacts, FS_Subset
<1>3. Objective(x) \in Int /\ Objective(x) <= Value(PartsP(x.S), PartsQ(x.S))
  BY <1>1, <1>2, PartsFacts, ValueFacts DEF Objective
<1>. QED  BY <1>1, <1>3, PartsFacts DEF Recovered, Column, Columns, Matches

(* Maximalising a column of the exact model, vertex by vertex in the order
   of the ids, leaves a column that is worth no less and no more than its
   parts are. *)
LEMMA MaximalExactFits ==
  ASSUME inst \in Instances, NEW c \in Columns, Matches(c), c.cost <= Value(c.ps, c.qs)
  PROVE  LET d == MaximalExact(c)
         IN d \in Columns /\ Matches(d) /\ d.cost <= Value(d.ps, d.qs) /\ c.cost <= d.cost
<1> DEFINE R == {e \in V \X V : e[1] < e[2]}
           n == Cardinality(V)
           order == InOrder(V, LAMBDA u, v : u < v)
           X == {d \in Columns : /\ Matches(d) /\ d.qs = c.qs
                                 /\ d.cost <= Value(d.ps, d.qs) /\ c.cost <= d.cost}
<1>2. c \in X
  BY DEF Columns
<1>3. IsFiniteSet(V) /\ n \in Nat
  BY InstanceFacts, FS_CardinalityType
<1>4. \A v \in V : v \in Nat
  BY InstanceFacts
<1>5. /\ \A u, v \in V : u # v => <<u, v>> \in R \/ <<v, u>> \in R
      /\ \A u, v, w \in V : <<u, v>> \in R /\ <<v, w>> \in R => <<u, w>> \in R
  BY <1>4
<1>6. \A u, v \in V : <<u, v>> \in R <=> u < v
  OBVIOUS
<1>. HIDE DEF R
<1>7. PICK s \in [1 .. n -> V] : \A i, j \in 1 .. n : i < j => <<s[i], s[j]>> \in R
  BY <1>3, <1>5, OrderExists
<1>8. \A i, j \in 1 .. n : i < j => s[i] < s[j]
  BY <1>6, <1>7
<1>9. order \in [1 .. n -> V]
  BY <1>7, <1>8 DEF InOrder
<1>. HIDE DEF order, n
<1>10. Reverse(order) \in [1 .. n -> V]
  BY <1>3, <1>9, ReverseIs
<1>11. ASSUME NEW v \in V, NEW d \in X PROVE JoinedExact(v, d) \in X
  <2> DEFINE stays == \/ inst.gamma[inst.p[v]] = 0 \/ inst.p[v] \in d.ps
                      \/ inst.q[v] \notin d.qs \/ \E u \in d.stable : Adjacent(u, v)
  <2>1. CASE stays
    BY <2>1 DEF JoinedExact
  <2>2. CASE ~stays
    <3>1. JoinedExact(v, d) = WithVertex(d, v)
      BY <2>2 DEF JoinedExact
    <3>2. LET e == WithVertex(d, v)
          IN /\ e \in Columns /\ Matches(e) /\ e.qs = d.qs
             /\ e.cost <= Value(e.ps, e.qs) /\ d.cost <= e.cost
      BY <2>2, JoinFits
    <3>3. \A e \in Columns : e.cost \in Int
      BY DEF Columns
    <3>. QED  BY <3>1, <3>2, <3>3
  <2>. QED  BY <2>1, <2>2
<1>12. FoldRight(JoinedExact, Reverse(order), c) \in X
  <2>. HIDE DEF X
  <2>. QED  BY <1>2, <1>3, <1>10, <1>11, JoinedExactLoop
<1>13. MaximalExact(c) = FoldRight(JoinedExact, Reverse(order), c)
  BY DEF MaximalExact, order, InOrder
<1>. QED  BY <1>12, <1>13

-----------------------------------------------------------------------------
(* The inductive invariant.                                                *)

(* After a stage of the round comes another one, never the pool again. *)
LEMMA AfterIs ==
  ASSUME NEW s \in Range(Stages), s # "exact"
  PROVE  After(s) \in Range(Stages) /\ After(s) \in {"greedy", "pq", "p", "exact"}
<1> DEFINE Names == {"greedy", "pq", "p", "exact"}
           greedy == IF pricingMethod \in 1 .. 5 THEN <<"greedy">> ELSE << >>
           pq == IF pricingMethod \in {2, 4, 5} THEN <<"pq">> ELSE << >>
           p == IF pricingMethod \in {3, 4, 5} THEN <<"p">> ELSE << >>
           others == IF pricingMethod \in {3, 5} THEN p \o pq ELSE pq \o p
           rest == greedy \o others \o <<"exact">>
           n == Len(rest)
<1>1. greedy \in Seq(Names) /\ pq \in Seq(Names) /\ p \in Seq(Names)
  <2>1. \A x \in Names : <<x>> \in Seq(Names)
    OBVIOUS
  <2>2. << >> \in Seq(Names)
    OBVIOUS
  <2>3. "greedy" \in Names /\ "pq" \in Names /\ "p" \in Names
    OBVIOUS
  <2>. HIDE DEF Names
  <2>. QED  BY <2>1, <2>2, <2>3
<1>2. Stages = <<"pool">> \o greedy \o others \o <<"exact">>
  BY DEF Stages
<1>. HIDE DEF greedy, pq, p
<1>3. others \in Seq(Names)
  BY <1>1
<1>. HIDE DEF others
<1>4. rest \in Seq(Names) /\ rest[n] = "exact" /\ n \in Nat \ {0}
  BY <1>1, <1>3
<1>5. /\ Stages \in Seq(Names \cup {"pool"}) /\ Len(Stages) = n + 1
      /\ Stages[n + 1] = "exact"
      /\ \A i \in 2 .. n + 1 : Stages[i] \in Names
  <2>1. Stages = <<"pool">> \o rest
    BY <1>1, <1>2, <1>3
  <2>. HIDE DEF rest
  <2>. QED  BY <1>4, <2>1
<1>. HIDE DEF rest, n
<1> DEFINE i == CHOOSE j \in DOMAIN Stages : Stages[j] = s
<1>6. i \in 1 .. n + 1 /\ Stages[i] = s
  BY <1>4, <1>5 DEF Range
<1>7. i \in 1 .. n
  BY <1>4, <1>5, <1>6
<1>8. After(s) = Stages[1 + i]
  BY DEF After
<1>. HIDE DEF i
<1>9. 1 + i \in 2 .. n + 1 /\ 1 + i \in DOMAIN Stages
  BY <1>4, <1>5, <1>7
<1>. QED  BY <1>5, <1>8, <1>9 DEF Range

(* Columns that have negative reduced cost, and the value they say. *)
Priced == {c \in Worthies : c.cost = Value(c.ps, c.qs)}

(* The entries of the pool with negative reduced cost. *)
Entries ==
  {<<ColumnOf(inst.pool[i]).cost, i>> :
     i \in {j \in 1 .. Len(inst.pool) : ColumnOf(inst.pool[j]).cost > One}}

(* The stable set heur_solve builds, and its candidates: they could still  *)
(* join it, and cost what they add to its value.                           *)
Building ==
  /\ "greedy" \in Range(Stages)
  /\ stab \in Columns /\ Matches(stab) /\ stab.cost = Value(stab.ps, stab.qs)
  /\ \E W \in SUBSET V : cands \in [W -> Int]
  /\ \A u \in DOMAIN cands :
       /\ inst.p[u] \notin stab.ps
       /\ \A w \in stab.stable : ~Adjacent(u, w)
       /\ cands[u] = inst.gamma[inst.p[u]]
                       - IF inst.q[u] \in stab.qs THEN 0 ELSE inst.mu[inst.q[u]]

PricingInv ==
  /\ inst \in Instances /\ opt \in Options
  /\ stage \in Range(Stages) \cup {"heur", "done"}
  /\ pos \in Nat \ {0}
  /\ IsFiniteSet(heap) /\ heap \subseteq Entries
  /\ cols \in Seq(Priced)
  /\ added \in Seq(Worthies)
  /\ stage = "heur" => Building

(* The instance and the options stay for the round, and with them what is
   attractive. *)
LEMMA RoundKept ==
  ASSUME UNCHANGED <<inst, opt>>
  PROVE  /\ Worthies' = Worthies /\ Cheap' = Cheap /\ Priced' = Priced
         /\ Entries' = Entries /\ Range(Stages)' = Range(Stages)
         /\ V' = V /\ Columns' = Columns
         /\ \A c : Matches(c)' = Matches(c)
         /\ \A ps, qs : Value(ps, qs)' = Value(ps, qs)
         /\ \A u, v : Adjacent(u, v)' = Adjacent(u, v)
<1>1. \A ps, qs : Value(ps, qs)' = Value(ps, qs)
  BY DEF Value
<1>2. /\ V' = V /\ \A u, v : Adjacent(u, v)' = Adjacent(u, v)
      /\ \A S : IsStable(S)' = IsStable(S) /\ PartsP(S)' = PartsP(S) /\ PartsQ(S)' = PartsQ(S)
  BY DEF V, IsStable, Adjacent, PartsP, PartsQ
<1>3. Columns' = Columns
  BY <1>2 DEF Columns
<1>4. \A c : Matches(c)' = Matches(c)
  BY <1>2 DEF Matches
<1>5. Worthies' = Worthies /\ Cheap' = Cheap
  BY InstanceKept
<1>6. \A S : ColumnOf(S)' = ColumnOf(S)
  BY <1>1, <1>2 DEF ColumnOf, Column
<1>7. Priced' = Priced
  BY <1>1, <1>5 DEF Priced
<1>8. Entries' = Entries
  BY <1>6 DEF Entries
<1>9. Range(Stages)' = Range(Stages)
  <2>1. pricingMethod' = pricingMethod
    BY DEF pricingMethod
  <2>2. Stages' = Stages
    BY <2>1 DEF Stages
  <2>. QED  BY <2>2 DEF Range
<1>. QED  BY <1>1, <1>2, <1>3, <1>4, <1>5, <1>7, <1>8, <1>9

(* A round starts with nothing added. *)
LEMMA PricingInit == Init => PricingInv
<1> SUFFICES ASSUME Init PROVE PricingInv
  OBVIOUS
<1>1. inst \in Instances /\ opt \in Options
  BY DEF Init
<1>2. stage \in Range(Stages) /\ stage # "heur"
  <2>1. Stages # << >> /\ Stages[1] = "pool" /\ 1 \in DOMAIN Stages
    BY DEF Stages
  <2>. QED  BY <2>1 DEF Init, Range
<1>. QED  BY <1>1, <1>2, FS_EmptySet DEF Init, PricingInv

(* A stage that adds columns of negative reduced cost, or none, keeps the  *)
(* invariant, and concludes nothing.                                       *)
LEMMA AddOrGoOnKeeps ==
  ASSUME PricingInv, NEW s, s = stage, s \in {"pool", "greedy", "pq", "p"},
         NEW columns \in Seq(Worthies), AddOrGoOn(s, columns),
         UNCHANGED <<inst, opt, pos, heap, cols>>
  PROVE  PricingInv' /\ (ret' = 0 => ret = 0)
<1>1. s \in Range(Stages)
  BY DEF PricingInv
<1>2. CASE columns # << >>
  <2>1. Len(columns) # 0
    BY <1>2
  <2>2. ret' # 0 /\ stage' = "done" /\ added' = columns
    BY <1>2, <2>1 DEF AddOrGoOn, Return
  <2>. QED  BY <2>2, RoundKept DEF PricingInv
<1>3. CASE columns = << >>
  <2>1. stage' = After(s) /\ ret' = ret /\ added' = columns
    BY <1>3 DEF AddOrGoOn
  <2>2. stage' \in Range(Stages) /\ stage' # "heur"
    BY <1>1, <2>1, AfterIs
  <2>. QED  BY <2>1, <2>2, RoundKept DEF PricingInv
<1>. QED  BY <1>2, <1>3

-----------------------------------------------------------------------------
(* Every step keeps the invariant.                                         *)

(* What the heap makes of an entry holds no more than it and the entry. *)
LEMMA PoolEntryKeeps ==
  ASSUME PricingInv, PoolEntry
  PROVE  PricingInv'
<1>1. inst' = inst /\ opt' = opt /\ stage' = stage /\ pos' = pos + 1 /\ stage # "heur"
  BY DEF PoolEntry
<1>2. cols' = cols /\ added' = added /\ ret' = ret
  BY DEF PoolEntry
<1>3. pos \in 1 .. Len(inst.pool)
  BY InstanceFacts DEF PoolEntry, PricingInv
<1> DEFINE e == <<ColumnOf(inst.pool[pos]).cost, pos>>
<1>4. \/ heap' = heap
      \/ heap' \subseteq heap \cup {e} /\ e \in Entries
  <2>1. CASE ColumnOf(inst.pool[pos]).cost > One
    <3>1. e \in Entries
      BY <1>3, <2>1 DEF Entries
    <3>2. heap' = Kept(heap, e)
      BY <2>1 DEF PoolEntry
    <3>. HIDE DEF e
    <3>. QED  BY <3>1, <3>2 DEF Kept
  <2>2. CASE ~(ColumnOf(inst.pool[pos]).cost > One)
    BY <2>2 DEF PoolEntry
  <2>. QED  BY <2>1, <2>2
<1>. HIDE DEF e
<1>5. IsFiniteSet(heap') /\ heap' \subseteq Entries
  <2>1. IsFiniteSet(heap) /\ heap \subseteq Entries
    BY DEF PricingInv
  <2>2. IsFiniteSet(heap \cup {e})
    BY <2>1, FS_AddElement
  <2>. QED  BY <1>4, <2>1, <2>2, FS_Subset
<1>6. pos' \in Nat \ {0}
  BY <1>1 DEF PricingInv
<1>7. UNCHANGED <<inst, opt>>
  BY <1>1
<1>. QED  BY <1>1, <1>2, <1>5, <1>6, <1>7, RoundKept DEF PricingInv

(* The entries of the heap can be listed, worst first. *)
LEMMA HeapInOrder ==
  ASSUME PricingInv
  PROVE  /\ Cardinality(heap) \in Nat
         /\ InOrder(heap, Worse) \in [1 .. Cardinality(heap) -> heap]
<1> DEFINE n == Cardinality(heap)
           R == {x \in heap \X heap : Worse(x[1], x[2])}
<1>1. n \in Nat /\ IsFiniteSet(heap)
  BY FS_CardinalityType DEF PricingInv
<1>2. \A a \in heap : a[1] \in Int /\ a[2] \in Int /\ a = <<a[1], a[2]>>
  <2>1. TAKE a \in heap
  <2>2. PICK i \in 1 .. Len(inst.pool) : a = <<ColumnOf(inst.pool[i]).cost, i>>
    BY DEF PricingInv, Entries
  <2>3. ColumnOf(inst.pool[i]).cost \in Int
    BY <2>2, InstanceFacts, ColumnOfFits DEF PricingInv, Columns
  <2>4. i \in Int
    BY InstanceFacts, <2>2 DEF PricingInv
  <2>. QED  BY <2>2, <2>3, <2>4
<1>3. \A a, b \in heap : <<a, b>> \in R <=> Worse(a, b)
  OBVIOUS
<1>4. \A a, b \in heap : a # b => <<a, b>> \in R \/ <<b, a>> \in R
  BY <1>2, <1>3 DEF Worse
<1>5. \A a, b, c \in heap : <<a, b>> \in R /\ <<b, c>> \in R => <<a, c>> \in R
  <2>1. \A a, b, c \in heap : Worse(a, b) /\ Worse(b, c) => Worse(a, c)
    BY <1>2 DEF Worse
  <2>. QED  BY <1>3, <2>1
<1>. HIDE DEF R
<1>6. PICK s \in [1 .. n -> heap] : \A i, j \in 1 .. n : i < j => <<s[i], s[j]>> \in R
  BY <1>1, <1>4, <1>5, OrderExists
<1>7. \A i, j \in 1 .. n : i < j => Worse(s[i], s[j])
  BY <1>3, <1>6
<1>8. InOrder(heap, Worse) \in [1 .. n -> heap]
  BY <1>6, <1>7 DEF InOrder
<1>. QED  BY <1>1, <1>8

(* The columns that the pool contributes are attractive and fit. *)
LEMMA AddFromPoolKeeps ==
  ASSUME PricingInv, AddFromPool
  PROVE  PricingInv' /\ (ret' = 0 => ret = 0)
<1> DEFINE order == InOrder(heap, Worse)
           n == Cardinality(heap)
           columns == [j \in DOMAIN order |-> ColumnOf(inst.pool[order[j][2]])]
<1>1. n \in Nat /\ order \in [1 .. n -> heap]
  BY HeapInOrder
<1>. HIDE DEF order, n
<1>2. \A j \in 1 .. n : ColumnOf(inst.pool[order[j][2]]) \in Worthies
  <2>1. TAKE j \in 1 .. n
  <2>2. order[j] \in Entries
    BY <1>1 DEF PricingInv
  <2>3. PICK i \in 1 .. Len(inst.pool) :
          ColumnOf(inst.pool[i]).cost > One /\ order[j][2] = i
    BY <2>2 DEF Entries
  <2>4. LET d == ColumnOf(inst.pool[i])
        IN /\ d \in Columns /\ Matches(d) /\ d.cost = Value(d.ps, d.qs)
    BY InstanceFacts, ColumnOfFits DEF PricingInv
  <2>5. \A d \in Columns : d.cost \in Int
    BY DEF Columns
  <2>. QED  BY <2>3, <2>4, <2>5, PricingAssumption DEF Worthies, WorthAtLeast
<1>3. columns \in [1 .. n -> Worthies]
  BY <1>1, <1>2
<1>4. columns \in Seq(Worthies)
  BY <1>1, <1>3, ReverseIs
<1>5. /\ AddOrGoOn("pool", columns) /\ stage = "pool"
      /\ UNCHANGED <<inst, opt, pos, heap, cols>>
  BY DEF AddFromPool, order
<1>. HIDE DEF columns
<1>. QED  BY <1>4, <1>5, AddOrGoOnKeeps

(* An empty set, and the value of every vertex. *)
LEMMA StartHeurKeeps ==
  ASSUME PricingInv, StartHeur
  PROVE  PricingInv'
<1>1. UNCHANGED <<inst, opt, pos, heap, cols, added, ret>> /\ stage' = "heur"
  BY DEF StartHeur
<1>2. "greedy" \in Range(Stages) /\ inst \in Instances
  BY DEF StartHeur, PricingInv
<1>3. stab' = EmptyColumn /\ cands' = [v \in V |-> inst.gamma[inst.p[v]] - inst.mu[inst.q[v]]]
  BY DEF StartHeur
<1>4. /\ EmptyColumn.stable = {} /\ EmptyColumn.ps = {} /\ EmptyColumn.qs = {}
      /\ EmptyColumn.cost = 0 /\ EmptyColumn \in Columns
  BY DEF EmptyColumn, Column, Columns
<1>5. Matches(EmptyColumn) /\ Value({}, {}) = 0
  <2>1. Weight(inst.gamma, {}) = 0 /\ Weight(inst.mu, {}) = 0
    BY FS_EmptySet, SumAdd
  <2>2. PartsP({}) = {} /\ PartsQ({}) = {} /\ IsStable({})
    BY DEF PartsP, PartsQ, IsStable
  <2>. QED  BY <1>4, <2>1, <2>2 DEF Matches, Value
<1>6. Building'
  <2>1. \A v \in V : inst.gamma[inst.p[v]] \in Int /\ inst.mu[inst.q[v]] \in Int
    BY <1>2, InstanceFacts
  <2>2. cands' \in [V -> Int]
    BY <1>3, <2>1
  <2>3. /\ stab' \in Columns /\ Matches(stab') /\ stab'.cost = Value(stab'.ps, stab'.qs)
    BY <1>3, <1>4, <1>5
  <2>4. \A u \in V :
          /\ inst.p[u] \notin stab'.ps
          /\ \A w \in stab'.stable : ~Adjacent(u, w)
          /\ cands'[u] = inst.gamma[inst.p[u]]
                           - IF inst.q[u] \in stab'.qs THEN 0 ELSE inst.mu[inst.q[u]]
    BY <1>3, <1>4
  <2>5. inst' = inst
    BY <1>1
  <2>. QED  BY <1>1, <1>2, <2>2, <2>3, <2>4, <2>5, RoundKept DEF Building
<1>. QED  BY <1>1, <1>6, RoundKept DEF PricingInv

(* The vertex pays for its Q-part at once; what the other candidates of    *)
(* this Q-part add grows by as much.                                       *)
LEMMA HeurVertexKeeps ==
  ASSUME PricingInv, HeurVertex
  PROVE  PricingInv'
<1>1. /\ UNCHANGED <<inst, opt, stage, pos, heap, cols, added, ret>> /\ stage = "heur"
      /\ Building /\ inst \in Instances
  BY DEF HeurVertex, PricingInv
<1>2. PICK W \in SUBSET V : cands \in [W -> Int]
  BY <1>1 DEF Building
<1>3. PICK v \in W :
        /\ stab' = Column(stab.stable \cup {v}, stab.ps \cup {inst.p[v]},
                          stab.qs \cup {inst.q[v]}, stab.cost + cands[v])
        /\ cands' = Updated(v)
  BY <1>2 DEF HeurVertex, RCL
<1>d. PICK d : d = stab'
  OBVIOUS
<1> DEFINE i == inst.p[v]
           j == inst.q[v]
           U == {u \in W : inst.p[u] # i /\ ~Adjacent(u, v)}
<1>4. /\ d.stable = stab.stable \cup {v} /\ d.ps = stab.ps \cup {i}
      /\ d.qs = stab.qs \cup {j} /\ d.cost = stab.cost + cands[v]
      /\ d = [stable |-> d.stable, ps |-> d.ps, qs |-> d.qs, cost |-> d.cost]
  BY <1>3, <1>d DEF Column
<1>5. /\ stab.stable \in SUBSET V /\ stab.ps \in SUBSET DOMAIN inst.gamma
      /\ stab.qs \in SUBSET DOMAIN inst.mu /\ stab.cost \in Int
      /\ IsFiniteSet(stab.ps) /\ IsFiniteSet(stab.qs)
  BY <1>1, PartsFacts DEF Building, Columns, Matches
<1>6. /\ i \in (DOMAIN inst.gamma) \ stab.ps /\ inst.gamma[i] \in Nat
      /\ j \in DOMAIN inst.mu /\ inst.mu[j] \in Nat
      /\ cands[v] = inst.gamma[i] - IF j \in stab.qs THEN 0 ELSE inst.mu[j]
  BY <1>1, <1>2, InstanceFacts DEF Building
<1>7. /\ cands' = [u \in U |-> IF inst.q[u] = j THEN inst.gamma[inst.p[u]] ELSE cands[u]]
  BY <1>2, <1>3 DEF Updated
<1>8. d.cost = Value(d.ps, d.qs) /\ d.cost \in Int
  <2>1. IsFiniteSet(stab.ps \cup {i}) /\ stab.ps \cup {i} \in SUBSET DOMAIN inst.gamma
    BY <1>5, <1>6, FS_AddElement
  <2>2. Value(stab.ps \cup {i}, stab.qs) = stab.cost + inst.gamma[i]
    BY <1>1, <1>5, <1>6, ValueFacts DEF Building
  <2>3. CASE j \in stab.qs
    <3>1. d.qs = stab.qs /\ d.cost = stab.cost + inst.gamma[i]
      BY <1>4, <1>5, <1>6, <2>3
    <3>2. Value(d.ps, d.qs) = stab.cost + inst.gamma[i]
      BY <1>4, <2>2, <3>1
    <3>. QED  BY <1>5, <1>6, <3>1, <3>2
  <2>4. CASE j \notin stab.qs
    <3>1. Value(stab.ps \cup {i}, stab.qs \cup {j})
            = Value(stab.ps \cup {i}, stab.qs) - inst.mu[j]
      BY <1>1, <1>5, <1>6, <2>1, <2>4, ValueFacts
    <3>. QED  BY <1>4, <1>5, <1>6, <2>2, <2>4, <3>1
  <2>. QED  BY <2>3, <2>4
<1>9. d \in Columns
  BY <1>4, <1>5, <1>6, <1>8 DEF Columns
<1>10. Matches(d)
  <2>1. \A u \in stab.stable : ~Adjacent(u, v) /\ ~Adjacent(v, u)
    BY <1>1, <1>2, <1>5, InstanceFacts DEF Building
  <2>2. IsStable(stab.stable) /\ stab.ps = PartsP(stab.stable) /\ stab.qs = PartsQ(stab.stable)
    BY <1>1 DEF Building, Matches
  <2>3. ~Adjacent(v, v)
    BY <1>1, InstanceFacts
  <2>4. IsStable(d.stable)
    BY <1>4, <2>1, <2>2, <2>3 DEF IsStable
  <2>5. d.ps = PartsP(d.stable) /\ d.qs = PartsQ(d.stable)
    BY <1>4, <2>2 DEF PartsP, PartsQ
  <2>. QED  BY <2>4, <2>5 DEF Matches
<1>11. \A u \in U :
         /\ inst.p[u] \notin d.ps
         /\ \A w \in d.stable : ~Adjacent(u, w)
         /\ cands'[u] = inst.gamma[inst.p[u]]
                          - IF inst.q[u] \in d.qs THEN 0 ELSE inst.mu[inst.q[u]]
  <2>1. TAKE u \in U
  <2>2. /\ u \in W /\ inst.p[u] \notin stab.ps
        /\ \A w \in stab.stable : ~Adjacent(u, w)
        /\ cands[u] = inst.gamma[inst.p[u]]
                        - IF inst.q[u] \in stab.qs THEN 0 ELSE inst.mu[inst.q[u]]
    BY <1>1, <1>2 DEF Building
  <2>3. inst.gamma[inst.p[u]] \in Nat
    BY <1>1, <2>2, InstanceFacts
  <2>4. cands'[u] = IF inst.q[u] = j THEN inst.gamma[inst.p[u]] ELSE cands[u]
    BY <1>7
  <2>. QED  BY <1>4, <2>1, <2>2, <2>3, <2>4
<1>12. U \in SUBSET V /\ DOMAIN cands' = U /\ cands' \in [U -> Int]
  <2>1. \A u \in U : inst.gamma[inst.p[u]] \in Int /\ cands[u] \in Int
    BY <1>1, <1>2, InstanceFacts
  <2>. QED  BY <1>7, <2>1
<1>. HIDE DEF U
<1>13. Building'
  <2>1. inst' = inst /\ Range(Stages)' = Range(Stages)
    BY <1>1, RoundKept
  <2>2. d \in Columns' /\ Matches(d)' /\ d.cost = Value(d.ps, d.qs)' /\ U \in SUBSET V'
    BY <1>1, <1>8, <1>9, <1>10, <1>12, RoundKept
  <2>3. \A u \in U, w \in d.stable : ~Adjacent(u, w)'
    BY <1>1, <1>11, RoundKept
  <2>. QED  BY <1>1, <1>11, <1>12, <1>d, <2>1, <2>2, <2>3 DEF Building
<1>. QED  BY <1>1, <1>13, RoundKept DEF PricingInv

(* r is the list l of elements of S with c at the place m.                 *)
Extended(S, l, m, c, r) ==
  /\ r \in Seq(S) /\ Len(r) = Len(l) + 1
  /\ \A i \in 1 .. m - 1 : r[i] = l[i]
  /\ r[m] = c
  /\ \A i \in m + 1 .. Len(l) + 1 : r[i] = l[i - 1]

(* What a sequence is after an element has been put in. *)
LEMMA PutIn ==
  ASSUME NEW S, NEW l \in Seq(S), NEW c \in S, NEW m \in 1 .. Len(l) + 1
  PROVE  Extended(S, l, m, c, InsertAt(l, m, c))
<1> DEFINE a == SubSeq(l, 1, m - 1)
           b == SubSeq(l, m, Len(l))
           r == (a \o <<c>>) \o b
<1>1. /\ a \in Seq(S) /\ Len(a) = m - 1
      /\ \A i \in 1 .. m - 1 : a[i] = l[i]
  OBVIOUS
<1>2. /\ b \in Seq(S) /\ Len(b) = Len(l) - m + 1
      /\ \A i \in 1 .. Len(l) - m + 1 : b[i] = l[m + i - 1]
  OBVIOUS
<1>. HIDE DEF a, b
<1>3. /\ r \in Seq(S) /\ Len(r) = Len(l) + 1
      /\ \A i \in 1 .. Len(l) + 1 :
           r[i] = IF i < m THEN a[i] ELSE IF i = m THEN c ELSE b[i - m]
  <2> DEFINE u == a \o <<c>>
  <2>1. /\ u \in Seq(S) /\ Len(u) = m
        /\ \A i \in 1 .. m : u[i] = IF i < m THEN a[i] ELSE c
    BY SMTT(60), <1>1
  <2>. HIDE DEF u
  <2>2. /\ r \in Seq(S) /\ Len(r) = Len(u) + Len(b)
        /\ \A i \in 1 .. Len(u) + Len(b) : r[i] = IF i <= Len(u) THEN u[i] ELSE b[i - Len(u)]
    <3>1. r = u \o b
      BY DEF u
    <3>. HIDE DEF r
    <3>. QED  BY <1>2, <2>1, <3>1, ConcatProperties
  <2>. HIDE DEF r
  <2>3. m \in 1 .. Len(l) + 1 /\ Len(l) \in Nat
    OBVIOUS
  <2>. QED  BY <1>2, <2>1, <2>2, <2>3
<1>4. \A i \in 1 .. Len(l) + 1 :
        r[i] = IF i < m THEN l[i] ELSE IF i = m THEN c ELSE l[i - 1]
  <2>1. TAKE i \in 1 .. Len(l) + 1
  <2>2. i > m => i - m \in 1 .. Len(l) - m + 1 /\ m + (i - m) - 1 = i - 1
    OBVIOUS
  <2>3. i < m => i \in 1 .. m - 1
    OBVIOUS
  <2>4. i < m \/ i = m \/ i > m
    OBVIOUS
  <2>. HIDE DEF r
  <2>. QED  BY <1>1, <1>2, <1>3, <2>2, <2>3, <2>4
<1>5. r = InsertAt(l, m, c)
  BY DEF InsertAt, a, b
<1>. HIDE DEF r
<1>6. \A i \in 1 .. m - 1 : r[i] = l[i]
  BY <1>4
<1>7. r[m] = c
  BY <1>4
<1>8. \A i \in m + 1 .. Len(l) + 1 : r[i] = l[i - 1]
  BY <1>4
<1>. QED  BY <1>3, <1>5, <1>6, <1>7, <1>8 DEF Extended

(* A column comes into the list before the first dearer one, or last. *)
LEMMA InsertedIs ==
  ASSUME NEW list \in Seq(Columns), NEW c \in Columns
  PROVE  \E m \in 1 .. Len(list) + 1 :
           /\ Inserted(list, c) = InsertAt(list, m, c)
           /\ \A i \in 1 .. m - 1 : list[i].cost <= c.cost
           /\ m <= Len(list) => list[m].cost > c.cost
<1> DEFINE dearer == {i \in DOMAIN list : list[i].cost > c.cost}
           m == Min(dearer \cup {Len(list) + 1})
<1>1. \A i \in DOMAIN list : list[i].cost \in Int /\ c.cost \in Int
  <2>1. \A d \in Columns : d.cost \in Int
    BY DEF Columns
  <2>2. \A i \in DOMAIN list : list[i] \in Columns
    OBVIOUS
  <2>. QED  BY <2>1, <2>2
<1>2. /\ m \in dearer \cup {Len(list) + 1}
      /\ \A i \in dearer \cup {Len(list) + 1} : m <= i
  <2>1. dearer \cup {Len(list) + 1} \in SUBSET Nat
    OBVIOUS
  <2>. HIDE DEF dearer
  <2>. QED  BY <2>1, MinIs
<1>3. Inserted(list, c) = InsertAt(list, m, c)
  BY DEF Inserted
<1>. HIDE DEF m
<1>4. m \in 1 .. Len(list) + 1
  BY <1>2
<1>5. \A i \in 1 .. m - 1 : list[i].cost <= c.cost
  BY <1>1, <1>2, <1>4
<1>6. m <= Len(list) => list[m].cost > c.cost
  BY <1>2
<1>. QED  BY <1>3, <1>4, <1>5, <1>6

(* The list holds columns of negative reduced cost only. *)
LEMMA WithCandidateFits ==
  ASSUME opt \in Options, NEW list \in Seq(Priced), NEW c \in Columns, Matches(c),
         c.cost = Value(c.ps, c.qs)
  PROVE  WithCandidate(list, c) \in Seq(Priced)
<1>1. CASE WithCandidate(list, c) = list
  BY <1>1
<1>2. CASE WithCandidate(list, c) # list
  <2> DEFINE l == IF Len(list) = opt.k THEN Tail(list) ELSE list
  <2>1. ~(c.cost <= One) /\ WithCandidate(list, c) = Inserted(l, c)
    BY <1>2 DEF WithCandidate
  <2>2. l \in Seq(Priced)
    <3>1. opt.k # 0
      BY PricingAssumption
    <3>2. Len(list) = opt.k => Tail(list) \in Seq(Priced)
      BY <3>1, HeadTailProperties
    <3>. QED  BY <3>2
  <2>. HIDE DEF l
  <2>3. c \in Priced
    <3>1. c.cost \in Int /\ One \in Int
      BY PricingAssumption DEF Columns
    <3>. QED  BY <2>1, <3>1 DEF Priced, Worthies, WorthAtLeast
  <2>4. l \in Seq(Columns)
    BY <2>2 DEF Priced, Worthies, WorthAtLeast
  <2>5. PICK m \in 1 .. Len(l) + 1 : Inserted(l, c) = InsertAt(l, m, c)
    BY <2>3, <2>4, InsertedIs DEF Priced, Worthies, WorthAtLeast
  <2>6. InsertAt(l, m, c) \in Seq(Priced)
    BY <2>2, <2>3, <2>5, PutIn DEF Extended
  <2>. QED  BY <2>1, <2>5, <2>6
<1>. QED  BY <1>1, <1>2

(* A set that the greedy has built enters the list of the best as a column. *)
LEMMA EndHeurKeeps ==
  ASSUME PricingInv, EndHeur
  PROVE  PricingInv'
<1>1. /\ UNCHANGED <<inst, opt, pos, heap, added, ret>> /\ stage' = "greedy"
      /\ Building /\ inst \in Instances /\ opt \in Options
      /\ cols \in Seq(Priced) /\ cols' = WithCandidate(cols, stab)
  BY DEF EndHeur, PricingInv
<1>2. cols' \in Seq(Priced)
  BY <1>1, WithCandidateFits DEF Building
<1>3. "greedy" \in Range(Stages)
  BY <1>1 DEF Building
<1>. QED  BY <1>1, <1>2, <1>3, RoundKept DEF PricingInv

(* The columns that the greedy contributes are attractive and fit. *)
LEMMA AddFromGreedyKeeps ==
  ASSUME PricingInv, AddFromGreedy
  PROVE  PricingInv' /\ (ret' = 0 => ret = 0)
<1>1. cols \in Seq(Worthies)
  BY DEF PricingInv, Priced
<1>2. Reverse(cols) \in Seq(Worthies)
  <2>1. cols \in [1 .. Len(cols) -> Worthies] /\ Len(cols) \in Nat
    BY <1>1
  <2>2. Reverse(cols) \in [1 .. Len(cols) -> Worthies]
    BY <2>1, ReverseIs
  <2>. QED  BY <2>1, <2>2, ReverseIs
<1>3. /\ AddOrGoOn("greedy", Reverse(cols)) /\ stage = "greedy"
      /\ UNCHANGED <<inst, opt, pos, heap, cols>>
  BY DEF AddFromGreedy
<1>. QED  BY <1>2, <1>3, AddOrGoOnKeeps

(* The sets of the P,Q-MWSSP are stable sets of the instance. *)
LEMMA AnswersAreStable ==
  ASSUME inst \in Instances, NEW sets \in MwisAnswers
  PROVE  sets \subseteq StableSetsOf(V) /\ IsFiniteSet(sets)
<1>1. Positive \in SUBSET V
  BY DEF Positive
<1>2. StableSetsOf(Positive) \subseteq StableSetsOf(V)
  BY <1>1 DEF StableSetsOf
<1>3. CASE ~HasEdge(Positive)
  <2>1. IsStable(Positive)
    BY <1>3 DEF HasEdge, IsStable
  <2>2. sets = {Positive}
    BY <1>3 DEF MwisAnswers
  <2>. QED  BY <1>1, <2>1, <2>2, FS_Singleton DEF StableSetsOf
<1>4. CASE HasEdge(Positive)
  <2> DEFINE good == {S \in StableSetsOf(Positive) : Weight(weightsPQ, S) > One}
             last == IF CliqueSearched(Positive) THEN CliqueAnswersAboveOne(Positive, weightsPQ)
                     ELSE IF good = {} THEN Heaviest(Positive, weightsPQ) ELSE {}
  <2>1. last \subseteq StableSetsOf(Positive)
    <3>1. StableSetsOf(Weighted(Positive, weightsPQ)) \subseteq StableSetsOf(Positive)
      BY DEF StableSetsOf, Weighted
    <3>2. CliqueAnswers(Positive, weightsPQ) \subseteq StableSetsOf(Positive)
      BY <3>1 DEF CliqueAnswers
    <3>3. CliqueAnswersAboveOne(Positive, weightsPQ) \subseteq StableSetsOf(Positive)
      BY <3>1, <3>2 DEF CliqueAnswersAboveOne
    <3>. QED  BY <3>3 DEF Heaviest
  <2>2. \/ \E S \in last : sets = {S}
        \/ \E n \in 1 .. MaxSets : sets \in kSubset(n, good)
    <3>1. sets \in {{S} : S \in last}
                     \cup IF Dense(Positive) THEN {} ELSE UNION {kSubset(n, good) : n \in 1 .. MaxSets}
      BY <1>4, Zenon DEF MwisAnswers
    <3>. HIDE DEF last, good
    <3>. QED  BY <3>1
  <2>3. CASE \E S \in last : sets = {S}
    <3>1. PICK S \in last : sets = {S}
      BY <2>3
    <3>. QED  BY <1>2, <2>1, <3>1, FS_Singleton
  <2>4. CASE \E n \in 1 .. MaxSets : sets \in kSubset(n, good)
    <3>1. PICK n \in 1 .. MaxSets : sets \in kSubset(n, good)
      BY <2>4
    <3>2. sets \subseteq good
      BY <3>1 DEF kSubset
    <3>3. sets \subseteq StableSetsOf(V)
      BY <1>2, <3>2
    <3>4. IsFiniteSet(SUBSET V)
      BY InstanceFacts, FS_SUBSET
    <3>5. sets \subseteq SUBSET V
      BY <3>3 DEF StableSetsOf
    <3>. QED  BY <3>3, <3>4, <3>5, FS_Subset
  <2>. QED  BY <2>2, <2>3, <2>4
<1>. QED  BY <1>3, <1>4

(* So are those of the P,Q-MWSSP routine. *)
LEMMA PricePQKeeps ==
  ASSUME PricingInv, PricePQ
  PROVE  PricingInv' /\ (ret' = 0 => ret = 0)
<1>1. PICK sets \in MwisAnswers :
        LET order == SetToSeq({S \in sets : Maximal(ColumnOf(S)).cost > One})
        IN AddOrGoOn("pq", [j \in DOMAIN order |-> Maximal(ColumnOf(order[j]))])
  BY DEF PricePQ
<1> DEFINE W == {S \in sets : Maximal(ColumnOf(S)).cost > One}
           n == Cardinality(W)
           order == SetToSeq(W)
           columns == [j \in DOMAIN order |-> Maximal(ColumnOf(order[j]))]
<1>2. AddOrGoOn("pq", columns)
  BY <1>1
<1>3. sets \subseteq StableSetsOf(V) /\ IsFiniteSet(sets) /\ inst \in Instances
  BY AnswersAreStable DEF PricingInv
<1>4. n \in Nat /\ order \in [1 .. n -> W]
  <2>1. IsFiniteSet(W)
    BY <1>3, FS_Subset
  <2>. QED  BY <2>1, SetToSeqIs
<1>5. \A S \in W : Maximal(ColumnOf(S)) \in Worthies
  <2>1. TAKE S \in W
  <2>2. S \in StableSetsOf(V) /\ Maximal(ColumnOf(S)).cost > One
    BY <1>3
  <2>3. LET d == Maximal(ColumnOf(S))
        IN d \in Columns /\ Matches(d) /\ d.cost <= Value(d.ps, d.qs)
    BY <1>3, <2>2, MaximalFits
  <2>4. Maximal(ColumnOf(S)).cost \in Int /\ One \in Int
    BY <2>3, PricingAssumption DEF Columns
  <2>. QED  BY <2>2, <2>3, <2>4 DEF Worthies, WorthAtLeast
<1>. HIDE DEF order, n, W
<1>6. columns \in [1 .. n -> Worthies]
  BY <1>4, <1>5
<1>7. columns \in Seq(Worthies)
  BY <1>4, <1>6, ReverseIs
<1>8. stage = "pq" /\ UNCHANGED <<inst, opt, pos, heap, cols>>
  BY DEF PricePQ
<1>. HIDE DEF columns
<1>. QED  BY <1>2, <1>7, <1>8, AddOrGoOnKeeps

(* A round that ends with a column, or without one. *)
LEMMA ReturnKeeps ==
  ASSUME PricingInv, UNCHANGED <<inst, opt, pos, heap, cols>>, NEW n, Return(n),
         added' = added \/ \E c \in Worthies : added' = <<c>>
  PROVE  PricingInv'
<1>1. added' \in Seq(Worthies)
  <2>1. added \in Seq(Worthies)
    BY DEF PricingInv
  <2>2. \A c \in Worthies : <<c>> \in Seq(Worthies)
    OBVIOUS
  <2>. QED  BY <2>1, <2>2
<1>2. stage' = "done" /\ ret' = n
  BY DEF Return
<1>. QED  BY <1>1, <1>2, RoundKept DEF PricingInv

(* What the wrapper returns to the P-MWSSP routine is stable. *)
LEMMA PAnswersAreStable == PAnswers \subseteq StableSetsOf(V)
<1>1. StableSetsOf(Weighted(V, weightsP)) \subseteq StableSetsOf(V)
  BY DEF StableSetsOf, Weighted
<1>. QED  BY <1>1 DEF PAnswers, CliqueAnswers, Heaviest

(* The P-MWSSP routine adds such a column, or takes its set for a proof    *)
(* that there is none.                                                     *)
LEMMA PricePKeeps ==
  ASSUME PricingInv, PriceP
  PROVE  /\ PricingInv'
         /\ ret' = 0 /\ ret # 0 => \E S \in PAnswers : PProves(S)
<1>1. PICK S \in PAnswers :
        \/ PProves(S) /\ Return(0) /\ UNCHANGED added
        \/ AddOrGoOn("p", IF ColumnOf(S).cost > One THEN <<ColumnOf(S)>> ELSE << >>)
  BY DEF PriceP
<1>2. /\ stage = "p" /\ UNCHANGED <<inst, opt, pos, heap, cols>>
      /\ inst \in Instances /\ S \in StableSetsOf(V)
  BY PAnswersAreStable DEF PriceP, PricingInv
<1>3. CASE PProves(S) /\ Return(0) /\ UNCHANGED added
  <2>1. PricingInv'
    BY <1>2, <1>3, ReturnKeeps
  <2>. QED  BY <1>3, <2>1
<1>4. CASE AddOrGoOn("p", IF ColumnOf(S).cost > One THEN <<ColumnOf(S)>> ELSE << >>)
  <2> DEFINE columns == IF ColumnOf(S).cost > One THEN <<ColumnOf(S)>> ELSE << >>
  <2>1. LET d == ColumnOf(S)
        IN d \in Columns /\ Matches(d) /\ d.cost = Value(d.ps, d.qs)
    BY <1>2, ColumnOfFits
  <2>2. ColumnOf(S).cost \in Int /\ One \in Int
    BY <2>1, PricingAssumption DEF Columns
  <2>3. ColumnOf(S).cost > One => ColumnOf(S) \in Worthies
    BY <2>1, <2>2 DEF Worthies, WorthAtLeast
  <2>4. columns \in Seq(Worthies)
    BY <2>3
  <2>5. AddOrGoOn("p", columns)
    BY <1>4
  <2>. HIDE DEF columns
  <2>. QED  BY <1>2, <2>4, <2>5, AddOrGoOnKeeps
<1>. QED  BY <1>1, <1>3, <1>4

(* The point at which the callback stops the exact model gives an
   attractive column. *)
LEMMA StoppedKeeps ==
  ASSUME PricingInv, Stopped
  PROVE  PricingInv'
<1>1. PICK x \in Points : Objective(x) > Threshold /\ added' = <<MaximalExact(Recovered(x))>>
  BY DEF Stopped
<1>2. Return(1) /\ UNCHANGED <<inst, opt, pos, heap, cols>> /\ inst \in Instances
  BY DEF Stopped, PricingInv
<1> DEFINE c == Recovered(x)
           d == MaximalExact(c)
<1>3. c \in Columns /\ Matches(c) /\ c.cost <= Value(c.ps, c.qs) /\ c.cost = Objective(x)
  BY <1>2, RecoveredFits
<1>. HIDE DEF c
<1>4. d \in Columns /\ Matches(d) /\ d.cost <= Value(d.ps, d.qs) /\ c.cost <= d.cost
  BY <1>2, <1>3, MaximalExactFits
<1>5. One < d.cost
  <2>1. \A e \in Columns : e.cost \in Int
    BY DEF Columns
  <2>. HIDE DEF d
  <2>. QED  BY <1>1, <1>3, <1>4, <2>1, PricingAssumption
<1>6. d \in Worthies /\ added' = <<d>>
  BY <1>1, <1>4, <1>5 DEF Worthies, WorthAtLeast, c
<1>. QED  BY <1>2, <1>6, ReturnKeeps

(* The optimum of the exact model gives an attractive column, or proves
   that there is none. *)
LEMMA OptimalKeeps ==
  ASSUME PricingInv, Optimal
  PROVE  /\ PricingInv'
         /\ ret' = 0 /\ ret # 0 => Cheap
<1>1. PICK x \in OptimalPoints :
        IF Objective(x) <= One THEN Return(0) /\ UNCHANGED added
        ELSE Return(1) /\ added' = <<Recovered(x)>>
  BY DEF Optimal
<1>2. UNCHANGED <<inst, opt, pos, heap, cols>> /\ inst \in Instances
  BY DEF Optimal, PricingInv
<1>3. CASE Objective(x) <= One
  <2>1. Cheap
    BY <1>2, <1>3, OptimalProves
  <2>2. PricingInv'
    BY <1>1, <1>2, <1>3, ReturnKeeps
  <2>. QED  BY <2>1, <2>2
<1>4. CASE ~(Objective(x) <= One)
  <2> DEFINE c == Recovered(x)
  <2>1. x \in Points
    BY DEF OptimalPoints
  <2>2. c \in Columns /\ Matches(c) /\ c.cost <= Value(c.ps, c.qs) /\ c.cost = Objective(x)
    BY <1>2, <2>1, RecoveredFits
  <2>3. c.cost \in Int /\ One \in Int
    BY <2>2, PricingAssumption DEF Columns
  <2>4. c \in Worthies
    BY <1>4, <2>2, <2>3 DEF Worthies, WorthAtLeast
  <2>5. PricingInv' /\ ret' = 1
    BY <1>1, <1>2, <1>4, <2>4, ReturnKeeps DEF Return
  <2>. QED  BY <2>5
<1>. QED  BY <1>3, <1>4

(* Every step of a round keeps the invariant. *)
LEMMA PricingStep == PricingInv /\ [Next]_vars => PricingInv'
<1> SUFFICES ASSUME PricingInv, [Next]_vars PROVE PricingInv'
  OBVIOUS
<1>1. CASE PoolEntry
  BY <1>1, PoolEntryKeeps
<1>2. CASE AddFromPool
  BY <1>2, AddFromPoolKeeps
<1>3. CASE StartHeur
  BY <1>3, StartHeurKeeps
<1>4. CASE HeurVertex
  BY <1>4, HeurVertexKeeps
<1>5. CASE EndHeur
  BY <1>5, EndHeurKeeps
<1>6. CASE AddFromGreedy
  BY <1>6, AddFromGreedyKeeps
<1>7. CASE PricePQ
  BY <1>7, PricePQKeeps
<1>8. CASE PriceP
  BY <1>8, PricePKeeps
<1>9. CASE Stopped
  BY <1>9, StoppedKeeps
<1>10. CASE Optimal
  BY <1>10, OptimalKeeps
<1>11. CASE Limit
  <2>1. PICK r \in {-1, -2, -3} : Return(r)
    BY <1>11 DEF Limit
  <2>2. UNCHANGED <<inst, opt, pos, heap, cols, added>> /\ r # 0
    BY <1>11 DEF Limit
  <2>. QED  BY <2>1, <2>2, ReturnKeeps
<1>12. CASE UNCHANGED vars
  <2>1. UNCHANGED <<inst, opt, stage, pos, heap, cands, stab, cols, added, ret>>
    BY <1>12 DEF vars
  <2>2. Building' = Building
    <3>1. /\ Range(Stages)' = Range(Stages) /\ V' = V /\ Columns' = Columns
          /\ Matches(stab)' = Matches(stab)
          /\ Value(stab.ps, stab.qs)' = Value(stab.ps, stab.qs)
          /\ \A u, v : Adjacent(u, v)' = Adjacent(u, v)
      BY <2>1, RoundKept
    <3>. QED  BY <2>1, <3>1 DEF Building
  <2>. QED  BY <2>1, <2>2, RoundKept DEF PricingInv
<1>. QED  BY <1>1, <1>2, <1>3, <1>4, <1>5, <1>6, <1>7, <1>8, <1>9, <1>10, <1>11, <1>12
     DEF Next

(* The invariant holds in every state. *)
THEOREM RoundIsSound == Spec => []PricingInv
<1>1. Init => PricingInv
  BY PricingInit
<1>2. PricingInv /\ [Next]_vars => PricingInv'
  BY PricingStep
<1>. QED  BY <1>1, <1>2, PTL DEF Spec

(* Every column that a round adds is a stable set with its parts, has      *)
(* negative reduced cost and is worth what its routine says or more: the   *)
(* best of the pool, those heur_solve has built, those that have grown     *)
(* since, and the one the exact solver was stopped at.                     *)
THEOREM ColumnsFit == Spec => []AddedColumnsFit
<1>1. PricingInv => AddedColumnsFit
  <2> SUFFICES ASSUME PricingInv, NEW c \in Range(added)
               PROVE  /\ IsStable(c.stable) /\ c.ps = PartsP(c.stable) /\ c.qs = PartsQ(c.stable)
                      /\ One < c.cost /\ c.cost <= Value(c.ps, c.qs)
    BY DEF AddedColumnsFit
  <2>1. c \in Worthies
    BY DEF PricingInv, Range
  <2>. QED  BY <2>1 DEF Worthies, WorthAtLeast, Matches
<1>. QED  BY <1>1, RoundIsSound, PTL

(* Only P-MWSSP and exact pricing conclude that nothing is attractive. *)
LEMMA ConcludedBy ==
  ASSUME PricingInv, Next, ret' = 0, ret # 0
  PROVE  \/ stage = "p" /\ \E S \in PAnswers : PProves(S)
         \/ Cheap
<1>1. CASE PoolEntry \/ StartHeur \/ HeurVertex \/ EndHeur
  BY <1>1 DEF PoolEntry, StartHeur, HeurVertex, EndHeur
<1>2. CASE AddFromPool \/ AddFromGreedy \/ PricePQ
  BY <1>2, AddFromPoolKeeps, AddFromGreedyKeeps, PricePQKeeps
<1>3. CASE PriceP
  BY <1>3, PricePKeeps DEF PriceP
<1>4. CASE Optimal
  BY <1>4, OptimalKeeps
<1>5. CASE Stopped \/ Limit
  BY <1>5 DEF Stopped, Limit, Return
<1>. QED  BY <1>1, <1>2, <1>3, <1>4, <1>5 DEF Next

(* A round that returns 0 has proved that no stable set has negative       *)
(* reduced cost, by an optimal point of the exact model or by the set of   *)
(* the P-MWSSP; but where the wrapper searches for cliques, that set       *)
(* proves nothing about sets with a single vertex that has weight.         *)
THEOREM ZeroProves == Spec => NothingMissed
<1> DEFINE A == ret' = 0 /\ ret # 0 =>
                  \A S \in StableSetsOf(V) :
                    \/ ColumnOf(S).cost <= One
                    \/ /\ stage = "p" /\ CliqueSearched(V)
                       /\ Cardinality(Weighted(S, weightsP)) = 1
<1>1. PricingInv /\ [Next]_vars => [A]_vars
  <2>1. SUFFICES ASSUME PricingInv, Next, ret' = 0, ret # 0,
                        NEW T \in StableSetsOf(V),
                        ~(/\ stage = "p" /\ CliqueSearched(V)
                          /\ Cardinality(Weighted(T, weightsP)) = 1)
                 PROVE  ColumnOf(T).cost <= One
    OBVIOUS
  <2>2. inst \in Instances
    BY <2>1 DEF PricingInv
  <2>3. CASE Cheap
    BY <2>3 DEF Cheap
  <2>4. CASE stage = "p" /\ \E S \in PAnswers : PProves(S)
    <3>1. PICK S \in PAnswers : PProves(S)
      BY <2>4
    <3>2. CASE ~CliqueSearched(V)
      <4>1. S \in Heaviest(V, weightsP)
        BY <3>1, <3>2 DEF PAnswers
      <4>2. Cheap
        BY <2>2, <3>1, <4>1, HeaviestProves
      <4>. QED  BY <4>2 DEF Cheap
    <3>3. CASE CliqueSearched(V)
      <4>1. S \in CliqueAnswers(V, weightsP)
        BY <3>1, <3>3 DEF PAnswers
      <4>2. Cardinality(Weighted(T, weightsP)) # 1
        BY <2>1, <2>4, <3>3
      <4>. QED  BY <2>2, <3>1, <4>1, <4>2, CliquesProve
    <3>. QED  BY <3>2, <3>3
  <2>. QED  BY <2>1, <2>3, <2>4, ConcludedBy
<1>2. Spec => [][A]_vars
  <2> HIDE DEF A
  <2>. QED  BY <1>1, RoundIsSound, PTL DEF Spec
<1>. QED  BY <1>2 DEF NothingMissed

-----------------------------------------------------------------------------
(* The best columns.                                                       *)

(* The smaller of two numbers. *)
LEMMA MinOfTwo ==
  ASSUME NEW a \in Nat, NEW b \in Nat
  PROVE  Min({a, b}) = IF a <= b THEN a ELSE b
<1>1. Min({a, b}) \in {a, b} /\ \A k \in {a, b} : Min({a, b}) <= k
  BY MinIs
<1>. QED  BY <1>1

(* What the heap has seen of the pool, and what it keeps of it. *)
HeapIsBest ==
  /\ IsFiniteSet(found) /\ heap \subseteq found
  /\ \A b \in found : b[1] \in Int /\ b[2] \in Int /\ b[2] < pos /\ b = <<b[1], b[2]>>
  /\ Cardinality(heap) = Min({opt.k, Cardinality(found)})
  /\ \A a \in heap, b \in found \ heap : a[1] >= b[1]

(* The top of a heap is its worst entry. *)
LEMMA TopIs ==
  ASSUME NEW h, IsFiniteSet(h), h # {},
         \A a \in h : a[1] \in Int /\ a[2] \in Int /\ a = <<a[1], a[2]>>
  PROVE  Top(h) \in h /\ \A a \in h : Top(h)[1] <= a[1]
<1> DEFINE G == {t \in SUBSET h : t # {} => \E a \in t : \A b \in t \ {a} : Worse(a, b)}
<1>3. \A a, b \in h : a # b => Worse(a, b) \/ Worse(b, a)
  BY DEF Worse
<1>6. \A t \in SUBSET h : (\A x \in t : t \ {x} \in G) => t \in G
  <2> SUFFICES ASSUME NEW t \in SUBSET h, \A x \in t : t \ {x} \in G, t # {}
               PROVE  \E a \in t : \A b \in t \ {a} : Worse(a, b)
    OBVIOUS
  <2>1. PICK x \in t : TRUE
    OBVIOUS
  <2>2. CASE t \ {x} = {}
    BY <2>1, <2>2
  <2>3. CASE t \ {x} # {}
    <3>1. PICK a \in t \ {x} : \A b \in (t \ {x}) \ {a} : Worse(a, b)
      BY <2>1, <2>3
    <3>2. CASE Worse(a, x)
      BY <3>1, <3>2
    <3>3. CASE Worse(x, a)
      <4>1. \A b \in t \ {x} : Worse(x, b)
        BY <2>1, <3>1, <3>3 DEF Worse
      <4>. QED  BY <2>1, <4>1
    <3>4. Worse(a, x) \/ Worse(x, a)
      BY <1>3, <2>1, <3>1
    <3>. QED  BY <3>2, <3>3, <3>4
  <2>. QED  BY <2>2, <2>3
<1>7. (SUBSET h) \subseteq G
  <2>1. {} \in G
    OBVIOUS
  <2>. HIDE DEF G
  <2>. QED  BY <1>6, <2>1, SubsetInduction
<1>8. \E a \in h : \A b \in h \ {a} : Worse(a, b)
  BY <1>7
<1>9. Top(h) \in h /\ \A b \in h \ {Top(h)} : Worse(Top(h), b)
  BY <1>8 DEF Top
<1>. QED  BY <1>9 DEF Worse

(* The heap keeps the k best of what it has seen: the worst of them makes  *)
(* room for a better entry, and no other.                                  *)
LEMMA HeapKeeps ==
  ASSUME PricingInv, HeapIsBest, PoolEntry
  PROVE  HeapIsBest'
<1> DEFINE e == <<ColumnOf(inst.pool[pos]).cost, pos>>
<1>1. pos' = pos + 1 /\ opt' = opt /\ pos \in Nat \ {0} /\ opt.k \in Nat \ {0}
  BY PricingAssumption DEF PoolEntry, PricingInv
<1>2. /\ IsFiniteSet(found) /\ heap \subseteq found /\ IsFiniteSet(heap)
      /\ Cardinality(found) \in Nat /\ Cardinality(heap) \in Nat
      /\ \A b \in found : b[1] \in Int /\ b[2] \in Int /\ b[2] < pos /\ b = <<b[1], b[2]>>
  BY FS_Subset, FS_CardinalityType DEF HeapIsBest
<1>3. Cardinality(heap) = IF opt.k <= Cardinality(found) THEN opt.k ELSE Cardinality(found)
  BY <1>1, <1>2, MinOfTwo DEF HeapIsBest
<1>4. \A a \in heap, b \in found \ heap : a[1] >= b[1]
  BY DEF HeapIsBest
<1>5. CASE ~(ColumnOf(inst.pool[pos]).cost > One)
  <2>1. heap' = heap /\ found' = found
    BY <1>5 DEF PoolEntry
  <2>2. \A b \in found : b[2] < pos'
    BY <1>1, <1>2
  <2>. QED  BY <1>1, <1>2, <2>1, <2>2 DEF HeapIsBest
<1>6. CASE ColumnOf(inst.pool[pos]).cost > One
  <2>1. heap' = Kept(heap, e) /\ found' = found \cup {e}
    BY <1>6 DEF PoolEntry
  <2>2. ColumnOf(inst.pool[pos]).cost \in Int
    <3>1. inst \in Instances /\ pos \in 1 .. Len(inst.pool)
      BY InstanceFacts DEF PoolEntry, PricingInv
    <3>. QED  BY <3>1, InstanceFacts, ColumnOfFits DEF Columns
  <2>3. e[1] \in Int /\ e[2] = pos /\ e = <<e[1], e[2]>> /\ e \notin found
    BY <1>2, <2>2
  <2>. HIDE DEF e
  <2>4. IsFiniteSet(found') /\ Cardinality(found') = Cardinality(found) + 1
    BY <1>2, <2>1, <2>3, FS_AddElement
  <2>5. \A b \in found' : b[1] \in Int /\ b[2] \in Int /\ b[2] < pos' /\ b = <<b[1], b[2]>>
    BY <1>1, <1>2, <2>1, <2>3
  <2>6. /\ heap' \subseteq found'
        /\ Cardinality(heap') = IF opt.k <= Cardinality(found') THEN opt.k ELSE Cardinality(found')
        /\ \A a \in heap', b \in found' \ heap' : a[1] >= b[1]
    <3>1. CASE Cardinality(heap) < opt.k
      <4>1. Cardinality(heap) = Cardinality(found)
        BY <1>1, <1>2, <1>3, <3>1
      <4>2. heap = found
        BY <1>2, <4>1, FS_Subset
      <4>3. heap' = found'
        BY <2>1, <3>1, <4>2 DEF Kept
      <4>. QED  BY <1>1, <1>2, <2>4, <3>1, <4>1, <4>3
    <3>2. CASE ~(Cardinality(heap) < opt.k)
      <4> DEFINE top == Top(heap)
      <4>1. Cardinality(heap) = opt.k /\ opt.k <= Cardinality(found)
        BY <1>1, <1>2, <1>3, <3>2
      <4>2. top \in heap /\ \A a \in heap : top[1] <= a[1]
        <5>1. heap # {}
          BY <1>1, <4>1, FS_EmptySet
        <5>2. \A a \in heap : a[1] \in Int /\ a[2] \in Int /\ a = <<a[1], a[2]>>
          BY <1>2
        <5>. QED  BY <1>2, <5>1, <5>2, TopIs
      <4>3. heap' = IF e[1] > top[1] THEN (heap \ {top}) \cup {e} ELSE heap
        BY <2>1, <3>2 DEF Kept
      <4>. HIDE DEF top
      <4>4. CASE e[1] > top[1]
        <5>1. heap' = (heap \ {top}) \cup {e}
          BY <4>3, <4>4
        <5>2. IsFiniteSet(heap \ {top}) /\ Cardinality(heap \ {top}) = opt.k - 1
          BY <1>2, <4>1, <4>2, FS_RemoveElement
        <5>3. Cardinality(heap') = opt.k
          <6>1. e \notin heap \ {top}
            BY <1>2, <2>3
          <6>2. Cardinality((heap \ {top}) \cup {e}) = Cardinality(heap \ {top}) + 1
            BY <5>2, <6>1, FS_AddElement
          <6>. QED  BY <1>1, <5>1, <5>2, <6>2
        <5>4. heap' \subseteq found'
          BY <1>2, <2>1, <5>1
        <5>5. \A a \in heap' : top[1] <= a[1] /\ a[1] \in Int
          BY <1>2, <2>3, <4>2, <4>4, <5>1
        <5>6. \A b \in found' \ heap' : top[1] >= b[1] /\ b[1] \in Int
          BY <1>2, <1>4, <2>1, <4>2, <5>1
        <5>7. top[1] \in Int
          BY <1>2, <4>2
        <5>. QED  BY <1>1, <1>2, <2>4, <4>1, <5>3, <5>4, <5>5, <5>6, <5>7
      <4>5. CASE ~(e[1] > top[1])
        <5>1. heap' = heap
          BY <4>3, <4>5
        <5>2. \A a \in heap : a[1] >= e[1]
          BY <1>2, <2>3, <4>2, <4>5
        <5>. QED  BY <1>1, <1>2, <1>4, <2>1, <2>4, <4>1, <5>1, <5>2
      <4>. QED  BY <4>4, <4>5
    <3>. QED  BY <3>1, <3>2
  <2>7. Cardinality(heap') = Min({opt.k, Cardinality(found')})
    BY <1>1, <1>2, <2>4, <2>6, MinOfTwo
  <2>. QED  BY <1>1, <2>4, <2>5, <2>6, <2>7 DEF HeapIsBest
<1>. QED  BY <1>5, <1>6

(* The list of the greedy: in order of cost, without a column twice. *)
Key(c) == <<c.cost, c.ps, c.qs>>
Held(list) == {Key(list[i]) : i \in 1 .. Len(list)}
Sorted(list) ==
  \A i, j \in 1 .. Len(list) : i < j => list[i].cost <= list[j].cost
Different(list) ==
  \A i, j \in 1 .. Len(list) : i # j => ~IsSame(list[i], list[j])

(* The columns held are as many as the list is long. *)
LEMMA HeldCount ==
  ASSUME NEW list \in Seq(Priced), Different(list)
  PROVE  IsFiniteSet(Held(list)) /\ Cardinality(Held(list)) = Len(list)
<1> DEFINE n == Len(list)
           f == [i \in 1 .. n |-> Key(list[i])]
<1>1. f \in Bijection(1 .. n, Held(list))
  <2>1. f \in [1 .. n -> Held(list)]
    BY DEF Held
  <2>2. \A i, j \in 1 .. n : f[i] = f[j] => i = j
    BY DEF Different, IsSame, Key
  <2>3. \A k \in Held(list) : \E i \in 1 .. n : f[i] = k
    BY DEF Held
  <2>. HIDE DEF f
  <2>. QED  BY <2>1, <2>2, <2>3 DEF Bijection, Injection, Surjection, IsInjective
<1>2. ExistsBijection(1 .. n, Held(list)) /\ n \in Nat
  BY <1>1 DEF ExistsBijection
<1>3. IsFiniteSet(Held(list))
  BY <1>2, FS_NatBijection
<1>. QED  BY <1>2, <1>3, FS_CountingElements

(* Columns with the same parts have the same cost. *)
LEMMA SameKey ==
  ASSUME NEW c \in Priced, NEW d \in Priced
  PROVE  IsSame(c, d) <=> Key(c) = Key(d)
BY DEF IsSame, Key, Priced

(* The list without its first column, the cheapest. *)
LEMMA TailIs ==
  ASSUME NEW list \in Seq(Priced), list # << >>, Sorted(list), Different(list)
  PROVE  LET l == Tail(list)
         IN /\ l \in Seq(Priced) /\ Len(l) = Len(list) - 1 /\ Sorted(l) /\ Different(l)
            /\ Held(list) = Held(l) \cup {Key(list[1])}
            /\ \A i \in 1 .. Len(l) : l[i] = list[i + 1]
<1> DEFINE l == Tail(list)
<1>1. /\ l \in Seq(Priced) /\ Len(l) = Len(list) - 1 /\ Len(list) \in Nat \ {0}
      /\ \A i \in 1 .. Len(l) : l[i] = list[i + 1]
  BY HeadTailProperties
<1>. HIDE DEF l
<1>2. \A i \in 1 .. Len(l) : i + 1 \in 1 .. Len(list)
  BY <1>1
<1>3. Sorted(l)
  BY <1>1, <1>2 DEF Sorted
<1>4. Different(l)
  BY <1>1, <1>2 DEF Different
<1>5. Held(list) = Held(l) \cup {Key(list[1])}
  <2>1. Held(l) \subseteq Held(list) /\ Key(list[1]) \in Held(list)
    BY <1>1, <1>2 DEF Held
  <2>2. ASSUME NEW i \in 1 .. Len(list)
        PROVE  Key(list[i]) \in Held(l) \cup {Key(list[1])}
    <3>1. CASE i = 1
      BY <3>1
    <3>2. CASE i # 1
      <4>1. i - 1 \in 1 .. Len(l) /\ l[i - 1] = list[i]
        BY <1>1, <3>2
      <4>. QED  BY <4>1 DEF Held
    <3>. QED  BY <3>1, <3>2
  <2>3. Held(list) \subseteq Held(l) \cup {Key(list[1])}
    BY <2>2 DEF Held
  <2>. QED  BY <2>1, <2>3
<1>. QED  BY <1>1, <1>3, <1>4, <1>5 DEF l

(* A column that is not there yet comes into the list. *)
LEMMA InsertedKeeps ==
  ASSUME NEW l \in Seq(Priced), Sorted(l), Different(l), NEW c \in Priced,
         \A i \in 1 .. Len(l) : ~IsSame(c, l[i])
  PROVE  LET r == Inserted(l, c)
         IN /\ r \in Seq(Priced) /\ Len(r) = Len(l) + 1 /\ Sorted(r) /\ Different(r)
            /\ Held(r) = Held(l) \cup {Key(c)}
<1> DEFINE n == Len(l)
           r == Inserted(l, c)
<1>1. l \in Seq(Columns) /\ c \in Columns /\ n \in Nat
  BY DEF Priced, Worthies, WorthAtLeast
<1>2. PICK m \in 1 .. n + 1 :
        /\ r = InsertAt(l, m, c)
        /\ \A i \in 1 .. m - 1 : l[i].cost <= c.cost
        /\ m <= n => l[m].cost > c.cost
  BY <1>1, InsertedIs
<1>. HIDE DEF r
<1>3. /\ r \in Seq(Priced) /\ Len(r) = n + 1
      /\ \A i \in 1 .. n + 1 :
           r[i] = IF i < m THEN l[i] ELSE IF i = m THEN c ELSE l[i - 1]
  <2>1. l \in Seq(Priced) /\ c \in Priced /\ m \in 1 .. Len(l) + 1
    OBVIOUS
  <2>2. Extended(Priced, l, m, c, InsertAt(l, m, c))
    BY <2>1, PutIn
  <2>3. /\ r \in Seq(Priced) /\ Len(r) = n + 1 /\ r[m] = c
        /\ \A i \in 1 .. m - 1 : r[i] = l[i]
        /\ \A i \in m + 1 .. n + 1 : r[i] = l[i - 1]
    BY ONLY <1>2, <2>2 DEF Extended
  <2>4. ASSUME NEW i \in 1 .. n + 1
        PROVE  r[i] = IF i < m THEN l[i] ELSE IF i = m THEN c ELSE l[i - 1]
    <3>1. m \in Int /\ i \in Int /\ n \in Int /\ 1 <= i /\ i <= n + 1
      BY <1>1
    <3>2. CASE i < m
      <4>1. i \in 1 .. m - 1
        BY ONLY <3>1, <3>2
      <4>. QED  BY ONLY <2>3, <3>2, <4>1
    <3>3. CASE i = m
      BY ONLY <2>3, <3>1, <3>3
    <3>4. CASE i > m
      <4>1. i \in m + 1 .. n + 1 /\ ~(i < m) /\ i # m
        BY ONLY <3>1, <3>4
      <4>. QED  BY ONLY <2>3, <4>1
    <3>. QED  BY ONLY <3>1, <3>2, <3>3, <3>4
  <2>. QED  BY ONLY <2>3, <2>4
<1>4. \A i \in 1 .. n + 1 : /\ i < m => i \in 1 .. m - 1 /\ i \in 1 .. n
                            /\ i > m => i - 1 \in m .. n /\ i - 1 \in 1 .. n
  BY <1>1
<1>5. \A i \in 1 .. n : l[i].cost \in Int /\ c.cost \in Int
  <2>1. \A d \in Columns : d.cost \in Int
    BY DEF Columns
  <2>2. \A i \in 1 .. n : l[i] \in Columns
    BY <1>1
  <2>. QED  BY <1>1, <2>1, <2>2
<1>6. \A i \in m .. n : c.cost <= l[i].cost
  <2>1. TAKE i \in m .. n
  <2>2. m <= n /\ m \in 1 .. n /\ i \in 1 .. n /\ l[m].cost > c.cost
    BY <1>1, <1>2, <2>1
  <2>3. i = m \/ l[m].cost <= l[i].cost
    BY <2>1, <2>2 DEF Sorted
  <2>. QED  BY <1>5, <2>2, <2>3
<1>7. Sorted(r)
  <2> SUFFICES ASSUME NEW i \in 1 .. n + 1, NEW j \in 1 .. n + 1, i < j
               PROVE  r[i].cost <= r[j].cost
    BY <1>3 DEF Sorted
  <2>1. CASE j < m
    BY <1>3, <1>4, <2>1 DEF Sorted
  <2>2. CASE j = m
    <3>1. r[i] = l[i] /\ i \in 1 .. m - 1 /\ r[j] = c
      BY <1>3, <1>4, <2>2
    <3>. QED  BY <1>2, <3>1
  <2>3. CASE j > m /\ i = m
    BY <1>3, <1>4, <1>6, <2>3
  <2>4. CASE j > m /\ i < m
    <3>1. r[i] = l[i] /\ i \in 1 .. m - 1 /\ i \in 1 .. n
      BY <1>3, <1>4, <2>4
    <3>2. r[j] = l[j - 1] /\ j - 1 \in m .. n /\ j - 1 \in 1 .. n
      BY <1>3, <1>4, <2>4
    <3>3. l[i].cost <= c.cost /\ c.cost <= l[j - 1].cost
      BY <1>2, <1>6, <3>1, <3>2
    <3>. QED  BY <1>5, <3>1, <3>2, <3>3
  <2>5. CASE i > m
    <3>1. r[i] = l[i - 1] /\ i - 1 \in 1 .. n
      BY <1>3, <1>4, <2>5
    <3>2. r[j] = l[j - 1] /\ j - 1 \in 1 .. n /\ i - 1 < j - 1
      BY <1>3, <1>4, <2>5
    <3>. QED  BY <3>1, <3>2 DEF Sorted
  <2>. QED  BY <1>1, <2>1, <2>2, <2>3, <2>4, <2>5
<1>8. Different(r)
  <2> DEFINE at(i) == IF i < m THEN i ELSE i - 1
  <2>1. \A i \in 1 .. n + 1 : i # m => r[i] = l[at(i)] /\ at(i) \in 1 .. n
    BY <1>1, <1>3, <1>4
  <2>2. \A i, j \in 1 .. n + 1 : i # m /\ j # m /\ i # j => at(i) # at(j)
    BY <1>1
  <2>. HIDE DEF at
  <2>3. r[m] = c
    BY <1>3
  <2>4. \A i \in 1 .. n : ~IsSame(l[i], c)
    BY DEF IsSame
  <2> SUFFICES ASSUME NEW i \in 1 .. n + 1, NEW j \in 1 .. n + 1, i # j
               PROVE  ~IsSame(r[i], r[j])
    BY <1>3 DEF Different
  <2>5. CASE i # m /\ j # m
    <3>1. /\ r[i] = l[at(i)] /\ at(i) \in 1 .. n
          /\ r[j] = l[at(j)] /\ at(j) \in 1 .. n /\ at(i) # at(j)
      BY <2>1, <2>2, <2>5
    <3>. QED  BY <3>1 DEF Different
  <2>6. CASE i = m
    BY <2>1, <2>3, <2>6
  <2>7. CASE j = m
    BY <2>1, <2>3, <2>4, <2>7
  <2>. QED  BY <2>5, <2>6, <2>7
<1>9. Held(r) = Held(l) \cup {Key(c)}
  <2>1. ASSUME NEW i \in 1 .. n PROVE \E j \in 1 .. n + 1 : r[j] = l[i]
    <3>1. CASE i < m
      <4>1. i \in 1 .. n + 1 /\ r[i] = l[i]
        BY <1>1, <1>3, <3>1
      <4>. QED  BY <4>1
    <3>2. CASE ~(i < m)
      <4>1. i + 1 \in 1 .. n + 1 /\ ~(i + 1 < m) /\ i + 1 # m /\ (i + 1) - 1 = i
        BY <1>1, <3>2
      <4>2. r[i + 1] = l[i]
        BY <1>3, <4>1
      <4>. QED  BY <4>1, <4>2
    <3>. QED  BY <3>1, <3>2
  <2>2. r[m] = c
    BY <1>3
  <2>3. \A i \in 1 .. n + 1 : r[i] = c \/ \E j \in 1 .. n : r[i] = l[j]
    BY <1>1, <1>3, <1>4
  <2>4. Held(l) \subseteq Held(r)
    BY <1>3, <2>1 DEF Held
  <2>5. Key(c) \in Held(r)
    BY <1>3, <2>2 DEF Held
  <2>6. Held(r) \subseteq Held(l) \cup {Key(c)}
    BY <1>3, <2>3 DEF Held
  <2>. QED  BY <2>4, <2>5, <2>6
<1>. QED  BY <1>3, <1>7, <1>8, <1>9 DEF r

(* The list is the best of the columns in F. *)
ListIsBest(list, F) ==
  /\ list \in Seq(Priced) /\ Sorted(list) /\ Different(list)
  /\ IsFiniteSet(F) /\ Held(list) \subseteq F
  /\ \A b \in F : b[1] \in Int
  /\ Len(list) = Min({opt.k, Cardinality(F)})
  /\ \A a \in Held(list), b \in F \ Held(list) : a[1] >= b[1]

(* What the list becomes is the best of F and the new column.              *)
LEMMA CandidateKeeps ==
  ASSUME opt \in Options, NEW list, NEW F, ListIsBest(list, F), NEW c \in Columns,
         Matches(c), c.cost = Value(c.ps, c.qs)
  PROVE  ListIsBest(WithCandidate(list, c), IF c.cost > One THEN F \cup {Key(c)} ELSE F)
<1> DEFINE n == Len(list)
           k == opt.k
           e == Key(c)
           G == F \cup {e}
<1>1. /\ list \in Seq(Priced) /\ Sorted(list) /\ Different(list) /\ n \in Nat
      /\ IsFiniteSet(F) /\ Held(list) \subseteq F /\ Cardinality(F) \in Nat
      /\ \A b \in F : b[1] \in Int
      /\ \A a \in Held(list), b \in F \ Held(list) : a[1] >= b[1]
  BY FS_CardinalityType DEF ListIsBest
<1>2. k \in Nat \ {0} /\ n = IF k <= Cardinality(F) THEN k ELSE Cardinality(F)
  <2>1. k \in Nat \ {0}
    BY PricingAssumption
  <2>. QED  BY <1>1, <2>1, MinOfTwo DEF ListIsBest
<1>3. c.cost \in Int /\ One \in Int /\ e[1] = c.cost
  BY PricingAssumption DEF Columns, Key
<1>4. CASE c.cost <= One
  <2>1. WithCandidate(list, c) = list /\ ~(c.cost > One)
    BY <1>3, <1>4 DEF WithCandidate
  <2>. QED  BY <2>1
<1>5. CASE ~(c.cost <= One)
  <2>1. c.cost > One /\ c \in Priced
    BY <1>3, <1>5 DEF Priced, Worthies, WorthAtLeast
  <2>. HIDE DEF e
  <2>2. /\ IsFiniteSet(G) /\ \A b \in G : b[1] \in Int
        /\ Cardinality(G) = IF e \in F THEN Cardinality(F) ELSE Cardinality(F) + 1
    BY <1>1, <1>3, FS_AddElement
  <2>3. Cardinality(G) \in Nat
    BY <1>1, <2>2
  <2>4. \A r : /\ r \in Seq(Priced) /\ Sorted(r) /\ Different(r) /\ Held(r) \subseteq G
               /\ Len(r) = IF k <= Cardinality(G) THEN k ELSE Cardinality(G)
               /\ \A a \in Held(r), b \in G \ Held(r) : a[1] >= b[1]
               => ListIsBest(r, G)
    BY <1>2, <2>2, <2>3, MinOfTwo DEF ListIsBest
  <2>5. \A a \in Held(list) : n # 0 /\ list[1].cost <= a[1] /\ a[1] \in Int
    <3>1. TAKE a \in Held(list)
    <3>2. PICK i \in 1 .. n : a = Key(list[i])
      BY DEF Held
    <3>3. a[1] = list[i].cost /\ a[1] \in Int
      BY <1>1, <3>2 DEF Key
    <3>4. i = 1 \/ (1 \in 1 .. n /\ 1 < i)
      BY <1>1, <3>2
    <3>. QED  BY <1>1, <3>2, <3>3, <3>4 DEF Sorted
  <2>6. n # 0 => Key(list[1]) \in Held(list) /\ Key(list[1])[1] = list[1].cost
    <3>1. n # 0 => 1 \in 1 .. n
      BY <1>1
    <3>. QED  BY <3>1 DEF Held, Key
  <2>7. CASE n >= k /\ c.cost < list[1].cost
    <3>1. WithCandidate(list, c) = list
      BY <2>7 DEF WithCandidate
    <3>2. n = k /\ k <= Cardinality(F) /\ k <= Cardinality(G)
      BY <1>1, <1>2, <2>2, <2>7
    <3>3. \A a \in Held(list) : a[1] >= e[1]
      <4>1. n # 0 => list[1].cost \in Int
        BY <1>1, <2>6
      <4>. QED  BY <1>3, <2>5, <2>7, <4>1
    <3>4. \A a \in Held(list), b \in G \ Held(list) : a[1] >= b[1]
      BY <1>1, <3>3
    <3>. QED  BY <1>1, <2>1, <2>4, <3>1, <3>2, <3>4 DEF e
  <2>8. CASE \E d \in Range(list) : IsSame(c, d)
    <3>1. WithCandidate(list, c) = list
      BY <2>8 DEF WithCandidate
    <3>2. PICK i \in 1 .. n : IsSame(c, list[i])
      BY <1>1, <2>8 DEF Range
    <3>3. e = Key(list[i]) /\ e \in Held(list)
      BY <1>1, <2>1, <3>2, SameKey DEF Held, e
    <3>4. G = F
      BY <1>1, <3>3
    <3>. QED  BY <2>1, <3>1, <3>4 DEF e
  <2>9. CASE ~(n >= k /\ c.cost < list[1].cost) /\ ~(\E d \in Range(list) : IsSame(c, d))
    <3> DEFINE l == IF n = k THEN Tail(list) ELSE list
               r == Inserted(l, c)
    <3>1. WithCandidate(list, c) = r
      BY <1>5, <2>9 DEF WithCandidate
    <3>2. \A i \in 1 .. n : ~IsSame(c, list[i])
      BY <1>1, <2>9 DEF Range
    <3>3. e \notin Held(list)
      BY <1>1, <2>1, <3>2, SameKey DEF Held, e
    <3>4. CASE n < k
      <4>1. l = list
        BY <1>1, <1>2, <3>4
      <4>2. /\ r \in Seq(Priced) /\ Len(r) = n + 1 /\ Sorted(r) /\ Different(r)
            /\ Held(r) = Held(list) \cup {e}
        <5>. HIDE DEF l
        <5>. QED  BY <1>1, <2>1, <3>2, <4>1, InsertedKeeps DEF e
      <4>3. Held(list) = F
        <5>1. Cardinality(Held(list)) = Cardinality(F)
          BY <1>1, <1>2, <3>4, HeldCount
        <5>. QED  BY <1>1, <5>1, FS_Subset
      <4>4. Held(r) = G /\ Cardinality(G) = n + 1
        BY <1>1, <1>2, <2>2, <3>3, <3>4, <4>2, <4>3
      <4>5. Len(r) = IF k <= Cardinality(G) THEN k ELSE Cardinality(G)
        BY <1>1, <1>2, <3>4, <4>2, <4>4
      <4>. HIDE DEF r
      <4>6. ListIsBest(r, G)
        BY <2>4, <4>2, <4>4, <4>5
      <4>. QED  BY <2>1, <3>1, <4>6 DEF e
    <3>5. CASE ~(n < k)
      <4>1. n = k /\ k <= Cardinality(F) /\ k <= Cardinality(G) /\ list # << >>
        BY <1>1, <1>2, <2>2, <3>5
      <4>2. l = Tail(list)
        BY <4>1
      <4>3. /\ l \in Seq(Priced) /\ Len(l) = n - 1 /\ Sorted(l) /\ Different(l)
            /\ Held(list) = Held(l) \cup {Key(list[1])}
            /\ \A i \in 1 .. Len(l) : l[i] = list[i + 1]
        <5>. HIDE DEF l
        <5>. QED  BY <1>1, <4>1, <4>2, TailIs
      <4>. HIDE DEF l
      <4>4. \A i \in 1 .. Len(l) : ~IsSame(c, l[i])
        <5>1. \A i \in 1 .. Len(l) : i + 1 \in 1 .. n
          BY <1>1, <4>3
        <5>. QED  BY <3>2, <4>3, <5>1
      <4>5. /\ r \in Seq(Priced) /\ Len(r) = n /\ Sorted(r) /\ Different(r)
            /\ Held(r) = Held(l) \cup {e}
        BY <1>1, <2>1, <4>3, <4>4, InsertedKeeps DEF e
      <4>. HIDE DEF r
      <4>6. Held(r) \subseteq G
        BY <1>1, <4>3, <4>5
      <4>7. /\ n # 0 /\ list[1].cost \in Int /\ list[1].cost <= c.cost
            /\ Key(list[1]) \in Held(list) /\ Key(list[1])[1] = list[1].cost
        <5>1. n # 0
          BY <1>2, <4>1
        <5>2. list[1].cost \in Int
          BY <1>1, <2>6, <5>1
        <5>. QED  BY <1>1, <1>2, <1>3, <2>6, <2>9, <4>1, <5>1, <5>2
      <4>8. \A a \in Held(r) : list[1].cost <= a[1] /\ a[1] \in Int
        BY <1>3, <2>5, <4>3, <4>5, <4>7
      <4>9. \A b \in G \ Held(r) : b[1] <= list[1].cost /\ b[1] \in Int
        <5>1. TAKE b \in G \ Held(r)
        <5>2. b \in F /\ (b = Key(list[1]) \/ b \notin Held(list))
          BY <4>3, <4>5
        <5>. QED  BY <1>1, <4>7, <5>2
      <4>10. \A a \in Held(r), b \in G \ Held(r) : a[1] >= b[1]
        BY <4>7, <4>8, <4>9
      <4>11. ListIsBest(r, G)
        BY <2>4, <4>1, <4>5, <4>6, <4>10
      <4>. QED  BY <2>1, <3>1, <4>11 DEF e
    <3>. QED  BY <3>4, <3>5
  <2>. QED  BY <2>7, <2>8, <2>9
<1>. QED  BY <1>4, <1>5

(* Where the round stands, as far as the best columns go. *)
BestInv ==
  /\ stage = "pool" => HeapIsBest /\ cols = << >>
  /\ stage \notin {"pool", "done"} => ListIsBest(cols, found)

(* Nothing has been found when a round starts. *)
LEMMA BestInit == Init => BestInv
<1> SUFFICES ASSUME Init PROVE BestInv
  OBVIOUS
<1>1. stage = "pool" /\ heap = {} /\ found = {} /\ cols = << >> /\ opt.k \in Nat
  BY PricingAssumption DEF Init
<1>2. IsFiniteSet({}) /\ Cardinality({}) = 0
  BY FS_EmptySet
<1>3. Min({opt.k, 0}) = 0
  BY <1>1, MinOfTwo
<1>. QED  BY <1>1, <1>2, <1>3 DEF BestInv, HeapIsBest

(* A list stays the best while it and what has been seen stay. *)
LEMMA ListKept ==
  ASSUME UNCHANGED <<inst, opt>>
  PROVE  \A list, F : ListIsBest(list, F)' <=> ListIsBest(list, F)
<1>1. Priced' = Priced /\ opt' = opt
  BY RoundKept
<1>. QED  BY <1>1 DEF ListIsBest, Sorted, Different, Held, Key, IsSame

(* Every step of a round keeps the best of what it has found. *)
LEMMA BestStep == PricingInv /\ BestInv /\ [Next]_vars => BestInv'
<1> SUFFICES ASSUME PricingInv, BestInv, [Next]_vars PROVE BestInv'
  OBVIOUS
<1>1. CASE PoolEntry
  <2>1. /\ stage = "pool" /\ stage' = "pool" /\ cols' = cols
    BY <1>1 DEF PoolEntry
  <2>. QED  BY <1>1, <2>1, HeapKeeps DEF BestInv
<1>2. ASSUME NEW s, s = stage, s \in {"greedy", "pq", "p"}, NEW columns, AddOrGoOn(s, columns),
             UNCHANGED <<inst, opt, cols, found>>
      PROVE  BestInv'
  <2>1. stage' \notin {"pool"}
    <3>1. s \in Range(Stages) /\ s # "exact"
      BY <1>2 DEF PricingInv
    <3>2. stage' = "done" \/ stage' = After(s)
      BY <1>2 DEF AddOrGoOn, Return
    <3>. QED  BY <3>1, <3>2, AfterIs
  <2>2. ListIsBest(cols, found)
    BY <1>2 DEF BestInv
  <2>. QED  BY <1>2, <2>1, <2>2, ListKept DEF BestInv
<1>3. CASE AddFromPool
  <2> DEFINE order == InOrder(heap, Worse)
             n == Cardinality(heap)
             columns == [j \in DOMAIN order |-> ColumnOf(inst.pool[order[j][2]])]
  <2>1. n \in Nat /\ order \in [1 .. n -> heap]
    BY HeapInOrder
  <2>2. /\ AddOrGoOn("pool", columns) /\ stage = "pool" /\ UNCHANGED <<inst, opt, cols, found>>
    BY <1>3 DEF AddFromPool
  <2>3. CASE columns # << >>
    <3>1. stage' = "done"
      BY <2>2, <2>3 DEF AddOrGoOn, Return
    <3>. QED  BY <3>1 DEF BestInv
  <2>4. CASE columns = << >>
    <3>1. n = 0
      <4>. HIDE DEF order, n
      <4>1. DOMAIN columns = 1 .. n
        BY <2>1
      <4>. HIDE DEF columns
      <4>. QED  BY <2>1, <2>4, <4>1
    <3>2. IsFiniteSet(found) /\ Cardinality(found) \in Nat /\ opt.k \in Nat \ {0} /\ opt \in Options
      BY <2>2, FS_CardinalityType, PricingAssumption DEF BestInv, HeapIsBest, PricingInv
    <3>3. Cardinality(found) = 0
      BY <2>2, <3>1, <3>2, MinOfTwo DEF BestInv, HeapIsBest
    <3>4. found = {} /\ cols = << >>
      BY <2>2, <3>2, <3>3, FS_EmptySet DEF BestInv
    <3>5. ListIsBest(cols, found)
      <4>1. Held(<< >>) = {}
        BY DEF Held
      <4>2. Min({opt.k, 0}) = 0
        BY <3>2, MinOfTwo
      <4>. QED  BY <3>2, <3>3, <3>4, <4>1, <4>2 DEF ListIsBest, Sorted, Different
    <3>6. stage' = After("pool") /\ "pool" \in Range(Stages)
      BY <2>2, <2>4 DEF AddOrGoOn, PricingInv
    <3>7. stage' # "pool"
      BY <3>6, AfterIs
    <3>. QED  BY <2>2, <3>5, <3>7, ListKept DEF BestInv
  <2>. QED  BY <2>3, <2>4
<1>4. CASE StartHeur \/ HeurVertex
  <2>1. /\ UNCHANGED <<inst, opt, cols, found>> /\ stage \notin {"pool", "done"}
        /\ stage' = "heur"
    BY <1>4 DEF StartHeur, HeurVertex
  <2>. QED  BY <2>1, ListKept DEF BestInv
<1>5. CASE EndHeur
  <2>1. /\ UNCHANGED <<inst, opt>> /\ stage = "heur" /\ stage' = "greedy"
        /\ cols' = WithCandidate(cols, stab)
        /\ found' = IF stab.cost > One THEN found \cup {Key(stab)} ELSE found
    BY <1>5 DEF EndHeur, Key
  <2>2. /\ ListIsBest(cols, found) /\ opt \in Options
        /\ stab \in Columns /\ Matches(stab) /\ stab.cost = Value(stab.ps, stab.qs)
    BY <2>1 DEF BestInv, PricingInv, Building
  <2>3. ListIsBest(cols', found')
    BY <2>1, <2>2, CandidateKeeps
  <2>4. ListIsBest(cols, found)'
    BY <2>1, <2>3, ListKept
  <2>. QED  BY <2>1, <2>4 DEF BestInv
<1>6. CASE AddFromGreedy
  <2>1. /\ AddOrGoOn("greedy", Reverse(cols)) /\ stage = "greedy"
        /\ UNCHANGED <<inst, opt, cols, found>>
    BY <1>6 DEF AddFromGreedy
  <2>. QED  BY <1>2, <2>1
<1>7. CASE PricePQ
  <2>1. PICK columns : AddOrGoOn("pq", columns)
    BY <1>7 DEF PricePQ
  <2>2. stage = "pq" /\ UNCHANGED <<inst, opt, cols, found>>
    BY <1>7 DEF PricePQ
  <2>. QED  BY <1>2, <2>1, <2>2
<1>8. CASE PriceP
  <2>1. /\ stage = "p" /\ UNCHANGED <<inst, opt, cols, found>>
        /\ Return(0) \/ \E columns : AddOrGoOn("p", columns)
    BY <1>8 DEF PriceP
  <2>2. CASE Return(0)
    BY <2>2 DEF Return, BestInv
  <2>3. CASE \E columns : AddOrGoOn("p", columns)
    BY <1>2, <2>1, <2>3
  <2>. QED  BY <2>1, <2>2, <2>3
<1>9. CASE Stopped \/ Optimal \/ Limit
  <2>1. stage' = "done"
    BY <1>9 DEF Stopped, Optimal, Limit, Return
  <2>. QED  BY <2>1 DEF BestInv
<1>10. CASE UNCHANGED vars
  <2>1. UNCHANGED <<inst, opt, stage, pos, heap, cols, found>>
    BY <1>10 DEF vars
  <2>2. HeapIsBest' = HeapIsBest
    BY <2>1 DEF HeapIsBest
  <2>. QED  BY <2>1, <2>2, ListKept DEF BestInv
<1>. QED  BY <1>1, <1>3, <1>4, <1>5, <1>6, <1>7, <1>8, <1>9, <1>10 DEF Next

(* The heap of the pool and the list of the greedy hold the k best of the  *)
(* different columns they have seen, however these came.                   *)
THEOREM BestAreKept == Spec => []KeepsTheBest
<1>1. Init => BestInv
  BY BestInit
<1>2. PricingInv /\ BestInv /\ [Next]_vars => BestInv'
  BY BestStep
<1>3. PricingInv /\ BestInv => KeepsTheBest
  <2> SUFFICES ASSUME PricingInv, BestInv, stage \in {"pool", "greedy"} PROVE KeepsTheBest
    BY DEF KeepsTheBest
  <2>1. CASE stage = "pool"
    BY <2>1 DEF KeepsTheBest, BestInv, HeapIsBest
  <2>2. CASE stage = "greedy"
    <3>1. ListIsBest(cols, found)
      BY <2>2 DEF BestInv
    <3>2. {<<c.cost, c.ps, c.qs>> : c \in Range(cols)} = Held(cols)
      <4>1. DOMAIN cols = 1 .. Len(cols)
        BY <3>1 DEF ListIsBest
      <4>. QED  BY <4>1, Zenon DEF Range, Held, Key
    <3>3. Cardinality(Held(cols)) = Min({opt.k, Cardinality(found)})
      BY <3>1, HeldCount DEF ListIsBest
    <3>. QED  BY <2>2, <3>1, <3>2, <3>3 DEF KeepsTheBest, ListIsBest
  <2>. QED  BY <2>1, <2>2
<1>. QED  BY <1>1, <1>2, <1>3, RoundIsSound, PTL DEF Spec
=============================================================================
