------------------------------- MODULE Totals -------------------------------
(***************************************************************************)
(* Totals over finite sets, as MapThenSumSet of the community modules      *)
(* computes them: what the proofs about money, food and minutes need.      *)
(***************************************************************************)
EXTENDS Integers, FiniteSets, FiniteSetsExt, FiniteSetTheorems, WellFoundedInduction, TLAPS

(* The element MapThenSumSet takes next.                                   *)
Next1(s) == CHOOSE x \in s : TRUE

(* g is the recursive function by which MapThenSumSet adds f up over S.    *)
Adds(g, f, S) ==
  g = [s \in SUBSET S |-> IF s = {} THEN 0 ELSE f[Next1(s)] + g[s \ {Next1(s)}]]

Total(f, S) == (CHOOSE g : Adds(g, f, S))[S]

-----------------------------------------------------------------------------

(* A nonempty set of numbers has a least element.                          *)
LEMMA Smallest ==
  ASSUME NEW N, N \subseteq Nat, N # {}
  PROVE  \E n \in N : \A m \in N : n <= m
<1>1. PICK n \in N : \A m \in N : ~(<<m, n>> \in OpToRel(<, Nat))
  BY WFMin, NatLessThanWellFounded
<1>2. ASSUME NEW m \in N PROVE n <= m
  <2>1. n \in Nat /\ m \in Nat
    OBVIOUS
  <2>2. ~(m < n)
    BY <1>1, <2>1 DEF OpToRel
  <2>3. QED BY <2>1, <2>2
<1>3. QED BY <1>2

(* What is taken next is there, and one element less remains.              *)
LEMMA TakeNext ==
  ASSUME NEW s, IsFiniteSet(s), s # {}
  PROVE  /\ Next1(s) \in s
         /\ IsFiniteSet(s \ {Next1(s)})
         /\ Cardinality(s \ {Next1(s)}) \in Nat
         /\ Cardinality(s) \in Nat
         /\ Cardinality(s \ {Next1(s)}) < Cardinality(s)
<1>1. Next1(s) \in s
  BY DEF Next1
<1>2. /\ IsFiniteSet(s \ {Next1(s)})
      /\ Cardinality(s \ {Next1(s)}) = Cardinality(s) - 1
  BY <1>1, FS_RemoveElement
<1>3. Cardinality(s) \in Nat /\ Cardinality(s \ {Next1(s)}) \in Nat
  BY <1>2, FS_CardinalityType
<1>4. QED BY <1>1, <1>2, <1>3

(* Two such functions agree on the finite sets both are defined on.        *)
LEMMA AddsUnique ==
  ASSUME NEW f, NEW S, NEW T, NEW g, NEW h, Adds(g, f, S), Adds(h, f, T),
         NEW s, IsFiniteSet(s), s \subseteq S, s \subseteq T
  PROVE  g[s] = h[s]
<1>1. DEFINE Bad == {t \in SUBSET s : g[t] # h[t]}
             N == {Cardinality(t) : t \in Bad}
<1>2. SUFFICES ASSUME Bad # {} PROVE FALSE
  OBVIOUS
<1>3. \A t \in SUBSET s : IsFiniteSet(t) /\ Cardinality(t) \in Nat
  BY FS_Subset, FS_CardinalityType
<1>4. N \subseteq Nat /\ N # {}
  BY <1>2, <1>3
<1>5. PICK n \in N : \A m \in N : n <= m
  <2> HIDE DEF N
  <2> QED BY <1>4, Smallest
<1>6. PICK t \in Bad : n = Cardinality(t)
  OBVIOUS
<1>7. t # {}
  BY <1>6 DEF Adds
<1>8. DEFINE rest == t \ {Next1(t)}
<1>9. rest \in SUBSET s /\ Cardinality(rest) < Cardinality(t) /\ Cardinality(rest) \in Nat
  BY <1>3, <1>6, <1>7, TakeNext
<1>10. rest \notin Bad
  <2>1. SUFFICES ASSUME rest \in Bad PROVE FALSE
    OBVIOUS
  <2>2. Cardinality(rest) \in N
    BY <2>1
  <2>3. n <= Cardinality(rest)
    BY <1>5, <2>2
  <2>4. Cardinality(t) \in Nat
    BY <1>3, <1>6
  <2>5. QED BY <1>6, <1>9, <2>3, <2>4
<1>11. g[rest] = h[rest]
  BY <1>9, <1>10
<1>12. g[t] = f[Next1(t)] + g[rest] /\ h[t] = f[Next1(t)] + h[rest]
  BY <1>6, <1>7 DEF Adds
<1>13. QED BY <1>6, <1>11, <1>12

(* The function exists for every finite set.                               *)
LEMMA AddsExists ==
  ASSUME NEW f, NEW S, IsFiniteSet(S)
  PROVE  \E g : Adds(g, f, S)
<1>1. DEFINE Bad == {t \in SUBSET S : ~\E g : Adds(g, f, t)}
             N == {Cardinality(t) : t \in Bad}
<1>2. SUFFICES ASSUME Bad # {} PROVE FALSE
  OBVIOUS
<1>3. \A t \in SUBSET S : IsFiniteSet(t) /\ Cardinality(t) \in Nat
  BY FS_Subset, FS_CardinalityType
<1>4. N \subseteq Nat /\ N # {}
  BY <1>2, <1>3
<1>5. PICK n \in N : \A m \in N : n <= m
  <2> HIDE DEF N
  <2> QED BY <1>4, Smallest
<1>6. PICK T \in Bad : n = Cardinality(T)
  OBVIOUS
<1>7. \A s \in SUBSET T : s # T => \E g : Adds(g, f, s)
  <2>1. ASSUME NEW s \in SUBSET T, s # T PROVE s \notin Bad
    <3>1. SUFFICES ASSUME s \in Bad PROVE FALSE
      OBVIOUS
    <3>2. IsFiniteSet(T) /\ Cardinality(T) \in Nat /\ Cardinality(s) \in Nat
      BY <1>3, <1>6, <2>1
    <3>3. Cardinality(s) < Cardinality(T)
      BY <2>1, <3>2, FS_Subset
    <3>4. n <= Cardinality(s)
      BY <1>5, <3>1
    <3>5. QED BY <1>6, <3>2, <3>3, <3>4
  <2>2. QED BY <1>6, <2>1
<1>8. \A s \in SUBSET T : s # T => Adds(CHOOSE g : Adds(g, f, s), f, s)
  BY <1>7
<1>9. DEFINE G == [s \in SUBSET T |->
                     IF s = {} THEN 0 ELSE f[Next1(s)] + Total(f, s \ {Next1(s)})]
<1>10. ASSUME NEW s \in SUBSET T, s # T PROVE G[s] = Total(f, s)
  <2>1. PICK g : g = (CHOOSE e : Adds(e, f, s)) /\ Adds(g, f, s)
    BY <1>8, <1>10
  <2>2. g[s] = Total(f, s)
    BY <2>1 DEF Total
  <2>3. CASE s = {}
    BY <2>1, <2>2, <2>3 DEF Adds
  <2>4. CASE s # {}
    <3>1. DEFINE rest == s \ {Next1(s)}
    <3>2. IsFiniteSet(s) /\ IsFiniteSet(rest) /\ rest \in SUBSET T /\ Next1(s) \in s
      BY <1>3, <1>6, <2>4, TakeNext
    <3>3. rest # T
      BY <1>10, <3>2
    <3>4. PICK h : h = (CHOOSE e : Adds(e, f, rest)) /\ Adds(h, f, rest)
      BY <1>8, <3>2, <3>3
    <3>5. g[rest] = h[rest]
      BY <2>1, <3>2, <3>4, AddsUnique
    <3>6. h[rest] = Total(f, rest)
      BY <3>4 DEF Total
    <3>7. g[s] = f[Next1(s)] + g[rest]
      BY <2>1, <2>4 DEF Adds
    <3>8. QED BY <2>2, <2>4, <3>5, <3>6, <3>7
  <2>5. QED BY <2>3, <2>4
<1>11. Adds(G, f, T)
  <2>1. ASSUME NEW s \in SUBSET T, s # {}
        PROVE  G[s \ {Next1(s)}] = Total(f, s \ {Next1(s)})
    <3>1. s \ {Next1(s)} \in SUBSET T /\ s \ {Next1(s)} # T
      BY <1>3, <1>6, <2>1, TakeNext
    <3>2. QED BY <1>10, <3>1
  <2>2. \A s \in SUBSET T :
          G[s] = IF s = {} THEN 0 ELSE f[Next1(s)] + G[s \ {Next1(s)}]
    BY <2>1
  <2>3. G = [s \in SUBSET T |-> IF s = {} THEN 0 ELSE f[Next1(s)] + G[s \ {Next1(s)}]]
    BY <2>2
  <2> HIDE DEF G
  <2>4. QED BY <2>3 DEF Adds
<1>12. QED BY <1>6, <1>11

(* Any such function gives the total.                                      *)
LEMMA AddsTotal ==
  ASSUME NEW f, NEW T, NEW g, Adds(g, f, T), NEW S, IsFiniteSet(S), S \subseteq T
  PROVE  g[S] = Total(f, S)
<1>1. PICK h : h = (CHOOSE e : Adds(e, f, S)) /\ Adds(h, f, S)
  BY AddsExists
<1>2. g[S] = h[S]
  BY <1>1, AddsUnique
<1>3. QED BY <1>1, <1>2 DEF Total

(* Nothing adds up to nothing.                                             *)
LEMMA TotalOfNothing ==
  ASSUME NEW f
  PROVE  Total(f, {}) = 0
<1>1. IsFiniteSet({})
  BY FS_EmptySet
<1>2. PICK g : Adds(g, f, {})
  BY <1>1, AddsExists
<1>3. g[{}] = 0
  BY <1>2 DEF Adds
<1>4. QED BY <1>1, <1>2, <1>3, AddsTotal

(* The order in which elements are taken does not matter.                  *)
LEMMA TotalTake ==
  ASSUME NEW D, NEW f \in [D -> Int], NEW S, IsFiniteSet(S), S \subseteq D, NEW x \in S
  PROVE  /\ Total(f, S) \in Int
         /\ Total(f, S) = f[x] + Total(f, S \ {x})
<1>1. DEFINE Takes(t) == \A y \in t : Total(f, t) = f[y] + Total(f, t \ {y})
             Bad == {t \in SUBSET S : ~(Total(f, t) \in Int /\ Takes(t))}
             N == {Cardinality(t) : t \in Bad}
<1>2. SUFFICES ASSUME Bad # {} PROVE FALSE
  OBVIOUS
<1>3. \A t \in SUBSET S : IsFiniteSet(t) /\ Cardinality(t) \in Nat
  BY FS_Subset, FS_CardinalityType
<1>4. N \subseteq Nat /\ N # {}
  <2> HIDE DEF Takes
  <2> QED BY <1>2, <1>3
<1>5. PICK n \in N : \A m \in N : n <= m
  <2> HIDE DEF N
  <2> QED BY <1>4, Smallest
<1>6. PICK T \in Bad : n = Cardinality(T)
  <2> HIDE DEF Bad
  <2> QED OBVIOUS
<1>7. ASSUME NEW s \in SUBSET T, Cardinality(s) < Cardinality(T)
      PROVE  Total(f, s) \in Int /\ Takes(s)
  <2>1. SUFFICES ASSUME s \in Bad PROVE FALSE
    <3> HIDE DEF Takes
    <3> QED BY <1>6
  <2> HIDE DEF Bad
  <2>2. T \in SUBSET S
    BY <1>6 DEF Bad
  <2>3. Cardinality(T) \in Nat /\ Cardinality(s) \in Nat
    BY <1>3, <1>7, <2>2
  <2>4. n <= Cardinality(s)
    BY <1>5, <2>1
  <2>5. QED BY <1>6, <1>7, <2>3, <2>4
<1>8. T \in SUBSET S /\ IsFiniteSet(T)
  <2>1. T \in SUBSET S
    BY <1>6
  <2>2. QED BY <1>3, <2>1
<1>9. T # {}
  <2>1. SUFFICES ASSUME T = {} PROVE FALSE
    OBVIOUS
  <2>2. Total(f, T) = 0 /\ Takes(T)
    BY <2>1, TotalOfNothing
  <2> HIDE DEF Takes
  <2>3. QED BY <1>6, <2>2
<1>10. DEFINE z == Next1(T)
<1>11. z \in T /\ Cardinality(T \ {z}) < Cardinality(T) /\ IsFiniteSet(T \ {z})
  BY <1>8, <1>9, TakeNext
<1>12. Total(f, T) = f[z] + Total(f, T \ {z})
  <2>1. PICK g : Adds(g, f, T)
    BY <1>8, AddsExists
  <2>2. g[T] = Total(f, T) /\ g[T \ {z}] = Total(f, T \ {z})
    BY <1>8, <1>11, <2>1, AddsTotal
  <2>3. g[T] = f[z] + g[T \ {z}]
    BY <1>9, <2>1 DEF Adds
  <2>4. QED BY <2>2, <2>3
<1>13. Total(f, T \ {z}) \in Int /\ Takes(T \ {z})
  BY <1>7, <1>11
<1>14. \A y \in T : f[y] \in Int
  BY <1>8
<1>15. Total(f, T) \in Int
  BY <1>11, <1>12, <1>13, <1>14
<1>16. ASSUME NEW y \in T PROVE Total(f, T) = f[y] + Total(f, T \ {y})
  <2>1. CASE y = z
    BY <1>12, <2>1
  <2>2. CASE y # z
    <3>1. Cardinality(T \ {y}) < Cardinality(T)
      <4>1. Cardinality(T \ {y}) = Cardinality(T) - 1 /\ Cardinality(T) \in Nat
        BY <1>8, FS_RemoveElement, FS_CardinalityType
      <4>2. QED BY <4>1
    <3>2. Total(f, T \ {y}) \in Int /\ Takes(T \ {y})
      BY <1>7, <3>1
    <3>3. Total(f, T \ {y}) = f[z] + Total(f, (T \ {y}) \ {z})
      BY <1>11, <2>2, <3>2
    <3>4. Total(f, T \ {z}) = f[y] + Total(f, (T \ {z}) \ {y})
      BY <1>13, <2>2
    <3>5. (T \ {z}) \ {y} = (T \ {y}) \ {z}
      OBVIOUS
    <3>6. Total(f, (T \ {y}) \ {z}) \in Int
      <4>1. DEFINE t == (T \ {y}) \ {z}
      <4>2. IsFiniteSet(T \ {y}) /\ z \in T \ {y}
        BY <1>8, <1>11, <2>2, FS_RemoveElement
      <4>3. Cardinality(t) = Cardinality(T \ {y}) - 1 /\ Cardinality(T \ {y}) \in Nat
        <5>1. Cardinality(T \ {y}) \in Nat
          BY <4>2, FS_CardinalityType
        <5>2. PICK R : R = T \ {y}
          OBVIOUS
        <5> HIDE DEF z
        <5>3. Cardinality(R \ {z}) = Cardinality(R) - 1
          BY <4>2, <5>2, FS_RemoveElement
        <5>4. QED BY <5>1, <5>2, <5>3
      <4>4. Cardinality(T \ {y}) = Cardinality(T) - 1 /\ Cardinality(T) \in Nat
        BY <1>8, FS_RemoveElement, FS_CardinalityType
      <4>5. Cardinality(t) < Cardinality(T)
        BY <4>3, <4>4
      <4>6. QED BY <1>7, <4>5
    <3>7. f[y] \in Int /\ f[z] \in Int
      BY <1>11, <1>14
    <3>8. Total(f, T) = f[z] + (f[y] + Total(f, (T \ {y}) \ {z}))
      BY <1>12, <3>4, <3>5
    <3>9. Total(f, T \ {y}) = f[z] + Total(f, (T \ {y}) \ {z})
      BY <3>3
    <3> HIDE DEF z
    <3>10. QED BY <3>6, <3>7, <3>8, <3>9
  <2>3. QED BY <2>1, <2>2
<1>17. Takes(T)
  BY <1>16
<1> HIDE DEF Takes
<1>18. QED BY <1>6, <1>15, <1>17

(* Amounts that are not negative add up to an amount that is not negative. *)
LEMMA TotalType ==
  ASSUME NEW D, NEW f \in [D -> Nat], NEW S, IsFiniteSet(S), S \subseteq D
  PROVE  Total(f, S) \in Nat
<1>1. DEFINE Bad == {t \in SUBSET S : Total(f, t) \notin Nat}
             N == {Cardinality(t) : t \in Bad}
<1>2. SUFFICES ASSUME Bad # {} PROVE FALSE
  OBVIOUS
<1>3. \A t \in SUBSET S : IsFiniteSet(t) /\ Cardinality(t) \in Nat
  BY FS_Subset, FS_CardinalityType
<1>4. N \subseteq Nat /\ N # {}
  BY <1>2, <1>3
<1>5. PICK n \in N : \A m \in N : n <= m
  <2> HIDE DEF N
  <2> QED BY <1>4, Smallest
<1>6. PICK T \in Bad : n = Cardinality(T)
  OBVIOUS
<1>7. T # {}
  BY <1>6, TotalOfNothing
<1>8. PICK x \in T : TRUE
  BY <1>7
<1>9. IsFiniteSet(T) /\ Cardinality(T) \in Nat /\ T \subseteq S
  BY <1>3, <1>6
<1>10. Cardinality(T \ {x}) = Cardinality(T) - 1
  BY <1>9, FS_RemoveElement
<1>11. T \ {x} \notin Bad
  <2>1. SUFFICES ASSUME T \ {x} \in Bad PROVE FALSE
    OBVIOUS
  <2>2. n <= Cardinality(T \ {x})
    BY <1>5, <2>1
  <2>3. QED BY <1>6, <1>9, <1>10, <2>2
<1>12. Total(f, T \ {x}) \in Nat
  BY <1>9, <1>11
<1>13. f[x] \in Nat /\ f \in [D -> Int] /\ T \subseteq D
  BY <1>9
<1>14. Total(f, T) = f[x] + Total(f, T \ {x})
  BY <1>9, <1>13, TotalTake
<1>15. QED BY <1>6, <1>12, <1>13, <1>14

(* One element more.                                                       *)
LEMMA TotalAdd ==
  ASSUME NEW D, NEW f \in [D -> Nat], NEW S, IsFiniteSet(S), S \subseteq D,
         NEW x \in D, x \notin S
  PROVE  Total(f, S \cup {x}) = f[x] + Total(f, S)
<1>1. IsFiniteSet(S \cup {x}) /\ S \cup {x} \subseteq D /\ (S \cup {x}) \ {x} = S
  BY FS_AddElement
<1>2. f \in [D -> Int]
  OBVIOUS
<1>3. x \in S \cup {x}
  OBVIOUS
<1>4. Total(f, S \cup {x}) = f[x] + Total(f, (S \cup {x}) \ {x})
  BY <1>1, <1>2, <1>3, TotalTake
<1>5. QED BY <1>1, <1>4

(* Two sets without a common element add up separately.                    *)
LEMMA TotalUnion ==
  ASSUME NEW D, NEW f \in [D -> Nat], NEW S, IsFiniteSet(S), S \subseteq D,
         NEW U, IsFiniteSet(U), U \subseteq D, S \cap U = {}
  PROVE  /\ Total(f, S \cup U) = Total(f, S) + Total(f, U)
         /\ Total(f, S) \in Nat /\ Total(f, U) \in Nat
<1>1. DEFINE Bad == {t \in SUBSET U : Total(f, S \cup t) # Total(f, S) + Total(f, t)}
             N == {Cardinality(t) : t \in Bad}
<1>2. Total(f, S) \in Nat /\ Total(f, U) \in Nat
  BY TotalType
<1>3. SUFFICES ASSUME Bad # {} PROVE FALSE
  BY <1>2
<1>4. \A t \in SUBSET U : IsFiniteSet(t) /\ Cardinality(t) \in Nat
  BY FS_Subset, FS_CardinalityType
<1>5. N \subseteq Nat /\ N # {}
  BY <1>3, <1>4
<1>6. PICK n \in N : \A m \in N : n <= m
  <2> HIDE DEF N
  <2> QED BY <1>5, Smallest
<1>7. PICK T \in Bad : n = Cardinality(T)
  OBVIOUS
<1>8. T # {}
  <2>1. SUFFICES ASSUME T = {} PROVE FALSE
    OBVIOUS
  <2>2. S \cup T = S /\ Total(f, T) = 0
    BY <2>1, TotalOfNothing
  <2>3. QED BY <1>2, <1>7, <2>2
<1>9. PICK x \in T : TRUE
  BY <1>8
<1>10. IsFiniteSet(T) /\ Cardinality(T) \in Nat /\ T \subseteq U
  BY <1>4, <1>7
<1>11. DEFINE rest == T \ {x}
<1>12. IsFiniteSet(rest) /\ Cardinality(rest) = Cardinality(T) - 1
  BY <1>10, FS_RemoveElement
<1>13. rest \notin Bad
  <2>1. SUFFICES ASSUME rest \in Bad PROVE FALSE
    OBVIOUS
  <2>2. n <= Cardinality(rest)
    BY <1>6, <2>1
  <2>3. QED BY <1>7, <1>10, <1>12, <2>2
<1>14. Total(f, S \cup rest) = Total(f, S) + Total(f, rest)
  BY <1>10, <1>13
<1>15. /\ IsFiniteSet(S \cup rest) /\ S \cup rest \subseteq D
       /\ x \in D /\ x \notin S \cup rest /\ x \notin rest /\ rest \subseteq D
       /\ (S \cup rest) \cup {x} = S \cup T /\ rest \cup {x} = T
  BY <1>10, <1>12, FS_Union
<1>16. Total(f, S \cup T) = f[x] + Total(f, S \cup rest)
  <2>1. PICK R : R = S \cup rest
    OBVIOUS
  <2>2. IsFiniteSet(R) /\ R \subseteq D /\ x \in D /\ x \notin R
    BY <1>15, <2>1
  <2>3. Total(f, R \cup {x}) = f[x] + Total(f, R)
    BY <2>2, TotalAdd
  <2>4. R \cup {x} = S \cup T
    BY <1>15, <2>1
  <2>5. QED BY <2>1, <2>3, <2>4
<1>17. Total(f, T) = f[x] + Total(f, rest)
  <2>1. PICK R : R = rest
    OBVIOUS
  <2>2. IsFiniteSet(R) /\ R \subseteq D /\ x \in D /\ x \notin R
    BY <1>12, <1>15, <2>1
  <2>3. Total(f, R \cup {x}) = f[x] + Total(f, R)
    BY <2>2, TotalAdd
  <2>4. R \cup {x} = T
    BY <1>15, <2>1
  <2>5. QED BY <2>1, <2>3, <2>4
<1>18. Total(f, rest) \in Nat /\ f[x] \in Nat
  BY <1>12, <1>15, TotalType
<1> HIDE DEF rest
<1>19. QED BY <1>2, <1>7, <1>14, <1>16, <1>17, <1>18

(* A part adds up to no more than the whole.                               *)
LEMMA TotalPart ==
  ASSUME NEW D, NEW f \in [D -> Nat], NEW S, IsFiniteSet(S), S \subseteq D,
         NEW T, T \subseteq S
  PROVE  /\ Total(f, S \ T) = Total(f, S) - Total(f, T)
         /\ Total(f, T) <= Total(f, S)
         /\ Total(f, S) \in Nat /\ Total(f, T) \in Nat
<1>1. IsFiniteSet(T) /\ IsFiniteSet(S \ T)
  BY FS_Subset, FS_Difference
<1>2. /\ T \subseteq D /\ S \ T \subseteq D
      /\ T \cup (S \ T) = S /\ T \cap (S \ T) = {}
  OBVIOUS
<1>3. Total(f, T \cup (S \ T)) = Total(f, T) + Total(f, S \ T)
  BY <1>1, <1>2, TotalUnion
<1>4. Total(f, T) \in Nat /\ Total(f, S \ T) \in Nat
  BY <1>1, <1>2, TotalType
<1>5. Total(f, S) = Total(f, T) + Total(f, S \ T)
  BY <1>2, <1>3
<1>6. QED BY <1>4, <1>5

(* Only one element.                                                       *)
LEMMA TotalOfOne ==
  ASSUME NEW D, NEW f \in [D -> Nat], NEW x \in D
  PROVE  Total(f, {x}) = f[x]
<1>1. IsFiniteSet({}) /\ {} \cup {x} = {x}
  BY FS_EmptySet
<1>2. Total(f, {} \cup {x}) = f[x] + Total(f, {})
  BY <1>1, TotalAdd
<1>3. f[x] \in Nat
  OBVIOUS
<1>4. QED BY <1>1, <1>2, <1>3, TotalOfNothing

(* Only what is added up counts.                                           *)
LEMMA TotalSame ==
  ASSUME NEW f, NEW h, NEW S, IsFiniteSet(S), \A x \in S : f[x] = h[x]
  PROVE  Total(f, S) = Total(h, S)
<1>1. PICK g : Adds(g, f, S)
  BY AddsExists
<1>2. \A s \in SUBSET S : s # {} => Next1(s) \in S
  BY DEF Next1
<1>3. \A s \in SUBSET S : s # {} => f[Next1(s)] = h[Next1(s)]
  BY <1>2
<1>4. Adds(g, h, S)
  BY <1>1, <1>3 DEF Adds
<1>5. QED BY <1>1, <1>4, AddsTotal

-----------------------------------------------------------------------------
(* Going step by step.                                                     *)

(* What is true at first and stays true is always true.                    *)
LEMMA StepByStep ==
  ASSUME NEW n \in Nat, NEW S, 0 \in S,
         \A i \in 0 .. n : i # n /\ i \in S => i + 1 \in S
  PROVE  \A i \in 0 .. n : i \in S
<1> DEFINE Bad == {i \in 0 .. n : i \notin S}
<1>1. SUFFICES ASSUME Bad # {} PROVE FALSE
  OBVIOUS
<1>2. PICK i \in Bad : \A j \in Bad : i <= j
  <2>1. Bad \subseteq Nat
    OBVIOUS
  <2> HIDE DEF Bad
  <2>2. QED BY <1>1, <2>1, Smallest
<1>3. i \in 1 .. n /\ i - 1 \in 0 .. n /\ i - 1 # n /\ ~(i <= i - 1)
  OBVIOUS
<1>4. i - 1 \in S
  BY <1>2, <1>3
<1>5. (i - 1) + 1 \in S
  BY <1>3, <1>4
<1>6. (i - 1) + 1 = i
  BY <1>3
<1>7. QED BY <1>5, <1>6

(* The greatest of the first numbers.                                      *)
LEMMA Greatest ==
  ASSUME NEW n \in Nat, NEW s \in SUBSET (1 .. n + 1), n + 1 \in s
  PROVE  Max(s) = n + 1
<1>1. \A x \in s : n + 1 >= x
  OBVIOUS
<1>2. \A x \in s : (\A y \in s : x >= y) => x = n + 1
  OBVIOUS
<1>3. QED BY <1>1, <1>2 DEF Max

=============================================================================
