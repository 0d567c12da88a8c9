----------------------------- MODULE ViewsProofs -----------------------------
(***************************************************************************)
(* Theorems about what the pages show of one store (Views.tla), for every  *)
(* desk.                                                                   *)
(***************************************************************************)
EXTENDS Views, TLAPS, FiniteSetTheorems, SequenceTheorems, WellFoundedInduction

-----------------------------------------------------------------------------
(***************************************************************************)
(* Sums (SumFunctionOnSet): they add up over disjoint parts, however the   *)
(* parts are cut.                                                          *)
(***************************************************************************)
(* A set of numbers has a least one.                                       *)
LEMMA LeastNat ==
  ASSUME NEW T \in SUBSET Nat, T # {}
  PROVE  \E n \in T : \A m \in T : n <= m
<1>. DEFINE R == {e \in Nat \X Nat : e[1] < e[2]}
<1>1. IsWellFoundedOn(R, Nat)
  <2>1. R = OpToRel(<, Nat)
    BY Zenon DEF OpToRel
  <2>. QED BY <2>1, NatLessThanWellFounded, Zenon
<1>2. PICK n \in T : \A m \in T : ~ (<<m, n>> \in R)
  <2>. HIDE DEF R
  <2>. QED BY <1>1, WFMin, Zenon
<1>3. ASSUME NEW m \in T PROVE n <= m
  <2>1. m \in Nat /\ n \in Nat /\ ~ (<<m, n>> \in R)
    BY <1>2
  <2>2. ~ (m < n)
    BY <2>1
  <2>. QED BY <2>1, <2>2
<1>. QED BY <1>3

(* A non-empty collection of finite sets has one with no other inside it.  *)
LEMMA LeastSet ==
  ASSUME NEW C, C # {}, \A s \in C : IsFiniteSet(s)
  PROVE  \E s \in C : \A t \in C : t \subseteq s => t = s
<1>. DEFINE T == {Cardinality(s) : s \in C}
<1>1. T \in SUBSET Nat /\ T # {}
  BY FS_CardinalityType
<1>2. PICK n \in T : \A m \in T : n <= m
  <2>. HIDE DEF T
  <2>. QED BY <1>1, LeastNat
<1>3. PICK s \in C : n = Cardinality(s)
  OBVIOUS
<1>4. ASSUME NEW t \in C, t \subseteq s, t # s PROVE FALSE
  <2>1. Cardinality(t) < Cardinality(s)
    <3>1. t \in SUBSET s /\ IsFiniteSet(s) /\ IsFiniteSet(t)
      BY <1>4
    <3>2. Cardinality(t) <= Cardinality(s) /\ Cardinality(t) # Cardinality(s)
      BY <1>4, <3>1, FS_Subset
    <3>. QED BY <3>1, <3>2, FS_CardinalityType
  <2>2. Cardinality(s) <= Cardinality(t) /\ Cardinality(t) \in Nat /\ Cardinality(s) \in Nat
    BY <1>2, <1>3, <1>1
  <2>. QED BY <2>1, <2>2
<1>. QED BY <1>4

(* What SumFunctionOnSet chooses: a g that takes the members out of a set  *)
(* one by one and adds up their values.                                    *)
IsSum(g, f, S) ==
  g = [s \in SUBSET S |->
         IF s = {} THEN 0 ELSE f[CHOOSE x \in s : TRUE] + g[s \ {CHOOSE x \in s : TRUE}]]

(* The sum is such a g at the whole set.                                   *)
LEMMA SumDef == ASSUME NEW f, NEW S
  PROVE SumFunctionOnSet(f, S) = (CHOOSE g : IsSum(g, f, S))[S]
BY DEF SumFunctionOnSet, FoldFunctionOnSet, MapThenFoldSet, IsSum

(* The member a fold takes out next.                                       *)
Fst(s) == CHOOSE x \in s : TRUE

(* It is a member.                                                         *)
LEMMA FstIn == ASSUME NEW s, s # {} PROVE Fst(s) \in s
BY DEF Fst

(* One step of the sum.                                                    *)
LEMMA SumAt ==
  ASSUME NEW g, NEW f, NEW S, IsSum(g, f, S), NEW s \in SUBSET S
  PROVE  /\ s = {} => g[s] = 0
         /\ s # {} => g[s] = f[Fst(s)] + g[s \ {Fst(s)}]
BY DEF IsSum, Fst

(* Two such g agree on every finite set.                                   *)
LEMMA SumsAgree ==
  ASSUME NEW f, NEW S, NEW T, IsFiniteSet(S), NEW g, NEW h, IsSum(g, f, S), IsSum(h, f, T),
         NEW s \in SUBSET (S \cap T)
  PROVE  g[s] = h[s]
<1>. DEFINE C == {t \in SUBSET (S \cap T) : g[t] # h[t]}
<1>1. SUFFICES ASSUME C # {} PROVE FALSE
  OBVIOUS
<1>2. \A t \in C : IsFiniteSet(t)
  BY FS_Subset
<1>3. PICK t \in C : \A u \in C : u \subseteq t => u = t
  <2>. HIDE DEF C
  <2>. QED BY <1>1, <1>2, LeastSet
<1>4. t \in SUBSET S /\ t \in SUBSET T
  OBVIOUS
<1>5. t # {}
  BY <1>4, SumAt
<1>6. Fst(t) \in t
  BY <1>5, FstIn
<1>7. t \ {Fst(t)} \notin C
  <2>. HIDE DEF C
  <2>. QED BY <1>3, <1>6
<1>8. g[t \ {Fst(t)}] = h[t \ {Fst(t)}]
  BY <1>7, <1>4
<1>9. g[t] = f[Fst(t)] + g[t \ {Fst(t)}]
  BY <1>4, <1>5, SumAt
<1>10. h[t] = f[Fst(t)] + h[t \ {Fst(t)}]
  BY <1>4, <1>5, SumAt
<1>. QED BY <1>8, <1>9, <1>10

(* There is one for every finite set.                                      *)
LEMMA SumExists ==
  ASSUME NEW f, NEW S, IsFiniteSet(S)
  PROVE  \E g : IsSum(g, f, S)
<1>. DEFINE C == {t \in SUBSET S : ~ \E g : IsSum(g, f, t)}
<1>1. SUFFICES ASSUME C # {} PROVE FALSE
  OBVIOUS
<1>2. \A t \in C : IsFiniteSet(t)
  BY FS_Subset
<1>3. PICK t \in C : \A u \in C : u \subseteq t => u = t
  <2>. HIDE DEF C
  <2>. QED BY <1>1, <1>2, LeastSet
<1>. DEFINE G(u) == CHOOSE g : IsSum(g, f, u)
            h == [u \in SUBSET t |->
                    IF u = {} THEN 0 ELSE f[Fst(u)] + G(u \ {Fst(u)})[u \ {Fst(u)}]]
<1>4. \A u \in SUBSET t : u # t => IsSum(G(u), f, u)
  <2>1. SUFFICES ASSUME NEW u \in SUBSET t, u # t PROVE \E g : IsSum(g, f, u)
    OBVIOUS
  <2>2. u \notin C /\ u \in SUBSET S
    <3>1. t \in SUBSET S
      OBVIOUS
    <3>. HIDE DEF C
    <3>. QED BY <2>1, <1>3, <3>1
  <2>. QED BY <2>2
<1>5. ASSUME NEW u \in SUBSET t, u # {}
      PROVE  h[u \ {Fst(u)}] = G(u \ {Fst(u)})[u \ {Fst(u)}]
  <2>. DEFINE v == u \ {Fst(u)}
  <2>1. Fst(u) \in u /\ v \in SUBSET t /\ v # t
    BY <1>5, FstIn
  <2>2. IsSum(G(v), f, v)
    BY <2>1, <1>4
  <2>3. h[v] = IF v = {} THEN 0 ELSE f[Fst(v)] + G(v \ {Fst(v)})[v \ {Fst(v)}]
    <3>. HIDE DEF v, G
    <3>. QED BY <2>1
  <2>4. CASE v = {}
    <3>1. G(v)[v] = 0
      <4>. HIDE DEF G, v
      <4>. QED BY <2>2, <2>4, SumAt
    <3>. HIDE DEF h, G
    <3>. QED BY <3>1, <2>3, <2>4
  <2>5. CASE v # {}
    <3>. DEFINE w == v \ {Fst(v)}
    <3>1. Fst(v) \in v /\ w \in SUBSET t /\ w # t /\ w \in SUBSET (v \cap w)
      BY <2>5, <2>1, FstIn
    <3>2. IsSum(G(w), f, w)
      BY <3>1, <1>4
    <3>3. G(v)[v] = f[Fst(v)] + G(v)[w]
      <4>. HIDE DEF G, v
      <4>. QED BY <2>2, <2>5, SumAt
    <3>4. G(v)[w] = G(w)[w]
      <4>1. IsFiniteSet(v)
        BY <2>1, <1>2, FS_Subset
      <4>. HIDE DEF G, v, w
      <4>. QED BY <2>2, <3>1, <3>2, SumsAgree, <4>1
    <3>5. h[v] = f[Fst(v)] + G(w)[w]
      BY <2>3, <2>5
    <3>6. h[v] = G(v)[v]
      <4>. HIDE DEF G, v, w, h
      <4>. QED BY <3>3, <3>4, <3>5
    <3>. HIDE DEF G, h
    <3>. QED BY <3>6
  <2>. QED BY <2>4, <2>5
<1>6. IsSum(h, f, t)
  <2>1. \A u \in SUBSET t :
          h[u] = IF u = {} THEN 0 ELSE f[Fst(u)] + h[u \ {Fst(u)}]
    <3>1. ASSUME NEW u \in SUBSET t, u # {} PROVE h[u] = f[Fst(u)] + h[u \ {Fst(u)}]
      <4>1. h[u] = f[Fst(u)] + G(u \ {Fst(u)})[u \ {Fst(u)}]
        BY <3>1
      <4>2. h[u \ {Fst(u)}] = G(u \ {Fst(u)})[u \ {Fst(u)}]
        BY <1>5, <3>1
      <4>. HIDE DEF h, G
      <4>. QED BY <4>1, <4>2
    <3>2. h[{}] = 0
      OBVIOUS
    <3>. HIDE DEF h
    <3>. QED BY <3>1, <3>2
  <2>2. h = [u \in SUBSET t |-> h[u]]
    OBVIOUS
  <2>. HIDE DEF h
  <2>. QED BY <2>1, <2>2 DEF IsSum, Fst
<1>. QED BY <1>6, <1>3

(* So the sum unfolds.                                                     *)
LEMMA SumIs ==
  ASSUME NEW f, NEW S, IsFiniteSet(S)
  PROVE  \E g : IsSum(g, f, S) /\ SumFunctionOnSet(f, S) = g[S]
<1>. DEFINE g == CHOOSE h : IsSum(h, f, S)
<1>1. IsSum(g, f, S)
  BY SumExists
<1>2. SumFunctionOnSet(f, S) = g[S]
  BY SumDef
<1>. QED BY <1>1, <1>2

(* The sum over nothing is 0.                                              *)
LEMMA SumOfNone == ASSUME NEW f PROVE SumFunctionOnSet(f, {}) = 0
<1>1. IsFiniteSet({})
  BY FS_EmptySet
<1>2. PICK g : IsSum(g, f, {}) /\ SumFunctionOnSet(f, {}) = g[{}]
  BY <1>1, SumIs
<1>. QED BY <1>2, SumAt

(* The sum of a set by the member taken out first.                         *)
LEMMA SumPicks ==
  ASSUME NEW f, NEW S, IsFiniteSet(S), S # {}
  PROVE  SumFunctionOnSet(f, S) = f[Fst(S)] + SumFunctionOnSet(f, S \ {Fst(S)})
<1>. DEFINE T == S \ {Fst(S)}
<1>1. IsFiniteSet(T) /\ Fst(S) \in S
  BY FS_RemoveElement, FstIn
<1>2. PICK g : IsSum(g, f, S) /\ SumFunctionOnSet(f, S) = g[S]
  BY SumIs
<1>3. PICK h : IsSum(h, f, T) /\ SumFunctionOnSet(f, T) = h[T]
  BY <1>1, SumIs
<1>4. g[S] = f[Fst(S)] + g[T]
  BY <1>2, SumAt
<1>5. g[T] = h[T]
  <2>1. T \in SUBSET (S \cap T)
    OBVIOUS
  <2>. HIDE DEF T
  <2>. QED BY <1>2, <1>3, SumsAgree, <2>1
<1>. QED BY <1>2, <1>3, <1>4, <1>5

(* The sum of numbers is a number, whichever is taken out first.           *)
LEMMA SumNat ==
  ASSUME NEW f, NEW S, IsFiniteSet(S), \A x \in S : f[x] \in Nat
  PROVE  SumFunctionOnSet(f, S) \in Nat
<1>. DEFINE C == {t \in SUBSET S : SumFunctionOnSet(f, t) \notin Nat}
<1>1. SUFFICES ASSUME C # {} PROVE FALSE
  OBVIOUS
<1>2. \A t \in C : IsFiniteSet(t)
  BY FS_Subset
<1>3. PICK t \in C : \A u \in C : u \subseteq t => u = t
  <2>. HIDE DEF C
  <2>. QED BY <1>1, <1>2, LeastSet
<1>4. t # {} /\ IsFiniteSet(t) /\ t \in SUBSET S
  BY SumOfNone, <1>2
<1>5. Fst(t) \in t /\ t \ {Fst(t)} \in SUBSET S
  BY <1>4, FstIn
<1>6. t \ {Fst(t)} \notin C
  <2>. HIDE DEF C
  <2>. QED BY <1>3, <1>5
<1>7. SumFunctionOnSet(f, t \ {Fst(t)}) \in Nat
  BY <1>5, <1>6
<1>8. SumFunctionOnSet(f, t) = f[Fst(t)] + SumFunctionOnSet(f, t \ {Fst(t)})
  BY <1>4, SumPicks
<1>9. f[Fst(t)] \in Nat
  BY <1>4, <1>5
<1>. QED BY <1>7, <1>8, <1>9, <1>3

(* The sum of integers is one, whichever is taken out first.               *)
LEMMA SumInt ==
  ASSUME NEW f, NEW S, IsFiniteSet(S), \A x \in S : f[x] \in Int
  PROVE  SumFunctionOnSet(f, S) \in Int
<1>. DEFINE C == {t \in SUBSET S : SumFunctionOnSet(f, t) \notin Int}
<1>1. SUFFICES ASSUME C # {} PROVE FALSE
  OBVIOUS
<1>2. \A t \in C : IsFiniteSet(t)
  BY FS_Subset
<1>3. PICK t \in C : \A u \in C : u \subseteq t => u = t
  <2>. HIDE DEF C
  <2>. QED BY <1>1, <1>2, LeastSet
<1>4. t # {} /\ IsFiniteSet(t) /\ t \in SUBSET S
  BY SumOfNone, <1>2
<1>5. Fst(t) \in t /\ t \ {Fst(t)} \in SUBSET S
  BY <1>4, FstIn
<1>6. t \ {Fst(t)} \notin C
  <2>. HIDE DEF C
  <2>. QED BY <1>3, <1>5
<1>7. SumFunctionOnSet(f, t \ {Fst(t)}) \in Int
  BY <1>5, <1>6
<1>8. SumFunctionOnSet(f, t) = f[Fst(t)] + SumFunctionOnSet(f, t \ {Fst(t)})
  BY <1>4, SumPicks
<1>9. f[Fst(t)] \in Int
  BY <1>4, <1>5
<1>. QED BY <1>7, <1>8, <1>9, <1>3

(* Any member can be taken out.                                            *)
LEMMA SumTakesInt ==
  ASSUME NEW f, NEW S, IsFiniteSet(S), \A x \in S : f[x] \in Int, NEW x \in S
  PROVE  SumFunctionOnSet(f, S) = f[x] + SumFunctionOnSet(f, S \ {x})
<1>. DEFINE Ok(t, z) == SumFunctionOnSet(f, t) = f[z] + SumFunctionOnSet(f, t \ {z})
            C == {t \in SUBSET S : \E z \in t : ~ Ok(t, z)}
<1>1. SUFFICES ASSUME C # {} PROVE FALSE
  <2>1. S \in SUBSET S /\ S \notin C
    BY <1>1
  <2>. QED BY <2>1
<1>2. \A t \in C : IsFiniteSet(t)
  BY FS_Subset
<1>3. PICK t \in C : \A u \in C : u \subseteq t => u = t
  <2>. HIDE DEF C
  <2>. QED BY <1>1, <1>2, LeastSet
<1>4. PICK z \in t : ~ Ok(t, z)
  OBVIOUS
<1>. DEFINE y == Fst(t)
            r == (t \ {z}) \ {y}
<1>5. IsFiniteSet(t) /\ t \in SUBSET S /\ y \in t
  BY <1>2, <1>4, FstIn
<1>6. SumFunctionOnSet(f, t) = f[y] + SumFunctionOnSet(f, t \ {y})
  BY <1>4, <1>5, SumPicks
<1>7. y # z
  BY <1>4, <1>6
<1>8. ASSUME NEW u \in t, NEW v \in t \ {u}
      PROVE  SumFunctionOnSet(f, t \ {u}) = f[v] + SumFunctionOnSet(f, (t \ {u}) \ {v})
  <2>1. t \ {u} \in SUBSET S /\ t \ {u} \notin C
    <3>1. t \ {u} \in SUBSET S /\ t \ {u} \subseteq t /\ t \ {u} # t
      BY <1>5
    <3>. HIDE DEF C
    <3>. QED BY <1>3, <3>1
  <2>2. Ok(t \ {u}, v)
    BY <2>1
  <2>. QED BY <2>2
<1>9. SumFunctionOnSet(f, t \ {y}) = f[z] + SumFunctionOnSet(f, r)
  <2>1. (t \ {y}) \ {z} = r
    OBVIOUS
  <2>. HIDE DEF r, y
  <2>. QED BY <1>8, <1>7, <1>5, <2>1
<1>10. SumFunctionOnSet(f, t \ {z}) = f[y] + SumFunctionOnSet(f, r)
  <2>. HIDE DEF y
  <2>. QED BY <1>8, <1>7, <1>5
<1>11. SumFunctionOnSet(f, r) \in Int /\ f[z] \in Int /\ f[y] \in Int
  <2>1. IsFiniteSet(r) /\ r \in SUBSET S
    BY <1>5, FS_RemoveElement
  <2>2. \A x_1 \in r : f[x_1] \in Int
    BY <2>1
  <2>. HIDE DEF r, y
  <2>. QED BY <2>1, <2>2, SumInt, <1>5
<1>. HIDE DEF r, y
<1>. QED BY <1>4, <1>6, <1>9, <1>10, <1>11

(* Only the values on the set count.                                       *)
LEMMA SumSame ==
  ASSUME NEW f, NEW g, NEW S, IsFiniteSet(S), \A x \in S : f[x] = g[x]
  PROVE  SumFunctionOnSet(f, S) = SumFunctionOnSet(g, S)
<1>. DEFINE C == {t \in SUBSET S : SumFunctionOnSet(f, t) # SumFunctionOnSet(g, t)}
<1>1. SUFFICES ASSUME C # {} PROVE FALSE
  OBVIOUS
<1>2. \A t \in C : IsFiniteSet(t)
  BY FS_Subset
<1>3. PICK t \in C : \A u \in C : u \subseteq t => u = t
  <2>. HIDE DEF C
  <2>. QED BY <1>1, <1>2, LeastSet
<1>4. t # {} /\ IsFiniteSet(t) /\ t \in SUBSET S
  BY SumOfNone, <1>2
<1>5. Fst(t) \in t /\ t \ {Fst(t)} \in SUBSET S
  BY <1>4, FstIn
<1>6. t \ {Fst(t)} \notin C
  <2>. HIDE DEF C
  <2>. QED BY <1>3, <1>5
<1>7. SumFunctionOnSet(f, t \ {Fst(t)}) = SumFunctionOnSet(g, t \ {Fst(t)})
  BY <1>5, <1>6
<1>8. f[Fst(t)] = g[Fst(t)]
  BY <1>4, <1>5
<1>9. SumFunctionOnSet(f, t) = f[Fst(t)] + SumFunctionOnSet(f, t \ {Fst(t)})
  BY <1>4, SumPicks
<1>10. SumFunctionOnSet(g, t) = g[Fst(t)] + SumFunctionOnSet(g, t \ {Fst(t)})
  BY <1>4, SumPicks
<1>11. SumFunctionOnSet(f, t) = SumFunctionOnSet(g, t)
  BY <1>7, <1>8, <1>9, <1>10
<1>. QED BY <1>11, <1>3

(* Two disjoint sets.                                                      *)
LEMMA SumOfBothInt ==
  ASSUME NEW f, NEW S, NEW T, IsFiniteSet(S), IsFiniteSet(T), S \cap T = {},
         \A x \in S \cup T : f[x] \in Int
  PROVE  SumFunctionOnSet(f, S \cup T) = SumFunctionOnSet(f, S) + SumFunctionOnSet(f, T)
<1>. DEFINE Ok(t) == SumFunctionOnSet(f, t \cup T)
                       = SumFunctionOnSet(f, t) + SumFunctionOnSet(f, T)
            C == {t \in SUBSET S : ~ Ok(t)}
<1>1. SUFFICES ASSUME C # {} PROVE FALSE
  <2>1. S \in SUBSET S /\ S \notin C
    BY <1>1
  <2>. QED BY <2>1
<1>2. \A t \in C : IsFiniteSet(t)
  BY FS_Subset
<1>3. PICK t \in C : \A u \in C : u \subseteq t => u = t
  <2>. HIDE DEF C
  <2>. QED BY <1>1, <1>2, LeastSet
<1>4. SumFunctionOnSet(f, T) \in Int
  BY SumInt
<1>5. t # {}
  <2>1. {} \cup T = T
    OBVIOUS
  <2>2. Ok({})
    BY SumOfNone, <1>4, <2>1
  <2>. QED BY <2>2
<1>6. PICK x \in t : TRUE
  BY <1>5
<1>. DEFINE r == t \ {x}
<1>7. /\ IsFiniteSet(t) /\ IsFiniteSet(r) /\ IsFiniteSet(t \cup T)
      /\ t \in SUBSET S /\ r \in SUBSET S /\ (t \cup T) \ {x} = r \cup T
      /\ \A z \in t \cup T : f[z] \in Int
  <2>1. t \in SUBSET S /\ IsFiniteSet(t)
    BY <1>2
  <2>2. IsFiniteSet(r)
    BY <2>1, FS_RemoveElement
  <2>3. IsFiniteSet(t \cup T)
    BY <2>1, FS_Union
  <2>4. (t \cup T) \ {x} = r \cup T
    BY <2>1
  <2>. QED BY <2>1, <2>2, <2>3, <2>4
<1>8. Ok(r)
  <2>1. r \notin C
    <3>1. r \subseteq t /\ r # t
      OBVIOUS
    <3>. HIDE DEF C, r
    <3>. QED BY <1>3, <3>1
  <2>. QED BY <2>1, <1>7
<1>9. SumFunctionOnSet(f, t) = f[x] + SumFunctionOnSet(f, r)
  BY <1>7, SumTakesInt
<1>10. SumFunctionOnSet(f, t \cup T) = f[x] + SumFunctionOnSet(f, (t \cup T) \ {x})
  BY <1>7, SumTakesInt
<1>11. SumFunctionOnSet(f, r) \in Int /\ f[x] \in Int
  BY <1>7, SumInt
<1>12. SumFunctionOnSet(f, t \cup T) = f[x] + SumFunctionOnSet(f, r \cup T)
  BY <1>10, <1>7
<1>13. SumFunctionOnSet(f, r \cup T) = SumFunctionOnSet(f, r) + SumFunctionOnSet(f, T)
  BY <1>8
<1>. HIDE DEF r
<1>14. SumFunctionOnSet(f, t \cup T) = SumFunctionOnSet(f, t) + SumFunctionOnSet(f, T)
  BY <1>4, <1>9, <1>11, <1>12, <1>13
<1>. QED BY <1>14

(* A set and what is left of it.                                           *)
LEMMA SumOfPartInt ==
  ASSUME NEW f, NEW S, IsFiniteSet(S), \A x \in S : f[x] \in Int, NEW T \in SUBSET S
  PROVE  SumFunctionOnSet(f, S) = SumFunctionOnSet(f, T) + SumFunctionOnSet(f, S \ T)
<1>1. IsFiniteSet(T) /\ IsFiniteSet(S \ T) /\ T \cap (S \ T) = {} /\ S = T \cup (S \ T)
  BY FS_Subset, FS_Difference
<1>. QED BY <1>1, SumOfBothInt

(* The members of S that k takes to c.                                     *)
Fibre(S, k, c) == {x \in S : k[x] = c}

(* Cut into groups and added up group by group, a sum is the same.         *)
LEMMA SumByGroupInt ==
  ASSUME NEW f, NEW S, IsFiniteSet(S), \A x \in S : f[x] \in Int,
         NEW k, NEW K, IsFiniteSet(K), \A x \in S : k[x] \in K,
         NEW g, \A c \in K : g[c] = SumFunctionOnSet(f, Fibre(S, k, c))
  PROVE  SumFunctionOnSet(g, K) = SumFunctionOnSet(f, S)
<1>. DEFINE InSome(L) == {x \in S : k[x] \in L}
            Ok(L) == SumFunctionOnSet(g, L) = SumFunctionOnSet(f, InSome(L))
            C == {L \in SUBSET K : ~ Ok(L)}
<1>1. SUFFICES ASSUME C # {} PROVE FALSE
  <2>1. K \in SUBSET K /\ K \notin C /\ InSome(K) = S
    BY <1>1
  <2>. QED BY <2>1
<1>2. \A t \in C : IsFiniteSet(t)
  BY FS_Subset
<1>3. PICK L \in C : \A u \in C : u \subseteq L => u = L
  <2>. HIDE DEF C
  <2>. QED BY <1>1, <1>2, LeastSet
<1>4. L # {}
  <2>1. InSome({}) = {}
    OBVIOUS
  <2>2. Ok({})
    BY <2>1, SumOfNone
  <2>. QED BY <2>2
<1>5. PICK c \in L : TRUE
  BY <1>4
<1>. DEFINE M == L \ {c}
            Here == {x \in S : k[x] = c}
<1>6. IsFiniteSet(L) /\ L \in SUBSET K /\ M \in SUBSET K /\ IsFiniteSet(M)
  BY <1>2, FS_RemoveElement
<1>7. Ok(M)
  <2>1. M \notin C
    <3>1. M \subseteq L /\ M # L
      OBVIOUS
    <3>. HIDE DEF C, M
    <3>. QED BY <1>3, <3>1
  <2>. QED BY <2>1, <1>6
<1>8. \A d \in L : g[d] \in Int
  <2>1. SUFFICES ASSUME NEW d \in L PROVE g[d] \in Int
    OBVIOUS
  <2>. DEFINE At == {x \in S : k[x] = d}
  <2>2. d \in K /\ g[d] = SumFunctionOnSet(f, At)
    BY <1>6 DEF Fibre
  <2>3. IsFiniteSet(At) /\ \A x \in At : f[x] \in Int
    BY FS_Subset
  <2>. HIDE DEF At
  <2>. QED BY <2>2, <2>3, SumInt
<1>9. SumFunctionOnSet(g, L) = g[c] + SumFunctionOnSet(g, M)
  BY <1>6, <1>8, SumTakesInt
<1>10. InSome(L) = Here \cup InSome(M) /\ Here \cap InSome(M) = {}
  BY <1>6
<1>11. IsFiniteSet(Here) /\ IsFiniteSet(InSome(M))
  BY FS_Subset
<1>12. SumFunctionOnSet(f, InSome(L)) = SumFunctionOnSet(f, Here) + SumFunctionOnSet(f, InSome(M))
  <2>. DEFINE H == Here
              R == InSome(M)
  <2>1. \A x \in H \cup R : f[x] \in Int
    OBVIOUS
  <2>2. InSome(L) = H \cup R /\ H \cap R = {} /\ IsFiniteSet(H) /\ IsFiniteSet(R)
    BY <1>10, <1>11
  <2>3. SumFunctionOnSet(f, H \cup R) = SumFunctionOnSet(f, H) + SumFunctionOnSet(f, R)
    <3>. HIDE DEF H, R
    <3>. QED BY <2>1, <2>2, SumOfBothInt
  <2>. QED BY <2>2, <2>3
<1>13. g[c] = SumFunctionOnSet(f, Here)
  BY <1>6 DEF Fibre
<1>14. Ok(L)
  BY <1>7, <1>9, <1>12, <1>13
<1>. QED BY <1>14

LEMMA SumByGroup ==
  ASSUME NEW f, NEW S, IsFiniteSet(S), \A x \in S : f[x] \in Nat,
         NEW k, NEW K, IsFiniteSet(K), \A x \in S : k[x] \in K,
         NEW g, \A c \in K : g[c] = SumFunctionOnSet(f, Fibre(S, k, c))
  PROVE  SumFunctionOnSet(g, K) = SumFunctionOnSet(f, S)
BY SumByGroupInt

-----------------------------------------------------------------------------
(***************************************************************************)
(* Sorting (Events!SortedBy).                                              *)
(***************************************************************************)
(* R puts the members of S in a row.                                       *)
Orders(R, S) ==
  /\ \A x \in S : <<x, x>> \notin R
  /\ \A x, y \in S : x # y => <<x, y>> \in R \/ <<y, x>> \in R
  /\ \A x, y, z \in S : <<x, y>> \in R /\ <<y, z>> \in R => <<x, z>> \in R

(* Such a row has every member once, each before those it comes before.    *)
LEMMA SortedHas ==
  ASSUME NEW S, IsFiniteSet(S), NEW R, Orders(R, S)
  PROVE  /\ SortedBy(S, R) \in [1..Cardinality(S) -> S]
         /\ \A x \in S : \E i \in 1..Cardinality(S) : SortedBy(S, R)[i] = x
         /\ \A i, j \in 1..Cardinality(S) :
              i < j => <<SortedBy(S, R)[i], SortedBy(S, R)[j]>> \in R
<1>. DEFINE n == Cardinality(S)
            Below(x) == {y \in S : <<y, x>> \in R}
            Place(x) == 1 + Cardinality(Below(x))
            at == {<<Place(x), x>> : x \in S}
            place == [x \in S |-> Place(x)]
            s == SortedBy(S, R)
<1>1. n \in Nat
  BY FS_CardinalityType
<1>2. \A x \in S : IsFiniteSet(Below(x)) /\ Cardinality(Below(x)) \in Nat /\ Place(x) \in Nat
  <2>1. SUFFICES ASSUME NEW x \in S
                 PROVE  IsFiniteSet(Below(x)) /\ Cardinality(Below(x)) \in Nat
    OBVIOUS
  <2>2. Below(x) \in SUBSET S
    OBVIOUS
  <2>. HIDE DEF Below
  <2>. QED BY <2>2, FS_Subset, FS_CardinalityType
<1>3. ASSUME NEW x \in S PROVE Place(x) \in 1..n
  <2>1. Below(x) \in SUBSET S /\ Below(x) # S
    BY DEF Orders
  <2>2. Cardinality(Below(x)) <= n /\ Cardinality(Below(x)) # n
    <3>. HIDE DEF Below
    <3>. QED BY <2>1, FS_Subset
  <2>. HIDE DEF Below
  <2>. QED BY <1>1, <1>2, <2>2
<1>4. ASSUME NEW x \in S, NEW y \in S, <<x, y>> \in R PROVE Place(x) < Place(y)
  <2>1. Below(x) \in SUBSET Below(y) /\ x \in Below(y) /\ x \notin Below(x)
    BY <1>4 DEF Orders
  <2>2. Cardinality(Below(x)) <= Cardinality(Below(y)) /\ Cardinality(Below(x)) # Cardinality(Below(y))
    <3>1. IsFiniteSet(Below(y))
      BY <1>2
    <3>. HIDE DEF Below
    <3>. QED BY <2>1, <3>1, FS_Subset
  <2>. HIDE DEF Below
  <2>. QED BY <1>2, <2>2
<1>5. ASSUME NEW x \in S, NEW y \in S, Place(x) = Place(y) PROVE x = y
  <2>1. Place(x) \in Nat /\ Place(y) \in Nat
    BY <1>2
  <2>2. <<x, y>> \in R => Place(x) < Place(y)
    BY <1>4
  <2>3. <<y, x>> \in R => Place(y) < Place(x)
    BY <1>4
  <2>. HIDE DEF Place
  <2>. QED BY <1>5, <2>1, <2>2, <2>3 DEF Orders
<1>6. \A i \in 1..n : \E x \in S : Place(x) = i
  <2>1. place \in Injection(S, 1..n)
    <3>1. place \in [S -> 1..n]
      <4>. HIDE DEF Place, n
      <4>. QED BY <1>3
    <3>2. \A x, y \in S : place[x] = place[y] => x = y
      <4>. HIDE DEF Place
      <4>. QED BY <1>5
    <3>. HIDE DEF place
    <3>. QED BY <3>1, <3>2 DEF Injection, IsInjective
  <2>2. IsFiniteSet(1..n) /\ Cardinality(1..n) = n
    BY <1>1, FS_Interval
  <2>3. place \in Surjection(S, 1..n)
    <3>. HIDE DEF place
    <3>. QED BY <2>1, <2>2, FS_Injection
  <2>. HIDE DEF Place
  <2>. QED BY <2>3 DEF Surjection
<1>7. s = [i \in 1..n |-> (CHOOSE p \in at : p[1] = i)[2]]
  BY DEF SortedBy
<1>8. ASSUME NEW i \in 1..n PROVE s[i] \in S /\ Place(s[i]) = i
  <2>. DEFINE q == CHOOSE p \in at : p[1] = i
  <2>1. \E p \in at : p[1] = i
    <3>1. PICK x \in S : Place(x) = i
      BY <1>6
    <3>2. <<Place(x), x>> \in at /\ <<Place(x), x>>[1] = i
      BY <3>1
    <3>. HIDE DEF at
    <3>. QED BY <3>2
  <2>2. q \in at /\ q[1] = i
    <3>. HIDE DEF at
    <3>. QED BY <2>1
  <2>3. PICK x \in S : q = <<Place(x), x>>
    <3>. HIDE DEF Place, q
    <3>. QED BY <2>2
  <2>4. s[i] = q[2]
    <3>. HIDE DEF at
    <3>. QED BY <1>7
  <2>. HIDE DEF Place, q, s
  <2>. QED BY <2>2, <2>3, <2>4
<1>9. s \in [1..n -> S]
  <2>1. s = [i \in 1..n |-> s[i]]
    <3>. HIDE DEF at, n
    <3>. QED BY <1>7
  <2>. HIDE DEF s, n
  <2>. QED BY <2>1, <1>8
<1>10. ASSUME NEW x \in S PROVE \E i \in 1..n : s[i] = x
  <2>1. Place(x) \in 1..n
    BY <1>3
  <2>. HIDE DEF Place, n, s
  <2>. QED BY <2>1, <1>8, <1>5
<1>11. ASSUME NEW i \in 1..n, NEW j \in 1..n, i < j PROVE <<s[i], s[j]>> \in R
  <2>1. s[i] \in S /\ s[j] \in S /\ Place(s[i]) = i /\ Place(s[j]) = j
    BY <1>8
  <2>2. s[i] # s[j]
    <3>. HIDE DEF Place, s
    <3>. QED BY <2>1, <1>11
  <2>3. ~ (<<s[j], s[i]>> \in R)
    <3>1. <<s[j], s[i]>> \in R => Place(s[j]) < Place(s[i])
      <4>. HIDE DEF Place, s
      <4>. QED BY <2>1, <1>4
    <3>. HIDE DEF Place, s
    <3>. QED BY <3>1, <2>1, <1>11
  <2>. HIDE DEF Place, s
  <2>. QED BY <2>1, <2>2, <2>3 DEF Orders
<1>. QED BY <1>9, <1>10, <1>11

(* Events whose rows differ are in a row, by instant and row.              *)
LEMMA EventOrder ==
  ASSUME NEW S, IsFiniteSet(S), \A x \in S : x.at \in Int /\ x.row \in Int,
         \A x, y \in S : x.row = y.row => x = y
  PROVE  /\ InOrder(S) \in [1..Cardinality(S) -> S]
         /\ \A x \in S : \E i \in 1..Cardinality(S) : InOrder(S)[i] = x
         /\ \A i, j \in 1..Cardinality(S) : i < j => InOrder(S)[i].at <= InOrder(S)[j].at
<1>. DEFINE B(a, b) == a.at < b.at \/ (a.at = b.at /\ a.row < b.row)
            R == {p \in S \X S : B(p[1], p[2])}
<1>1. InOrder(S) = SortedBy(S, R)
  BY DEF InOrder, Sorted
<1>2. \A x, y \in S : <<x, y>> \in R <=> B(x, y)
  <2>. HIDE DEF B
  <2>. QED OBVIOUS
<1>3. Orders(R, S)
  <2>. HIDE DEF R
  <2>. QED BY <1>2 DEF Orders
<1>4. /\ SortedBy(S, R) \in [1..Cardinality(S) -> S]
      /\ \A x \in S : \E i \in 1..Cardinality(S) : SortedBy(S, R)[i] = x
      /\ \A i, j \in 1..Cardinality(S) :
              i < j => <<SortedBy(S, R)[i], SortedBy(S, R)[j]>> \in R
  <2>. HIDE DEF R
  <2>. QED BY <1>3, SortedHas
<1>5. \A i, j \in 1..Cardinality(S) : i < j => InOrder(S)[i].at <= InOrder(S)[j].at
  <2>1. SUFFICES ASSUME NEW i \in 1..Cardinality(S), NEW j \in 1..Cardinality(S), i < j
                 PROVE  InOrder(S)[i].at <= InOrder(S)[j].at
    OBVIOUS
  <2>. DEFINE x == SortedBy(S, R)[i]
              y == SortedBy(S, R)[j]
  <2>2. x \in S /\ y \in S /\ <<x, y>> \in R
    <3>. HIDE DEF R
    <3>. QED BY <1>4, <2>1
  <2>3. B(x, y) /\ x.at \in Int /\ y.at \in Int
    <3>. HIDE DEF R, x, y, B
    <3>. QED BY <1>2, <2>2
  <2>4. x.at <= y.at
    <3>. HIDE DEF R, x, y
    <3>. QED BY <2>3
  <2>. HIDE DEF R
  <2>. QED BY <1>1, <2>4
<1>. HIDE DEF R
<1>. QED BY <1>1, <1>4, <1>5

-----------------------------------------------------------------------------
(***************************************************************************)
(* Least and largest numbers, and the shape of an event.                   *)
(***************************************************************************)
(* A finite set of numbers has its maximum.                                *)
LEMMA MaxIs ==
  ASSUME NEW S \in SUBSET Int, IsFiniteSet(S), S # {}
  PROVE  Max(S) \in S /\ \A x \in S : x <= Max(S)
<1>. DEFINE HasMax(t) == \E m \in t : \A x \in t : x <= m
            C == {t \in SUBSET S : t # {} /\ ~ HasMax(t)}
<1>1. C = {}
  <2>1. SUFFICES ASSUME C # {} PROVE FALSE
    OBVIOUS
  <2>2. \A t \in C : IsFiniteSet(t)
    BY FS_Subset
  <2>3. PICK t \in C : \A u \in C : u \subseteq t => u = t
    <3>. HIDE DEF C
    <3>. QED BY <2>1, <2>2, LeastSet
  <2>4. PICK y \in t : TRUE
    OBVIOUS
  <2>. DEFINE u == t \ {y}
  <2>5. u \notin C
    <3>1. u \subseteq t /\ u # t
      OBVIOUS
    <3>. HIDE DEF C, u
    <3>. QED BY <2>3, <3>1
  <2>6. CASE u = {}
    <3>1. \A x \in t : x = y
      BY <2>6
    <3>2. HasMax(t)
      BY <3>1, <2>4
    <3>. QED BY <3>2
  <2>7. CASE u # {}
    <3>1. PICK m \in u : \A x \in u : x <= m
      BY <2>5, <2>7
    <3>2. CASE m <= y
      <4>1. \A x \in t : x <= y
        BY <3>1, <3>2
      <4>. QED BY <4>1
    <3>3. CASE y <= m
      <4>1. \A x \in t : x <= m
        BY <3>1, <3>3
      <4>. QED BY <4>1
    <3>. QED BY <3>2, <3>3
  <2>. QED BY <2>6, <2>7
<1>2. HasMax(S)
  <2>1. S \in SUBSET S
    OBVIOUS
  <2>. HIDE DEF Has
  <2>. QED BY <1>1, <2>1
<1>. QED BY <1>2 DEF Max

(* A set of naturals has its minimum.                                      *)
LEMMA MinIs ==
  ASSUME NEW S \in SUBSET Nat, S # {}
  PROVE  Min(S) \in S /\ \A x \in S : Min(S) <= x
<1>1. \E m \in S : \A x \in S : m <= x
  BY LeastNat
<1>. QED BY <1>1 DEF Min

(***************************************************************************)
(* The store.                                                              *)
(***************************************************************************)
(* A record with an event's fields and no others (schema.Event).           *)
IsEvent(e) ==
  e = [vendor |-> e.vendor, agent |-> e.agent, surface |-> e.surface, session |-> e.session,
       request |-> e.request, row |-> e.row, parent |-> e.parent, at |-> e.at,
       model |-> e.model, project |-> e.project, title |-> e.title, input |-> e.input,
       cw |-> e.cw, cr |-> e.cr, output |-> e.output, reasoning |-> e.reasoning,
       tools |-> e.tools, owner |-> e.owner, client |-> e.client]

(* d is e, owner and client apart.                                         *)
SameButOwner(d, e) ==
  /\ IsEvent(d)
  /\ RowOf(d) = RowOf(e) /\ d.row = e.row /\ d.at = e.at /\ d.model = e.model
  /\ d.input = e.input /\ d.cw = e.cw /\ d.cr = e.cr /\ d.output = e.output
  /\ d.reasoning = e.reasoning /\ d.project = e.project

(* Stamping an event changes nothing else ...                              *)
LEMMA StampKeeps ==
  ASSUME NEW e, IsEvent(e), NEW o, NEW c
  PROVE  SameButOwner([e EXCEPT !.owner = o, !.client = c], e)
<1>. DEFINE d == [e EXCEPT !.owner = o]
<1>1. SameButOwner(d, e)
  BY DEF IsEvent, SameButOwner, RowOf
<1>2. SameButOwner([d EXCEPT !.client = c], d)
  <2>. HIDE DEF d
  <2>. QED BY <1>1 DEF IsEvent, SameButOwner, RowOf
<1>3. [e EXCEPT !.owner = o, !.client = c] = [d EXCEPT !.client = c]
  OBVIOUS
<1>. HIDE DEF d
<1>. QED BY <1>1, <1>2, <1>3 DEF SameButOwner

(* ... and neither does naming its owner alone.                            *)
LEMMA OwnerKeeps ==
  ASSUME NEW e, IsEvent(e), NEW o
  PROVE  SameButOwner([e EXCEPT !.owner = o], e)
BY DEF IsEvent, SameButOwner, RowOf

(* Multiplication is monotone.                                             *)
LEMMA TimesGrows ==
  ASSUME NEW m \in Nat, NEW x \in Nat, NEW y \in Nat, x <= y
  PROVE  m * x <= m * y /\ m * x \in Nat /\ m * y \in Nat
OBVIOUS

(* A number has one quotient and one remainder.                            *)
LEMMA OneQuotient ==
  ASSUME NEW m \in Nat, NEW i \in 1..m, NEW j \in 1..m, NEW c \in Nat, NEW d \in Nat,
         i + m * c = j + m * d
  PROVE  c = d /\ i = j
<1>1. ASSUME NEW a \in Nat, NEW b \in Nat, NEW x \in 1..m, NEW y \in 1..m, a < b
      PROVE  x + m * a # y + m * b
  <2>1. m * (a + 1) <= m * b /\ m * (a + 1) = m * a + m /\ m * a \in Nat /\ m * b \in Nat
    BY <1>1, TimesGrows
  <2>. QED BY <2>1
<1>2. c = d
  BY <1>1
<1>. QED BY <1>2, TimesGrows

-----------------------------------------------------------------------------
(***************************************************************************)
(* What a read of a Claude transcript gives, line by line.                 *)
(***************************************************************************)
(* The image of a finite set is finite.                                    *)
LEMMA ImageFinite ==
  ASSUME NEW S, IsFiniteSet(S), NEW f
  PROVE  IsFiniteSet({f[x] : x \in S})
<1>. DEFINE T == {f[x] : x \in S}
            g == [x \in S |-> f[x]]
<1>1. g \in Surjection(S, T)
  BY DEF Surjection
<1>. QED BY <1>1, FS_Surjection

(* The row of line i's event in a read of the lines after from.            *)
ClaudeRow(file, ls, from, i, n) ==
  file.base + i + IF ls[i].request = None THEN MaxLines * (2 * from + n) ELSE 0

CwdOf(ls, P) == FirstOf(ls, P, LAMBDA l : l.cwd)

LEMMA CwdIs ==
  ASSUME NEW ls, NEW P \in SUBSET Nat
  PROVE  CwdOf(ls, P) = None \/ \E i \in P : CwdOf(ls, P) = ls[i].cwd
<1>. DEFINE has == {i \in P : ls[i].cwd # None}
<1>1. CwdOf(ls, P) = IF has = {} THEN None ELSE ls[Min(has)].cwd
  BY DEF CwdOf, FirstOf
<1>2. has # {} => Min(has) \in has
  <2>1. has \in SUBSET Nat
    OBVIOUS
  <2>. HIDE DEF has
  <2>. QED BY <2>1, MinIs
<1>. QED BY <1>1, <1>2

(* An event of the lines after from, with the figures of line i ...        *)
BilledFrom(file, ls, from, i, e) ==
  LET P == (from + 1)..Len(ls)
      u == ls[i].usage[1]
  IN /\ i \in Billed(ls, P) /\ e.request = ClaudeKey(ls, P, i)
     /\ e.row = ClaudeRow(file, ls, from, i, 1)
     /\ e.at = ls[i].at /\ e.model = ls[i].model /\ e.project = CwdOf(ls, P) /\ e.input = u.input
     /\ e.cw = NotZero(u.cw) /\ e.cr = NotZero(u.cr) /\ e.output = u.output
     /\ e.reasoning = Nil
     /\ \A j \in Billed(ls, P) :
          ClaudeKey(ls, P, j) = e.request => ls[j].usage[1].output <= u.output

(* ... or of a request with tools and without figures.                     *)
ToolsFrom(file, ls, from, i, e) ==
  LET P == (from + 1)..Len(ls)
  IN /\ i \in P /\ e.request = ToolKey(ls, from, i)
     /\ e.row = ClaudeRow(file, ls, from, i, 2)
     /\ e.at = 0 /\ e.model = None /\ e.project = CwdOf(ls, P)
     /\ e.input = 0 /\ e.cw = Nil /\ e.cr = Nil /\ e.output = 0 /\ e.reasoning = Nil
     /\ \A j \in Billed(ls, P) : ClaudeKey(ls, P, j) # e.request

(* BestLine is one of the lines with the largest output.                   *)
LEMMA BestLineIs ==
  ASSUME NEW ls, NEW K, K # {}, NEW n \in Nat, K \in SUBSET (1..n),
         \A i \in K : ls[i].usage[1].output \in Nat
  PROVE  /\ BestLine(ls, K) \in K
         /\ \A j \in K : ls[j].usage[1].output <= ls[BestLine(ls, K)].usage[1].output
<1>. DEFINE f == [i \in K |-> ls[i].usage[1].output]
            O == {f[i] : i \in K}
            B == {i \in K : \A j \in K : ls[j].usage[1].output <= ls[i].usage[1].output}
<1>1. IsFiniteSet(K)
  <2>1. IsFiniteSet(1..n)
    BY FS_Interval
  <2>. QED BY <2>1, FS_Subset
<1>2. IsFiniteSet(O) /\ O \in SUBSET Int /\ O # {}
  <2>1. IsFiniteSet(O)
    <3>. HIDE DEF f
    <3>. QED BY <1>1, ImageFinite
  <2>2. \A i \in K : f[i] \in Nat
    OBVIOUS
  <2>3. O \in SUBSET Int
    <3>. HIDE DEF f
    <3>. QED BY <2>2
  <2>4. O # {}
    <3>1. PICK i \in K : TRUE
      OBVIOUS
    <3>2. f[i] \in O
      OBVIOUS
    <3>. HIDE DEF O
    <3>. QED BY <3>2
  <2>. HIDE DEF O
  <2>. QED BY <2>1, <2>3, <2>4
<1>3. Max(O) \in O /\ \A x \in O : x <= Max(O)
  <2>. HIDE DEF O
  <2>. QED BY <1>2, MaxIs
<1>4. PICK i \in K : f[i] = Max(O)
  <2>. HIDE DEF f
  <2>. QED BY <1>3
<1>5. i \in B
  <2>1. \A j \in K : f[j] <= f[i]
    <3>. HIDE DEF f
    <3>. QED BY <1>3, <1>4
  <2>. QED BY <2>1
<1>6. B \in SUBSET Int /\ B # {} /\ IsFiniteSet(B)
  <2>1. B \subseteq K
    OBVIOUS
  <2>2. B # {}
    BY <1>5
  <2>. HIDE DEF B
  <2>3. IsFiniteSet(B)
    BY <1>1, <2>1, FS_Subset
  <2>4. B \subseteq Int
    <3>1. \A j \in 1..n : j \in Int
      OBVIOUS
    <3>2. K \subseteq 1..n
      OBVIOUS
    <3>. QED BY <2>1, <3>1, <3>2
  <2>. QED BY <2>2, <2>3, <2>4
<1>7. Max(B) \in B
  <2>. HIDE DEF B
  <2>. QED BY <1>6, MaxIs
<1>. QED BY <1>7 DEF BestLine

(* A Claude read hands over, for every key of its billed lines, the figures *)
(* of the best one, and otherwise only events that are no turn.            *)
LEMMA ClaudeEventsAre ==
  ASSUME NEW file, NEW ls, Len(ls) \in Nat, NEW from \in Nat,
         \A i \in Billed(ls, (from + 1)..Len(ls)) : ls[i].usage[1].output \in Nat
  PROVE  LET P == (from + 1)..Len(ls)
             es == ClaudeEvents(file, ls, from)
         IN /\ IsFiniteSet(es)
            /\ \A e \in es :
                 /\ IsEvent(e) /\ e.vendor = "anthropic" /\ e.session = file.session
                 /\ \E i \in P : BilledFrom(file, ls, from, i, e) \/ ToolsFrom(file, ls, from, i, e)
            /\ \A e, d \in es : e.request = d.request => e = d
            /\ \A j \in Billed(ls, P) : \E e \in es : e.request = ClaudeKey(ls, P, j)
<1>. DEFINE P == (from + 1)..Len(ls)
            cwd == CwdOf(ls, P)
            surface == ClaudeSurface(file, cwd)
            users == {i \in P : ls[i].kind = "user"}
            title == FirstOf(ls, users, LAMBDA l : l.text)
            tooled == {i \in P : ls[i].kind = "assistant" /\ ls[i].uses # {}}
            keys == {ClaudeKey(ls, P, i) : i \in Billed(ls, P)}
            KeyLines(k) == {i \in Billed(ls, P) : ClaudeKey(ls, P, i) = k}
            ToolLines(k) == {i \in tooled : ToolKey(ls, from, i) = k}
            toolKeys == {ToolKey(ls, from, i) : i \in tooled} \ keys
            Row(i, n) == ClaudeRow(file, ls, from, i, n)
            New(k, row) == NewEvent("anthropic", ClaudeAgent(surface), surface, file.session, k, row)
            Base(k, row) == [New(k, row) EXCEPT !.project = cwd, !.title = title,
                                                !.tools = ToolsOf(ls, ToolLines(k))]
            Billing(k, i) == [Base(k, Row(i, 1)) EXCEPT
                                !.at = ls[i].at, !.model = ls[i].model,
                                !.input = ls[i].usage[1].input,
                                !.cw = NotZero(ls[i].usage[1].cw),
                                !.cr = NotZero(ls[i].usage[1].cr),
                                !.output = ls[i].usage[1].output]
            Tooling(k) == Base(k, Row(Min(ToolLines(k)), 2))
            best(k) == BestLine(ls, KeyLines(k))
            es == ClaudeEvents(file, ls, from)
<1>1. es = {Billing(k, best(k)) : k \in keys} \cup {Tooling(k) : k \in toolKeys}
  BY DEF ClaudeEvents, ClaudeRow, CwdOf
<1>2. ASSUME NEW k, NEW row
      PROVE  LET b == Base(k, row) IN
             /\ IsEvent(b) /\ b.vendor = "anthropic" /\ b.session = file.session
             /\ b.request = k /\ b.row = row /\ b.at = 0 /\ b.model = None /\ b.input = 0
             /\ b.cw = Nil /\ b.cr = Nil /\ b.output = 0 /\ b.reasoning = Nil /\ b.project = cwd
  <2>. DEFINE tools == ToolsOf(ls, ToolLines(k))
              agent == ClaudeAgent(surface)
              new == New(k, row)
  <2>1. Base(k, row) = [new EXCEPT !.project = cwd, !.title = title, !.tools = tools]
    OBVIOUS
  <2>2. /\ IsEvent(new) /\ new.vendor = "anthropic" /\ new.session = file.session
        /\ new.request = k /\ new.row = row /\ new.at = 0 /\ new.model = None /\ new.input = 0
        /\ new.cw = Nil /\ new.cr = Nil /\ new.output = 0 /\ new.reasoning = Nil
    <3>. HIDE DEF agent, surface
    <3>. QED BY DEF NewEvent, IsEvent
  <2>. HIDE DEF cwd, surface, title, ToolLines, tools, agent, new, Base
  <2>. QED BY <2>1, <2>2 DEF IsEvent
<1>3. ASSUME NEW k, NEW i
      PROVE  LET b == Billing(k, i) IN
             /\ IsEvent(b) /\ b.vendor = "anthropic" /\ b.session = file.session
             /\ b.request = k /\ b.row = Row(i, 1) /\ b.at = ls[i].at /\ b.model = ls[i].model
             /\ b.input = ls[i].usage[1].input /\ b.cw = NotZero(ls[i].usage[1].cw)
             /\ b.cr = NotZero(ls[i].usage[1].cr) /\ b.output = ls[i].usage[1].output
             /\ b.reasoning = Nil /\ b.project = cwd
  <2>. DEFINE b == Base(k, Row(i, 1))
  <2>1. /\ IsEvent(b) /\ b.vendor = "anthropic" /\ b.session = file.session
        /\ b.request = k /\ b.row = Row(i, 1) /\ b.reasoning = Nil /\ b.project = cwd
    <3>. HIDE DEF Base, Row
    <3>. QED BY <1>2
  <2>2. Billing(k, i) = [b EXCEPT !.at = ls[i].at, !.model = ls[i].model,
                                !.input = ls[i].usage[1].input,
                                !.cw = NotZero(ls[i].usage[1].cw),
                                !.cr = NotZero(ls[i].usage[1].cr),
                                !.output = ls[i].usage[1].output]
    OBVIOUS
  <2>. HIDE DEF b, Billing, Row
  <2>. QED BY <2>1, <2>2 DEF IsEvent
<1>. HIDE DEF Base, Billing
<1>4. ASSUME NEW k \in keys
      PROVE  /\ best(k) \in KeyLines(k) /\ best(k) \in P
             /\ \A j \in KeyLines(k) : ls[j].usage[1].output <= ls[best(k)].usage[1].output
  <2>1. KeyLines(k) # {} /\ KeyLines(k) \in SUBSET (1..Len(ls)) /\ KeyLines(k) \in SUBSET P
    BY DEF Billed
  <2>2. \A i \in KeyLines(k) : ls[i].usage[1].output \in Nat
    OBVIOUS
  <2>. HIDE DEF KeyLines, P
  <2>. QED BY <2>1, <2>2, BestLineIs
<1>5. ASSUME NEW k \in toolKeys
      PROVE  Min(ToolLines(k)) \in ToolLines(k)
  <2>1. ToolLines(k) # {} /\ ToolLines(k) \in SUBSET Nat
    OBVIOUS
  <2>. HIDE DEF ToolLines
  <2>. QED BY <2>1, MinIs
<1>6. ASSUME NEW k \in keys
      PROVE  /\ IsEvent(Billing(k, best(k))) /\ Billing(k, best(k)).vendor = "anthropic"
             /\ Billing(k, best(k)).session = file.session
             /\ Billing(k, best(k)).request = k
             /\ BilledFrom(file, ls, from, best(k), Billing(k, best(k)))
  <2>1. best(k) \in Billed(ls, P) /\ ClaudeKey(ls, P, best(k)) = k
    BY <1>4
  <2>2. \A j \in Billed(ls, P) : ClaudeKey(ls, P, j) = k =>
            ls[j].usage[1].output <= ls[best(k)].usage[1].output
    BY <1>4
  <2>. HIDE DEF best, keys
  <2>. QED BY <2>1, <2>2, <1>3 DEF BilledFrom
<1>7. ASSUME NEW k \in toolKeys
      PROVE  /\ IsEvent(Tooling(k)) /\ Tooling(k).vendor = "anthropic"
             /\ Tooling(k).session = file.session
             /\ Tooling(k).request = k
             /\ ToolsFrom(file, ls, from, Min(ToolLines(k)), Tooling(k))
             /\ Min(ToolLines(k)) \in P
  <2>. DEFINE i == Min(ToolLines(k))
  <2>1. i \in P /\ ToolKey(ls, from, i) = k
    <3>1. i \in ToolLines(k)
      BY <1>5
    <3>. HIDE DEF i
    <3>. QED BY <3>1
  <2>2. \A j \in Billed(ls, P) : ClaudeKey(ls, P, j) # k
    OBVIOUS
  <2>. DEFINE r == Row(i, 2)
              b == Base(k, r)
  <2>3. Tooling(k) = b
    OBVIOUS
  <2>4. /\ IsEvent(b) /\ b.vendor = "anthropic" /\ b.session = file.session
        /\ b.request = k /\ b.row = r /\ b.at = 0 /\ b.model = None /\ b.input = 0
        /\ b.cw = Nil /\ b.cr = Nil /\ b.output = 0 /\ b.reasoning = Nil /\ b.project = cwd
    <3>. HIDE DEF Base, r
    <3>. QED BY <1>2
  <2>5. r = ClaudeRow(file, ls, from, i, 2)
    OBVIOUS
  <2>. HIDE DEF i, keys, toolKeys, Tooling, b, r
  <2>6. ToolsFrom(file, ls, from, i, b)
    BY <2>1, <2>2, <2>4, <2>5 DEF ToolsFrom
  <2>7. i = Min(ToolLines(k))
    BY DEF i
  <2>. HIDE DEF ToolLines
  <2>. QED BY <2>1, <2>3, <2>4, <2>6, <2>7
<1>8. IsFiniteSet(es)
  <2>1. IsFiniteSet(P) /\ IsFiniteSet(Billed(ls, P)) /\ IsFiniteSet(tooled)
    <3>1. IsFiniteSet(P)
      BY FS_Interval
    <3>2. Billed(ls, P) \in SUBSET P /\ tooled \in SUBSET P
      BY DEF Billed
    <3>. HIDE DEF P, tooled
    <3>. QED BY <3>1, <3>2, FS_Subset
  <2>. DEFINE f == [i \in Billed(ls, P) |->
                      Billing(ClaudeKey(ls, P, i), best(ClaudeKey(ls, P, i)))]
              g == [i \in tooled |-> Tooling(ToolKey(ls, from, i))]
              F == {f[i] : i \in Billed(ls, P)}
              G == {g[i] : i \in tooled}
  <2>2. IsFiniteSet(F) /\ IsFiniteSet(G)
    <3>. HIDE DEF f, g, P, tooled
    <3>. QED BY <2>1, ImageFinite
  <2>3. es \in SUBSET (F \cup G)
    <3>. HIDE DEF best, Tooling, es
    <3>. QED BY <1>1
  <2>4. IsFiniteSet(F \cup G)
    <3>. HIDE DEF F, G
    <3>. QED BY <2>2, FS_Union
  <2>. HIDE DEF F, G, es
  <2>. QED BY <2>3, <2>4, FS_Subset
<1>9. ASSUME NEW e \in es
      PROVE  (\E k \in keys : e = Billing(k, best(k))) \/ (\E k \in toolKeys : e = Tooling(k))
  <2>. HIDE DEF best, keys, toolKeys, Tooling, es
  <2>. QED BY <1>1
<1>10. ASSUME NEW e \in es
       PROVE  /\ IsEvent(e) /\ e.vendor = "anthropic" /\ e.session = file.session
              /\ \E i \in P : BilledFrom(file, ls, from, i, e) \/ ToolsFrom(file, ls, from, i, e)
  <2>1. CASE \E k \in keys : e = Billing(k, best(k))
    <3>1. PICK k \in keys : e = Billing(k, best(k))
      BY <2>1
    <3>2. best(k) \in P
      <4>. HIDE DEF best, keys, P, KeyLines
      <4>. QED BY <1>4
    <3>3. /\ IsEvent(e) /\ e.vendor = "anthropic" /\ e.session = file.session
          /\ BilledFrom(file, ls, from, best(k), e)
      <4>. HIDE DEF best, keys
      <4>. QED BY <1>6, <3>1
    <3>. HIDE DEF best, es, P
    <3>. QED BY <3>2, <3>3
  <2>2. CASE \E k \in toolKeys : e = Tooling(k)
    <3>1. PICK k \in toolKeys : e = Tooling(k)
      BY <2>2
    <3>2. /\ IsEvent(e) /\ e.vendor = "anthropic" /\ e.session = file.session
          /\ ToolsFrom(file, ls, from, Min(ToolLines(k)), e) /\ Min(ToolLines(k)) \in P
      <4>. HIDE DEF Tooling, toolKeys, P, ToolLines
      <4>. QED BY <1>7, <3>1
    <3>. HIDE DEF ToolLines, es, P
    <3>. QED BY <3>2
  <2>. QED BY <1>9, <2>1, <2>2
<1>11. ASSUME NEW e \in es, NEW d \in es, e.request = d.request PROVE e = d
  <2>1. \A k \in toolKeys : k \notin keys
    OBVIOUS
  <2>2. \A k \in keys : Billing(k, best(k)).request = k
    <3>. HIDE DEF best, keys
    <3>. QED BY <1>6
  <2>3. \A k \in toolKeys : Tooling(k).request = k
    <3>. HIDE DEF Tooling, toolKeys
    <3>. QED BY <1>7
  <2>4. /\ (\E k \in keys : e = Billing(k, best(k))) \/ (\E k \in toolKeys : e = Tooling(k))
        /\ (\E k \in keys : d = Billing(k, best(k))) \/ (\E k \in toolKeys : d = Tooling(k))
    BY <1>9
  <2>. HIDE DEF best, keys, toolKeys, Tooling, es
  <2>. QED BY <2>1, <2>2, <2>3, <2>4, <1>11
<1>12. \A j \in Billed(ls, P) : \E e \in es : e.request = ClaudeKey(ls, P, j)
  <2>1. ASSUME NEW j \in Billed(ls, P) PROVE \E e \in es : e.request = ClaudeKey(ls, P, j)
    <3>. DEFINE k == ClaudeKey(ls, P, j)
    <3>1. k \in keys
      OBVIOUS
    <3>2. Billing(k, best(k)) \in es
      <4>. HIDE DEF best, keys, toolKeys, Tooling, es, k
      <4>. QED BY <1>1, <3>1
    <3>3. Billing(k, best(k)).request = k
      <4>. HIDE DEF best, keys, k
      <4>. QED BY <1>6, <3>1
    <3>. HIDE DEF best, es
    <3>. QED BY <3>2, <3>3
  <2>. QED BY <2>1
<1>. QED BY <1>8, <1>10, <1>11, <1>12

-----------------------------------------------------------------------------
(***************************************************************************)
(* The store's inductive invariant.  An event is made by one line of one   *)
(* source, with that line's key and in a row of its own; the store has one *)
(* row per key; and for every transcript it has the figures of the lines   *)
(* read so far, the largest output of each key (HasRead), and no others    *)
(* (HasOnly).                                                              *)
(***************************************************************************)
(* An event as the store keeps it: its numbers are numbers.                *)
Filled(e) ==
  /\ IsEvent(e) /\ e.row \in Nat /\ e.at \in Nat /\ e.at # 1 /\ e.input \in Nat /\ e.output \in Nat
  /\ e.project \in DOMAIN Remote
  /\ e.cw \in Nat \cup {Nil} /\ e.cr \in Nat \cup {Nil} /\ e.reasoning \in Nat \cup {Nil}

(* e is what a read of the Claude transcript f makes of one of its lines:  *)
(* a request's own row, or one of the keys the read makes up.              *)
ClaudeMade(f, e) ==
  LET ls == Lines[f]
      At(i, n) == e.row = File[f].base + i + MaxLines * n
  IN /\ e.vendor = "anthropic" /\ e.session = File[f].session
     /\ \E i \in DOMAIN ls :
          \/ /\ ls[i].request # None
             /\ At(i, 0) /\ e.request = ls[i].request
          \/ /\ ls[i].request = None
             /\ \E a \in 0..(i - 1) :
                  \/ At(i, 2 * a + 1) /\ e.request = ClaudeKey(ls, (a + 1)..Len(ls), i)
                  \/ At(i, 2 * a + 2) /\ e.request = ToolKey(ls, a, i)

(* The key line i of a source gives its event.                             *)
LinesKey(f, i) ==
  CASE Kind[f] = "claude" -> <<"anthropic", File[f].session, Lines[f][i].request>>
    [] Kind[f] = "cloud" -> <<"anthropic", Lines[f][i].session, Lines[f][i].request>>
    [] Kind[f] = "codex" -> <<"openai", File[f].session, RequestID(Lines[f], 0, i)>>
    [] OTHER -> <<"github", SessionAt(NewTail, Lines[f], i), Lines[f][i].request>>

(* The key of the one event of a source that is polled whole.              *)
PolledKey(f) ==
  IF Kind[f] = "hermes" THEN <<"nous", File[f].session, File[f].session>>
  ELSE <<"github", File[f].session, File[f].session>>

(* The source f may have handed over e ...                                 *)
MadeBy(f, e) ==
  /\ Kind[f] = "claude" => ClaudeMade(f, e)
  /\ Kind[f] \in {"cloud", "codex", "vscode"} =>
        \E i \in DOMAIN Lines[f] : e.row = File[f].base + i /\ RowOf(e) = LinesKey(f, i)
  /\ Kind[f] \in {"hermes", "cli"} => e.row = File[f].base /\ RowOf(e) = PolledKey(f)

(* ... the lines whose figures it can have, and what it has of them.       *)
Named(f) ==
  LET ls == Lines[f]
  IN CASE Kind[f] = "claude" -> {i \in Billed(ls, DOMAIN ls) : ls[i].request # None}
       [] Kind[f] = "cloud" -> {i \in DOMAIN ls : ls[i].session # None /\ ls[i].request # None}
       [] OTHER -> Kinds(ls, DOMAIN ls, "count")

(* ... the output a line tells ...                                         *)
Output(f, i) ==
  IF Kind[f] = "claude" THEN Lines[f][i].usage[1].output ELSE Lines[f][i].output

(* ... and what e has when it has the figures of line i.                   *)
ShowsLine(f, i, e) ==
  LET l == Lines[f][i]
  IN /\ i \in Named(f) /\ RowOf(e) = LinesKey(f, i) /\ e.output = Output(f, i)
     /\ Kind[f] = "claude" =>
          /\ e.input = l.usage[1].input /\ e.cw = NotZero(l.usage[1].cw)
          /\ e.cr = NotZero(l.usage[1].cr) /\ e.reasoning = Nil
     /\ Kind[f] = "cloud" =>
          /\ e.input = l.input /\ e.cw = NotZero(l.cw) /\ e.cr = NotZero(l.cr)
          /\ e.reasoning = Nil /\ e.model = l.model
     /\ Kind[f] = "codex" =>
          /\ e.input = l.input - l.cached /\ e.cw = Nil /\ e.cr = NotZero(l.cached)
          /\ e.reasoning = NotZero(l.reasoning)

(* A Claude event of tools alone is no turn and is not read back.          *)
ToolOnly(f, e) == Kind[f] = "claude" /\ ~IsTurn(e)

(* e is in one of the rows of f's lines.                                   *)
InRows(f, e) == File[f].base < e.row /\ e.row <= File[f].base + Len(Lines[f])

(* Of the lines with one key the largest, and for tools that are upserted  *)
(* line by line the first of those.                                        *)
Leads(f, i, P) ==
  \A j \in Named(f) \cap P : LinesKey(f, j) = LinesKey(f, i) =>
    Output(f, j) <= Output(f, i) /\ (Output(f, j) = Output(f, i) /\ Kind[f] # "claude" => i <= j)

(* The store has finitely many events.                                     *)
StoreTyped == IsFiniteSet(events) /\ \A e \in events : Filled(e)
(* Every event is some source's.                                           *)
StoreMade == \A e \in events : \E f \in on.sources : MadeBy(f, e)
(* The table's primary key.                                                *)
RowPerKey == \A d, e \in events : RowOf(d) = RowOf(e) => d = e

(* The ingest cursors are inside the files.                                *)
ReadTyped == /\ read \in [on.sources -> Nat]
             /\ \A f \in on.sources : read[f] <= Len(Lines[f])
(* The tail stands inside the log and knows the session it is in.          *)
TailTyped == /\ tail.offset \in Nat
             /\ \A f \in Of("vscode") : /\ tail.offset <= Written(f)
                                        /\ tail.session = SessionAt(NewTail, Lines[f], tail.offset + 1)
(* The clock and the settings are the desk's.                              *)
ClockTyped == clock \in DOMAIN on.instants /\ rules \in DOMAIN on.configs

(* Everything read is in the store, and what is in the store is what was   *)
(* read.                                                                   *)
HasRead(f) ==
  \A i \in Named(f) \cap (1..read[f]) :
    \E e \in events : RowOf(e) = LinesKey(f, i) /\ Output(f, i) <= e.output
(* ... and what the store has of a transcript's rows was read.             *)
HasOnly(f) ==
  \A e \in events : InRows(f, e) =>
    \/ ToolOnly(f, e)
    \/ \E i \in 1..read[f] : e.row = File[f].base + i /\ ShowsLine(f, i, e) /\ Leads(f, i, 1..read[f])

(* Both, for every transcript.                                             *)
ReadsStand == \A f \in Transcripts : HasRead(f) /\ HasOnly(f)

(* The store's inductive invariant.                                        *)
StoreInv == /\ on \in Desks /\ ClockTyped /\ ReadTyped /\ TailTyped
            /\ StoreTyped /\ StoreMade /\ RowPerKey /\ ReadsStand
(* What ViewsAssumption says of one source ...                             *)
LEMMA SourceIs ==
  ASSUME on \in Desks, NEW f \in on.sources
  PROVE  /\ Writes(f) /\ Len(Lines[f]) \in Nat /\ Len(Lines[f]) <= MaxLines
         /\ DOMAIN Lines[f] = 1..Len(Lines[f]) /\ File[f].base \in Nat /\ MaxLines \in Nat
         /\ Kind[f] \in {"claude", "cloud", "codex", "vscode", "hermes", "cli"}
         /\ None \in DOMAIN Remote
<1>1. IsDesk(on)
  BY ViewsAssumption
<1>2. Writes(f) /\ Lines[f] \in Seq(Elems(Lines[f]))
  BY <1>1 DEF IsDesk, Writes
<1>. QED BY <1>2, ReadersAssumption, RemoteAssumption DEF Writes

(* ... and of two.                                                         *)
LEMMA SourcesApart ==
  ASSUME on \in Desks, NEW f \in on.sources, NEW g \in on.sources, f # g
  PROVE  Apart(f, g)
<1>1. IsDesk(on)
  BY ViewsAssumption
<1>. QED BY <1>1 DEF IsDesk

(* The rows of a made-up key stay inside the source's span.                *)
LEMMA SpanHolds ==
  ASSUME NEW i \in 1..MaxLines, NEW n \in 0..(2 * MaxLines)
  PROVE  /\ MaxLines * n \in Nat /\ i + MaxLines * n <= RowSpan /\ RowSpan \in Nat
<1>1. MaxLines \in Nat /\ 2 * MaxLines \in Nat /\ n \in Nat /\ n <= 2 * MaxLines
  BY ReadersAssumption
<1>2. MaxLines * n \in Nat /\ MaxLines * n <= MaxLines * (2 * MaxLines)
  BY <1>1, TimesGrows
<1>3. MaxLines * (2 * MaxLines) \in Nat
  BY <1>1
<1>4. MaxLines * (2 * MaxLines + 3) = MaxLines * (2 * MaxLines) + 3 * MaxLines
  BY <1>1
<1>. DEFINE a == MaxLines * n
            b == MaxLines * (2 * MaxLines)
<1>5. a \in Nat /\ b \in Nat /\ a <= b /\ RowSpan = b + 3 * MaxLines
  BY <1>2, <1>3, <1>4 DEF RowSpan
<1>. HIDE DEF a, b
<1>6. i + a <= RowSpan /\ RowSpan \in Nat
  BY <1>5, <1>1
<1>. QED BY <1>6, <1>5 DEF a

(* An event's row is its source's, and its key is its row's.               *)
ClaudeSlot(f, e, i, n) ==
  LET ls == Lines[f]
  IN /\ i \in 1..MaxLines /\ n \in 0..(2 * MaxLines)
     /\ e.row = File[f].base + i + MaxLines * n
     /\ n = 0 => e.request = ls[i].request
     /\ \A a \in Nat : n = 2 * a + 1 => e.request = ClaudeKey(ls, (a + 1)..Len(ls), i)
     /\ \A a \in Nat : n = 2 * a + 2 => e.request = ToolKey(ls, a, i)

(* A Claude event's row tells its line and the read that made up its key.  *)
LEMMA ClaudeSlots ==
  ASSUME on \in Desks, NEW f \in on.sources, NEW e, ClaudeMade(f, e)
  PROVE  \E i, n \in Nat : ClaudeSlot(f, e, i, n)
<1>. DEFINE ls == Lines[f]
<1>1. PICK i \in DOMAIN ls :
          \/ /\ ls[i].request # None
             /\ e.row = File[f].base + i + MaxLines * 0 /\ e.request = ls[i].request
          \/ /\ ls[i].request = None
             /\ \E a \in 0..(i - 1) :
                  \/ /\ e.row = File[f].base + i + MaxLines * (2 * a + 1)
                     /\ e.request = ClaudeKey(ls, (a + 1)..Len(ls), i)
                  \/ /\ e.row = File[f].base + i + MaxLines * (2 * a + 2)
                     /\ e.request = ToolKey(ls, a, i)
  BY DEF ClaudeMade
<1>2. i \in 1..MaxLines /\ i \in Nat /\ MaxLines \in Nat
  BY SourceIs
<1>3. CASE /\ ls[i].request # None
           /\ e.row = File[f].base + i + MaxLines * 0 /\ e.request = ls[i].request
  <2>1. ClaudeSlot(f, e, i, 0)
    BY <1>2, <1>3 DEF ClaudeSlot
  <2>. QED BY <2>1, <1>2
<1>4. ASSUME NEW a \in 0..(i - 1),
             /\ e.row = File[f].base + i + MaxLines * (2 * a + 1)
             /\ e.request = ClaudeKey(ls, (a + 1)..Len(ls), i)
      PROVE  \E j, n \in Nat : ClaudeSlot(f, e, j, n)
  <2>. DEFINE n == 2 * a + 1
  <2>1. n \in 0..(2 * MaxLines) /\ n \in Nat /\ n # 0
    BY <1>2
  <2>2. \A b \in Nat : n = 2 * b + 1 => b = a
    BY <1>2
  <2>3. \A b \in Nat : n # 2 * b + 2
    BY <1>2
  <2>4. e.row = File[f].base + i + MaxLines * n
    BY <1>4
  <2>. HIDE DEF n
  <2>5. ClaudeSlot(f, e, i, n)
    BY <1>2, <1>4, <2>1, <2>2, <2>3, <2>4 DEF ClaudeSlot
  <2>. QED BY <2>5, <2>1, <1>2
<1>5. ASSUME NEW a \in 0..(i - 1),
             /\ e.row = File[f].base + i + MaxLines * (2 * a + 2)
             /\ e.request = ToolKey(ls, a, i)
      PROVE  \E j, n \in Nat : ClaudeSlot(f, e, j, n)
  <2>. DEFINE n == 2 * a + 2
  <2>1. n \in 0..(2 * MaxLines) /\ n \in Nat /\ n # 0
    BY <1>2
  <2>2. \A b \in Nat : n = 2 * b + 2 => b = a
    BY <1>2
  <2>3. \A b \in Nat : n # 2 * b + 1
    BY <1>2
  <2>4. e.row = File[f].base + i + MaxLines * n
    BY <1>5
  <2>. HIDE DEF n
  <2>5. ClaudeSlot(f, e, i, n)
    BY <1>2, <1>5, <2>1, <2>2, <2>3, <2>4 DEF ClaudeSlot
  <2>. QED BY <2>5, <2>1, <1>2
<1>. QED BY <1>1, <1>3, <1>4, <1>5

(* An event's row is one of its source's.                                  *)
LEMMA RowIsIn ==
  ASSUME on \in Desks, NEW f \in on.sources, NEW e, MadeBy(f, e)
  PROVE  File[f].base <= e.row /\ e.row <= File[f].base + RowSpan /\ e.row \in Nat
<1>1. /\ File[f].base \in Nat /\ MaxLines \in Nat /\ MaxLines # 0
      /\ Kind[f] \in {"claude", "cloud", "codex", "vscode", "hermes", "cli"}
  BY SourceIs, ReadersAssumption
<1>2. ASSUME NEW i \in 1..MaxLines, NEW n \in 0..(2 * MaxLines),
             e.row = File[f].base + i + MaxLines * n
      PROVE  File[f].base <= e.row /\ e.row <= File[f].base + RowSpan /\ e.row \in Nat
  <2>1. MaxLines * n \in Nat /\ i + MaxLines * n <= RowSpan /\ RowSpan \in Nat
    BY SpanHolds
  <2>. QED BY <1>1, <1>2, <2>1
<1>3. CASE Kind[f] = "claude"
  <2>1. PICK i, n \in Nat : ClaudeSlot(f, e, i, n)
    BY <1>3, ClaudeSlots DEF MadeBy
  <2>. QED BY <2>1, <1>2 DEF ClaudeSlot
<1>4. CASE Kind[f] \in {"cloud", "codex", "vscode"}
  <2>1. PICK i \in DOMAIN Lines[f] : e.row = File[f].base + i
    BY <1>4 DEF MadeBy
  <2>2. i \in 1..MaxLines /\ 0 \in 0..(2 * MaxLines) /\ e.row = File[f].base + i + MaxLines * 0
    BY <2>1, <1>1, SourceIs
  <2>. QED BY <2>2, <1>2
<1>5. CASE Kind[f] \in {"hermes", "cli"}
  <2>1. e.row = File[f].base
    BY <1>5 DEF MadeBy
  <2>2. 1 \in 1..MaxLines /\ 0 \in 0..(2 * MaxLines)
    BY <1>1
  <2>3. RowSpan \in Nat
    BY <2>2, SpanHolds
  <2>. QED BY <2>1, <2>3, <1>1
<1>. QED BY <1>1, <1>3, <1>4, <1>5

(* Taking a number off both sides.                                         *)
LEMMA Cancel ==
  ASSUME NEW b \in Int, NEW i \in Int, NEW j \in Int, NEW x \in Int, NEW y \in Int,
         b + i + x = b + j + y
  PROVE  i + x = j + y
OBVIOUS

(* Two events of a source in one row have one key.                         *)
LEMMA RowHasKey ==
  ASSUME on \in Desks, NEW f \in on.sources, NEW e, NEW d, MadeBy(f, e), MadeBy(f, d),
         e.row = d.row
  PROVE  RowOf(e) = RowOf(d)
<1>1. /\ File[f].base \in Nat /\ MaxLines \in Nat /\ MaxLines # 0
      /\ Kind[f] \in {"claude", "cloud", "codex", "vscode", "hermes", "cli"}
  BY SourceIs, ReadersAssumption
<1>2. CASE Kind[f] = "claude"
  <2>0. ClaudeMade(f, e) /\ ClaudeMade(f, d)
    BY <1>2 DEF MadeBy
  <2>1. PICK i, n \in Nat : ClaudeSlot(f, e, i, n)
    BY <2>0, ClaudeSlots
  <2>2. PICK j, m \in Nat : ClaudeSlot(f, d, j, m)
    BY <2>0, ClaudeSlots
  <2>. DEFINE a == MaxLines * n
              b == MaxLines * m
  <2>3. /\ e.row = File[f].base + i + MaxLines * n /\ d.row = File[f].base + j + MaxLines * m
        /\ i \in 1..MaxLines /\ j \in 1..MaxLines
    BY <2>1, <2>2 DEF ClaudeSlot
  <2>4. a \in Nat /\ b \in Nat
    BY <1>1, TimesGrows
  <2>5. i + a = j + b
    <3>1. e.row = File[f].base + i + a /\ d.row = File[f].base + j + b
      BY <2>3
    <3>2. File[f].base \in Int /\ i \in Int /\ j \in Int /\ a \in Int /\ b \in Int
      BY <1>1, <2>4
    <3>3. File[f].base + i + a = File[f].base + j + b
      BY <3>1
    <3>. HIDE DEF a, b
    <3>. QED BY <3>2, <3>3, Cancel
  <2>6. n = m /\ i = j
    BY <2>3, <2>5, <1>1, OneQuotient
  <2>7. \/ n = 0 \/ (\E c \in Nat : n = 2 * c + 1) \/ (\E c \in Nat : n = 2 * c + 2)
    <3>1. n = 0 \/ n - 1 \in Nat
      OBVIOUS
    <3>2. CASE n - 1 \in Nat
      <4>1. \E c \in Nat : n - 1 = 2 * c \/ n - 1 = 2 * c + 1
        <5>1. (n - 1) \div 2 \in Nat /\ (n - 1) % 2 \in {0, 1}
              /\ n - 1 = (2 * ((n - 1) \div 2)) + ((n - 1) % 2)
          BY <3>2
        <5>. QED BY <5>1
      <4>. QED BY <4>1, <3>2
    <3>. QED BY <3>1, <3>2
  <2>8. e.request = d.request
    BY <2>1, <2>2, <2>6, <2>7 DEF ClaudeSlot
  <2>. QED BY <2>0, <2>8 DEF RowOf, ClaudeMade
<1>3. CASE Kind[f] \in {"cloud", "codex", "vscode"}
  <2>1. PICK i \in DOMAIN Lines[f] : e.row = File[f].base + i /\ RowOf(e) = LinesKey(f, i)
    BY <1>3 DEF MadeBy
  <2>2. PICK j \in DOMAIN Lines[f] : d.row = File[f].base + j /\ RowOf(d) = LinesKey(f, j)
    BY <1>3 DEF MadeBy
  <2>3. i = j
    <3>1. i \in Int /\ j \in Int /\ File[f].base \in Int /\ 0 \in Int
      BY <1>1, SourceIs
    <3>2. File[f].base + i = File[f].base + j
      BY <2>1, <2>2
    <3>. QED BY <3>1, <3>2
  <2>. QED BY <2>1, <2>2, <2>3
<1>4. CASE Kind[f] \in {"hermes", "cli"}
  BY <1>4 DEF MadeBy
<1>. QED BY <1>1, <1>2, <1>3, <1>4

(* Two stored events are in two rows: InOrder's ties are broken.           *)
LEMMA RowsApart ==
  ASSUME on \in Desks, StoreMade, RowPerKey
  PROVE  \A d, e \in events : d.row = e.row => d = e
<1>1. SUFFICES ASSUME NEW d \in events, NEW e \in events, d.row = e.row PROVE d = e
  OBVIOUS
<1>2. PICK f \in on.sources : MadeBy(f, d)
  BY DEF StoreMade
<1>3. PICK g \in on.sources : MadeBy(g, e)
  BY DEF StoreMade
<1>4. f = g
  <2>1. SUFFICES ASSUME f # g PROVE FALSE
    OBVIOUS
  <2>2. Apart(f, g)
    BY <2>1, SourcesApart
  <2>3. /\ File[f].base <= d.row /\ d.row <= File[f].base + RowSpan /\ d.row \in Nat
        /\ File[g].base <= e.row /\ e.row <= File[g].base + RowSpan
    BY <1>2, <1>3, RowIsIn
  <2>4. File[f].base \in Nat /\ File[g].base \in Nat /\ RowSpan \in Int
    BY SourceIs DEF RowSpan
  <2>. QED BY <1>1, <2>2, <2>3, <2>4 DEF Apart
<1>5. RowOf(d) = RowOf(e)
  BY <1>1, <1>2, <1>3, <1>4, RowHasKey
<1>. QED BY <1>5 DEF RowPerKey

-----------------------------------------------------------------------------
(***************************************************************************)
(* UpsertEvents.                                                           *)
(***************************************************************************)
(* No key twice in es.                                                     *)
OnePerKey(es) == \A d, e \in es : RowOf(d) = RowOf(e) => d = e

(* Of a key the store keeps its row unless a new one has a larger output.  *)
LEMMA UpsertKeeps ==
  ASSUME NEW es, NEW new, IsFiniteSet(es), IsFiniteSet(new), OnePerKey(es), OnePerKey(new),
         \A e \in es \cup new : e.output \in Int
  PROVE  LET R == UpsertEvents(es, new)
         IN /\ IsFiniteSet(R) /\ OnePerKey(R)
            /\ \A r \in R :
                 \/ r \in es /\ \A e \in new : RowOf(e) = RowOf(r) => e.output <= r.output
                 \/ r \in new /\ \A e \in es : RowOf(e) = RowOf(r) => e.output < r.output
            /\ \A x \in es \cup new : \E r \in R : RowOf(r) = RowOf(x) /\ x.output <= r.output
<1>. DEFINE wins == {e \in new : \A x \in es : RowOf(x) = RowOf(e) => e.output > x.output}
            stay == {x \in es : ~\E e \in wins : RowOf(e) = RowOf(x)}
            R == UpsertEvents(es, new)
<1>1. R = stay \cup wins
  BY DEF UpsertEvents
<1>2. IsFiniteSet(stay) /\ IsFiniteSet(wins)
  <2>1. stay \in SUBSET es /\ wins \in SUBSET new
    OBVIOUS
  <2>. HIDE DEF stay, wins
  <2>. QED BY <2>1, FS_Subset
<1>3. IsFiniteSet(R)
  <2>. HIDE DEF R, stay, wins
  <2>. QED BY <1>1, <1>2, FS_Union
<1>4. OnePerKey(R)
  <2>1. stay \subseteq es /\ wins \subseteq new /\ \A x \in stay, e \in wins : RowOf(e) # RowOf(x)
    OBVIOUS
  <2>. HIDE DEF stay, wins, R
  <2>. QED BY <1>1, <2>1 DEF OnePerKey
<1>5. ASSUME NEW r \in R
      PROVE  \/ r \in es /\ \A e \in new : RowOf(e) = RowOf(r) => e.output <= r.output
             \/ r \in new /\ \A e \in es : RowOf(e) = RowOf(r) => e.output < r.output
  <2>1. CASE r \in stay
    <3>1. SUFFICES ASSUME NEW e \in new, RowOf(e) = RowOf(r) PROVE e.output <= r.output
      BY <2>1
    <3>2. e \notin wins
      BY <2>1, <3>1
    <3>3. PICK x \in es : RowOf(x) = RowOf(e) /\ ~ (e.output > x.output)
      BY <3>2
    <3>4. x = r
      BY <2>1, <3>1, <3>3 DEF OnePerKey
    <3>. QED BY <2>1, <3>3, <3>4
  <2>2. CASE r \in wins
    BY <2>2
  <2>. HIDE DEF R, stay, wins
  <2>. QED BY <1>1, <2>1, <2>2
<1>6. ASSUME NEW e \in new PROVE \E r \in R : RowOf(r) = RowOf(e) /\ e.output <= r.output
  <2>1. CASE e \in wins
    <3>. HIDE DEF R, stay, wins
    <3>. QED BY <1>1, <2>1
  <2>2. CASE e \notin wins
    <3>1. PICK x \in es : RowOf(x) = RowOf(e) /\ ~ (e.output > x.output)
      BY <2>2
    <3>2. \A d \in wins : RowOf(d) # RowOf(x)
      <4>1. SUFFICES ASSUME NEW d \in wins, RowOf(d) = RowOf(x) PROVE FALSE
        OBVIOUS
      <4>2. d = e
        BY <3>1, <4>1 DEF OnePerKey
      <4>. HIDE DEF wins
      <4>. QED BY <4>1, <4>2, <2>2
    <3>3. x \in stay
      BY <3>2
    <3>. HIDE DEF R, stay, wins
    <3>. QED BY <1>1, <3>1, <3>3
  <2>. QED BY <2>1, <2>2
<1>7. ASSUME NEW x \in es PROVE \E r \in R : RowOf(r) = RowOf(x) /\ x.output <= r.output
  <2>1. CASE x \in stay
    <3>. HIDE DEF R, stay, wins
    <3>. QED BY <1>1, <2>1
  <2>2. CASE x \notin stay
    <3>1. PICK e \in wins : RowOf(e) = RowOf(x)
      BY <2>2
    <3>2. e.output > x.output /\ e \in new
      BY <3>1
    <3>. HIDE DEF R, stay, wins
    <3>. QED BY <1>1, <3>1, <3>2
  <2>. QED BY <2>1, <2>2
<1>8. \A x \in es \cup new : \E r \in R : RowOf(r) = RowOf(x) /\ x.output <= r.output
  <2>. HIDE DEF R
  <2>. QED BY <1>6, <1>7
<1>. QED BY <1>3, <1>4, <1>5, <1>8

(* What a reader may hand to the store.                                    *)
Sound(f, N) ==
  /\ IsFiniteSet(N) /\ OnePerKey(N)
  /\ \A e \in N : Filled(e) /\ MadeBy(f, e)

(* Taking a sound hand-over keeps the store typed, made and one per key.   *)
LEMMA StoreTakes ==
  ASSUME StoreTyped, StoreMade, RowPerKey, NEW f \in on.sources, NEW N, Sound(f, N),
         on' = on, events' = UpsertEvents(events, N)
  PROVE  StoreTyped' /\ StoreMade' /\ RowPerKey'
<1>1. /\ IsFiniteSet(events) /\ IsFiniteSet(N) /\ OnePerKey(events) /\ OnePerKey(N)
      /\ \A e \in events \cup N : e.output \in Int
  BY DEF StoreTyped, RowPerKey, OnePerKey, Sound, Filled
<1>2. /\ IsFiniteSet(events') /\ OnePerKey(events') /\ \A r \in events' : r \in events \/ r \in N
  BY <1>1, UpsertKeeps
<1>3. StoreTyped'
  BY <1>2 DEF StoreTyped, Sound
<1>4. StoreMade'
  BY <1>2 DEF StoreMade, Sound
<1>5. RowPerKey'
  BY <1>2 DEF RowPerKey, OnePerKey
<1>. QED BY <1>3, <1>4, <1>5

-----------------------------------------------------------------------------
(***************************************************************************)
(* What the adapters read, source by source.                               *)
(***************************************************************************)
(* The text of a file is a prefix of it.                                   *)
LEMMA TextIs ==
  ASSUME on \in Desks, NEW f \in on.sources, NEW n \in 0..Len(Lines[f])
  PROVE  /\ Len(Text(f, n)) = n /\ DOMAIN Text(f, n) = 1..n
         /\ \A i \in 1..n : Text(f, n)[i] = Lines[f][i]
<1>1. Lines[f] \in Seq(Elems(Lines[f])) /\ Len(Lines[f]) \in Nat
  BY SourceIs DEF Writes
<1>. QED BY <1>1 DEF Text

(* The projects the lines name are known. *)
LEMMA CwdKnown ==
  ASSUME on \in Desks, NEW f \in on.sources, NEW i \in DOMAIN Lines[f]
  PROVE  /\ Kind[f] \in {"claude", "cli"} => Lines[f][i].cwd \in DOMAIN Remote
         /\ Kind[f] = "codex" /\ Lines[f][i].kind \in {"meta", "context"} =>
              Lines[f][i].cwd \in DOMAIN Remote
<1>1. ProjectsOf(f) \subseteq DOMAIN Remote
  BY SourceIs DEF Writes
<1>2. Lines[f][i] \in Elems(Lines[f])
  BY DEF Elems
<1>. QED BY <1>1, <1>2 DEF ProjectsOf

(* The members of P that stand for their key: the first largest output.    *)
Firsts(P, k, o) ==
  {i \in P : \A j \in P : k[j] = k[i] => o[j] < o[i] \/ (o[j] = o[i] /\ i <= j)}

(* Every key has one.                                                      *)
LEMMA SomeLead ==
  ASSUME NEW P, IsFiniteSet(P), P \in SUBSET Nat, NEW k, NEW o, \A i \in P : o[i] \in Int
  PROVE  /\ \A j \in P : \E i \in Firsts(P, k, o) : k[i] = k[j] /\ o[j] <= o[i]
         /\ \A i, j \in Firsts(P, k, o) : k[i] = k[j] => i = j
<1>. DEFINE T == {i \in P : \A j \in P : k[j] = k[i] =>
                                  o[j] < o[i] \/ (o[j] = o[i] /\ i <= j)}
<1>1. ASSUME NEW j \in P PROVE \E i \in T : k[i] = k[j] /\ o[j] <= o[i]
  <2>. DEFINE Q == {i \in P : k[i] = k[j]}
              g == [i \in Q |-> o[i]]
              O == {g[i] : i \in Q}
  <2>1. IsFiniteSet(Q)
    <3>1. Q \in SUBSET P
      OBVIOUS
    <3>. HIDE DEF Q
    <3>. QED BY <3>1, FS_Subset
  <2>2. IsFiniteSet(O)
    <3>. HIDE DEF Q, g
    <3>. QED BY <2>1, ImageFinite
  <2>3. O \in SUBSET Int /\ o[j] \in O
    OBVIOUS
  <2>4. Max(O) \in O /\ \A x \in O : x <= Max(O)
    <3>. HIDE DEF O
    <3>. QED BY <2>2, <2>3, MaxIs
  <2>. DEFINE B == {i \in Q : o[i] = Max(O)}
  <2>5. B \in SUBSET Nat /\ B # {}
    <3>. HIDE DEF Max
    <3>. QED BY <2>4
  <2>6. PICK m \in B : \A i \in B : m <= i
    <3>. HIDE DEF B
    <3>. QED BY <2>5, LeastNat
  <2>7. m \in Q /\ m \in P /\ k[m] = k[j] /\ o[m] = Max(O) /\ o[m] \in Int /\ j \in Q
    OBVIOUS
  <2>8. ASSUME NEW i \in P, k[i] = k[m] PROVE o[i] < o[m] \/ (o[i] = o[m] /\ m <= i)
    <3>1. i \in Q /\ o[i] \in O /\ o[i] \in Int
      BY <2>7, <2>8
    <3>2. o[i] <= o[m]
      <4>. HIDE DEF O
      <4>. QED BY <3>1, <2>4, <2>7
    <3>3. o[i] = o[m] => m <= i
      <4>1. o[i] = o[m] => i \in B
        BY <3>1, <2>7
      <4>. HIDE DEF B
      <4>. QED BY <4>1, <2>6
    <3>. HIDE DEF O, Q, B
    <3>. QED BY <3>1, <3>2, <3>3, <2>7
  <2>9. m \in T
    <3>. HIDE DEF O, Q, B
    <3>. QED BY <2>7, <2>8
  <2>10. o[j] <= o[m]
    <3>. HIDE DEF O, Q, B
    <3>. QED BY <2>3, <2>4, <2>7
  <2>. HIDE DEF O, Q, B
  <2>. QED BY <2>7, <2>9, <2>10
<1>2. ASSUME NEW i \in T, NEW j \in T, k[i] = k[j] PROVE i = j
  <2>1. /\ o[j] < o[i] \/ (o[j] = o[i] /\ i <= j)
        /\ o[i] < o[j] \/ (o[i] = o[j] /\ j <= i)
    BY <1>2
  <2>2. i \in P /\ j \in P /\ i \in Nat /\ j \in Nat /\ o[i] \in Int /\ o[j] \in Int
    OBVIOUS
  <2>. QED BY <2>1, <2>2
<1>. QED BY <1>1, <1>2 DEF Firsts

(* The lines a read of f looks at: a cloud drop is read whole.             *)
LinesRead(f, from, n) == IF Kind[f] = "cloud" THEN 1..n ELSE (from + 1)..n

(* What a read of the lines P has to come to.                              *)
ReadSound(f, N, P) ==
  /\ Sound(f, N)
  /\ \A e \in N : /\ FromIds(f, e) /\ ~ToolOnly(f, e) => InRows(f, e)
                  /\ InRows(f, e) =>
                       \/ ToolOnly(f, e)
                       \/ \E i \in P : /\ e.row = File[f].base + i
                                       /\ ShowsLine(f, i, e) /\ Leads(f, i, P)
  /\ \A j \in Named(f) \cap P :
       \E e \in N : RowOf(e) = LinesKey(f, j) /\ Output(f, j) <= e.output

(* NotZero keeps numbers.                                                  *)
LEMMA Figure0 ==
  ASSUME NEW n \in Nat PROVE NotZero(n) \in Nat \cup {Nil}
BY DEF NotZero

(* A cloud drop's hand-over is what its lines come to.                     *)
LEMMA CloudRead ==
  ASSUME on \in Desks, NEW f \in on.sources, Kind[f] = "cloud",
         NEW n \in 0..Len(Lines[f])
  PROVE  ReadSound(f, CloudEvents(File[f], Text(f, n)), 1..n)
<1>. DEFINE ls == Text(f, n)
            L == Lines[f]
            Q == {j \in DOMAIN ls : ls[j].session # None /\ ls[j].request # None}
            k == [j \in Q |-> <<ls[j].session, ls[j].request>>]
            o == [j \in Q |-> ls[j].output]
            T == InTurn(Q, LAMBDA j : <<ls[j].session, ls[j].request>>, LAMBDA j : ls[j].output)
            New(i) == NewEvent("anthropic", "cowork-cloud", "cloud", ls[i].session,
                               ls[i].request, File[f].base + i)
            Ev(i) == [New(i) EXCEPT
                        !.at = ls[i].at, !.model = ls[i].model, !.input = ls[i].input,
                        !.cw = NotZero(ls[i].cw), !.cr = NotZero(ls[i].cr),
                        !.output = ls[i].output]
            N == CloudEvents(File[f], ls)
<1>1. N = {Ev(i) : i \in T}
  BY DEF CloudEvents
<1>2. /\ Len(ls) = n /\ DOMAIN ls = 1..n /\ \A i \in 1..n : ls[i] = L[i]
      /\ n \in Nat /\ n <= Len(L) /\ DOMAIN L = 1..Len(L) /\ File[f].base \in Nat
      /\ Len(L) \in Nat
  BY TextIs, SourceIs
<1>3. CloudWrites(L)
  BY SourceIs DEF Writes
<1>4. ASSUME NEW i \in 1..n
      PROVE  /\ ls[i] = L[i] /\ i \in DOMAIN L /\ ls[i].at \in Nat /\ ls[i].at # 1 /\ ls[i].input \in Nat
             /\ ls[i].cw \in Nat /\ ls[i].cr \in Nat /\ ls[i].output \in Nat
  <2>1. ls[i] = L[i] /\ i \in DOMAIN L
    BY <1>2
  <2>2. IsStamp(L[i].at) /\ AllNat({L[i].input, L[i].cw, L[i].cr, L[i].output})
    BY <1>3, <2>1 DEF CloudWrites
  <2>. HIDE DEF ls, L
  <2>. QED BY <2>1, <2>2 DEF AllNat, IsStamp
<1>5. /\ IsFiniteSet(Q) /\ Q \in SUBSET Nat /\ Q \in SUBSET (1..n) /\ \A i \in Q : o[i] \in Int
  <2>1. Q \in SUBSET (1..n)
    BY <1>2
  <2>2. IsFiniteSet(1..n)
    BY <1>2, FS_Interval
  <2>3. \A i \in Q : o[i] = ls[i].output
    OBVIOUS
  <2>4. \A i \in Q : o[i] \in Int
    BY <2>1, <2>3, <1>4
  <2>. HIDE DEF Q, o, ls
  <2>5. IsFiniteSet(Q)
    BY <2>1, <2>2, FS_Subset
  <2>6. Q \in SUBSET Nat
    BY <2>1
  <2>. QED BY <2>1, <2>4, <2>5, <2>6
<1>6. T = {i \in Q : \A j \in Q : k[j] = k[i] => o[j] < o[i] \/ (o[j] = o[i] /\ i <= j)}
      /\ T = Firsts(Q, k, o)
  <2>1. \A i, j \in Q : k[j] = <<ls[j].session, ls[j].request>> /\ o[j] = ls[j].output
    OBVIOUS
  <2>2. T = {i \in Q : \A j \in Q : <<ls[j].session, ls[j].request>> = <<ls[i].session, ls[i].request>> =>
                ls[j].output < ls[i].output \/ (ls[j].output = ls[i].output /\ i <= j)}
    BY DEF InTurn
  <2>. HIDE DEF Q, k, o, T, ls
  <2>. QED BY <2>1, <2>2 DEF Firsts
<1>7. /\ \A j \in Q : \E i \in T : k[i] = k[j] /\ o[j] <= o[i]
      /\ \A i, j \in T : k[i] = k[j] => i = j
  <2>. HIDE DEF Q, k, o, T
  <2>. QED BY <1>5, <1>6, SomeLead
<1>8. ASSUME NEW i \in 1..n
      PROVE  LET e == Ev(i) IN
             /\ IsEvent(e) /\ e.vendor = "anthropic" /\ e.session = ls[i].session
             /\ e.request = ls[i].request /\ e.row = File[f].base + i
             /\ e.at = ls[i].at /\ e.model = ls[i].model /\ e.input = ls[i].input
             /\ e.cw = NotZero(ls[i].cw) /\ e.cr = NotZero(ls[i].cr) /\ e.output = ls[i].output
             /\ e.reasoning = Nil /\ e.project = None
  <2>. DEFINE new == New(i)
  <2>1. /\ IsEvent(new) /\ new.vendor = "anthropic" /\ new.session = ls[i].session
        /\ new.request = ls[i].request /\ new.row = File[f].base + i /\ new.reasoning = Nil
        /\ new.project = None
    <3>. HIDE DEF ls
    <3>. QED BY DEF NewEvent, IsEvent
  <2>2. Ev(i) = [new EXCEPT !.at = ls[i].at, !.model = ls[i].model, !.input = ls[i].input,
                        !.cw = NotZero(ls[i].cw), !.cr = NotZero(ls[i].cr),
                        !.output = ls[i].output]
    OBVIOUS
  <2>. HIDE DEF new, Ev, ls
  <2>. QED BY <2>1, <2>2 DEF IsEvent
<1>. HIDE DEF Ev
<1>9. T \in SUBSET Q /\ T \in SUBSET (1..n) /\ Named(f) = {j \in DOMAIN L : L[j].session # None /\ L[j].request # None}
  BY <1>5, <1>6 DEF Named
<1>10. ASSUME NEW i \in 1..n
       PROVE  /\ RowOf(Ev(i)) = LinesKey(f, i) /\ Filled(Ev(i)) /\ MadeBy(f, Ev(i))
              /\ (i \in Named(f) <=> i \in Q) /\ (i \in Q => ShowsLine(f, i, Ev(i)))
              /\ Output(f, i) = Ev(i).output /\ Output(f, i) = ls[i].output
  <2>. DEFINE e == Ev(i)
  <2>0. ls[i] = L[i] /\ i \in DOMAIN L /\ i \in 1..n
    BY <1>4
  <2>1. /\ IsEvent(e) /\ e.vendor = "anthropic" /\ e.session = ls[i].session
        /\ e.request = ls[i].request /\ e.row = File[f].base + i
        /\ e.at = ls[i].at /\ e.model = ls[i].model /\ e.input = ls[i].input
        /\ e.cw = NotZero(ls[i].cw) /\ e.cr = NotZero(ls[i].cr) /\ e.output = ls[i].output
        /\ e.reasoning = Nil /\ e.project = None
    <3>. HIDE DEF ls
    <3>. QED BY <1>8
  <2>2. i \in Named(f) <=> i \in Q
    BY <1>2, <1>9, <2>0
  <2>. HIDE DEF e, ls, Q
  <2>3. LinesKey(f, i) = <<"anthropic", L[i].session, L[i].request>>
    BY DEF LinesKey
  <2>4. RowOf(e) = LinesKey(f, i)
    BY <2>0, <2>1, <2>3 DEF RowOf
  <2>5. Output(f, i) = ls[i].output
    BY <2>0 DEF Output
  <2>6. Filled(e)
    <3>1. /\ ls[i].at \in Nat /\ ls[i].at # 1 /\ ls[i].input \in Nat
          /\ ls[i].cw \in Nat /\ ls[i].cr \in Nat /\ ls[i].output \in Nat
      BY <1>4
    <3>2. File[f].base + i \in Nat
      BY <1>2
    <3>. QED BY <2>1, <3>1, <3>2, Figure0, SourceIs DEF Filled
  <2>7. MadeBy(f, e)
    BY <2>0, <2>1, <2>4 DEF MadeBy
  <2>8. i \in Q => ShowsLine(f, i, e)
    BY <2>0, <2>1, <2>2, <2>4, <2>5 DEF ShowsLine
  <2>. QED BY <2>1, <2>2, <2>4, <2>5, <2>6, <2>7, <2>8 DEF e
<1>. HIDE DEF N, T, Q, k, o
<1>11. IsFiniteSet(N)
  <2>. DEFINE g == [i \in T |-> Ev(i)]
  <2>1. IsFiniteSet(T)
    BY <1>5, <1>9, FS_Subset
  <2>2. IsFiniteSet({g[i] : i \in T})
    <3>. HIDE DEF g
    <3>. QED BY <2>1, ImageFinite
  <2>. QED BY <1>1, <2>2
<1>12. \A i, j \in 1..n : LinesKey(f, i) = LinesKey(f, j) <=> <<ls[i].session, ls[i].request>> = <<ls[j].session, ls[j].request>>
  BY <1>4 DEF LinesKey
<1>13. \A i, j \in Q : LinesKey(f, i) = LinesKey(f, j) <=> k[i] = k[j]
  BY <1>12, <1>5 DEF k
<1>14. \A i \in Q : o[i] = Output(f, i) /\ Output(f, i) \in Nat
  BY <1>10, <1>5, <1>4 DEF o
<1>15. Sound(f, N)
  <2>1. OnePerKey(N)
    BY <1>1, <1>7, <1>9, <1>10, <1>13 DEF OnePerKey
  <2>. QED BY <2>1, <1>1, <1>9, <1>10, <1>11 DEF Sound
<1>16. ASSUME NEW i \in T PROVE Leads(f, i, 1..n)
  <2>1. SUFFICES ASSUME NEW j \in Named(f) \cap (1..n), LinesKey(f, j) = LinesKey(f, i)
                 PROVE  Output(f, j) <= Output(f, i) /\ (Output(f, j) = Output(f, i) => i <= j)
    BY DEF Leads
  <2>2. i \in Q /\ j \in Q /\ k[j] = k[i]
    BY <1>9, <1>10, <1>13, <2>1
  <2>3. o[j] < o[i] \/ (o[j] = o[i] /\ i <= j)
    BY <1>6, <2>2
  <2>. QED BY <2>2, <2>3, <1>14
<1>17. ASSUME NEW e \in N
       PROVE  /\ InRows(f, e)
              /\ \E i \in 1..n : e.row = File[f].base + i /\ ShowsLine(f, i, e) /\ Leads(f, i, 1..n)
  <2>1. PICK i \in T : e = Ev(i)
    BY <1>1
  <2>2. i \in 1..n /\ i \in Q /\ e.row = File[f].base + i
    BY <1>9, <1>8, <2>1
  <2>3. InRows(f, e)
    BY <2>2, <1>2 DEF InRows
  <2>. QED BY <2>1, <2>2, <2>3, <1>10, <1>16
<1>18. ASSUME NEW j \in Named(f) \cap (1..n)
       PROVE  \E e \in N : RowOf(e) = LinesKey(f, j) /\ Output(f, j) <= e.output
  <2>1. j \in Q
    BY <1>10
  <2>2. PICK i \in T : k[i] = k[j] /\ o[j] <= o[i]
    BY <1>7, <2>1
  <2>. QED BY <2>1, <2>2, <1>1, <1>9, <1>10, <1>13, <1>14
<1>. QED BY <1>15, <1>17, <1>18 DEF ReadSound, N

(* A Codex rollout's is too, wherever the read starts: RequestID is the    *)
(* same in every read.                                                     *)
LEMMA CodexRead ==
  ASSUME on \in Desks, NEW f \in on.sources, Kind[f] = "codex",
         NEW n \in 0..Len(Lines[f]), NEW from \in Nat
  PROVE  ReadSound(f, CodexEvents(File[f], Text(f, n), from), (from + 1)..n)
<1>. DEFINE ls == Text(f, n)
            L == Lines[f]
            P == (from + 1)..Len(ls)
            Q == Kinds(ls, P, "count")
            k == [j \in Q |-> RequestID(ls, from, j)]
            o == [j \in Q |-> ls[j].output]
            T == InTurn(Q, LAMBDA j : RequestID(ls, from, j), LAMBDA j : ls[j].output)
            head == ScanHeaderMeta(ls, from)
            Before(i) == {j \in P : j < i /\ ls[j].kind \in {"meta", "context"}}
            Cwd(i) == IF head.cwd # None THEN head.cwd ELSE CwdOf(ls, Before(i))
            Surface(i) == LET m == {j \in Kinds(ls, P, "meta") : j < i}
                          IN IF m = {} THEN head.surface ELSE ls[Max(m)].surface
            Model(i) == ContextModel(ls, P, i, head.sub, head.model)
            Title(i) == ContextTitle(ls, P, i, head.sub)
            New(i) == NewEvent("openai", "codex", Surface(i), File[f].session,
                               RequestID(ls, from, i), File[f].base + i)
            Ev(i) == [New(i) EXCEPT
                        !.at = ls[i].at, !.project = Cwd(i), !.model = Model(i),
                        !.title = Title(i), !.input = ls[i].input - ls[i].cached,
                        !.cr = NotZero(ls[i].cached), !.output = ls[i].output,
                        !.reasoning = NotZero(ls[i].reasoning)]
            N == CodexEvents(File[f], ls, from)
<1>1. N = {Ev(i) : i \in T}
  BY DEF CodexEvents, CwdOf
<1>2. /\ Len(ls) = n /\ DOMAIN ls = 1..n /\ \A i \in 1..n : ls[i] = L[i]
      /\ n \in Nat /\ n <= Len(L) /\ DOMAIN L = 1..Len(L) /\ File[f].base \in Nat
      /\ Len(L) \in Nat /\ P = (from + 1)..n
  BY TextIs, SourceIs
<1>a. ASSUME NEW i PROVE Cwd(i) \in DOMAIN Remote
  <2>. DEFINE H == 1..Min({HeaderLines, Len(ls)})
              metas == Kinds(ls, H, "meta")
  <2>1. ASSUME NEW j \in 1..n, ls[j].kind \in {"meta", "context"}
        PROVE  ls[j].cwd \in DOMAIN Remote
    <3>1. j \in DOMAIN L /\ ls[j] = L[j]
      BY <1>2
    <3>. QED BY <2>1, <3>1, CwdKnown
  <2>2. head.cwd = None \/ (metas # {} /\ head.cwd = ls[Max(metas)].cwd)
    BY DEF ScanHeaderMeta
  <2>3. H \in SUBSET (1..n)
    <3>1. HeaderLines \in Nat /\ n \in Nat /\ Len(ls) = n
      BY <1>2, ReadersAssumption
    <3>2. Min({HeaderLines, n}) \in {HeaderLines, n} /\ Min({HeaderLines, n}) <= n
      BY <3>1, MinIs
    <3>. HIDE DEF ls
    <3>. QED BY <3>1, <3>2
  <2>4. metas # {} => Max(metas) \in metas
    <3>1. metas \in SUBSET (1..n)
      BY <2>3 DEF Kinds
    <3>2. IsFiniteSet(1..n)
      BY <1>2, FS_Interval
    <3>. HIDE DEF metas
    <3>3. metas \in SUBSET Int
      BY <1>2, <3>1
    <3>. QED BY <3>1, <3>2, <3>3, FS_Subset, MaxIs
  <2>5. head.cwd \in DOMAIN Remote
    <3>1. metas # {} => Max(metas) \in 1..n /\ ls[Max(metas)].kind = "meta"
      BY <2>3, <2>4 DEF Kinds
    <3>. HIDE DEF metas, head, ls
    <3>. QED BY <2>1, <2>2, <3>1, SourceIs
  <2>6. CwdOf(ls, Before(i)) \in DOMAIN Remote
    <3>1. \A j \in Before(i) : j \in 1..n /\ j \in Nat /\ ls[j].kind \in {"meta", "context"}
      BY <1>2
    <3>. HIDE DEF Before, ls
    <3>. QED BY <2>1, <3>1, CwdIs, SourceIs
  <2>. QED BY <2>5, <2>6
<1>. HIDE DEF head, Before, Cwd, Surface, Model, Title
<1>3. CodexWrites(L)
  BY SourceIs DEF Writes
<1>4. ASSUME NEW i \in Q
      PROVE  /\ i \in P /\ i \in Nat /\ i \in 1..n /\ ls[i] = L[i] /\ i \in DOMAIN L
             /\ ls[i].at \in Nat /\ ls[i].at # 1 /\ ls[i].input - ls[i].cached \in Nat
             /\ ls[i].cached \in Nat /\ ls[i].output \in Nat /\ ls[i].reasoning \in Nat
             /\ ls[i].output > 0 /\ i \in Named(f)
  <2>1. i \in P /\ i \in Nat /\ i \in 1..n /\ ls[i].kind = "count"
    BY <1>2 DEF Kinds
  <2>2. ls[i] = L[i] /\ i \in DOMAIN L
    BY <1>2, <2>1
  <2>3. i \in Kinds(L, DOMAIN L, "count")
    BY <2>1, <2>2 DEF Kinds
  <2>4. /\ IsStamp(L[i].at) /\ AllNat({L[i].input, L[i].cached, L[i].output, L[i].reasoning})
        /\ L[i].cached <= L[i].input /\ L[i].output > 0
    BY <1>3, <2>3 DEF CodexWrites
  <2>5. i \in Named(f)
    BY <2>3 DEF Named
  <2>6. /\ L[i].at \in Nat /\ L[i].at # 1 /\ L[i].input - L[i].cached \in Nat
        /\ L[i].cached \in Nat /\ L[i].output \in Nat /\ L[i].reasoning \in Nat
    <3>. HIDE DEF L
    <3>. QED BY <2>4 DEF AllNat, IsStamp
  <2>. HIDE DEF ls, L, P
  <2>. QED BY <2>1, <2>2, <2>4, <2>5, <2>6
<1>5. /\ IsFiniteSet(Q) /\ Q \in SUBSET Nat /\ Q \in SUBSET P /\ \A i \in Q : o[i] \in Int
  <2>1. Q \in SUBSET P /\ Q \in SUBSET Nat
    BY <1>4
  <2>2. IsFiniteSet(P)
    BY <1>2, FS_Interval
  <2>3. \A i \in Q : o[i] = ls[i].output
    OBVIOUS
  <2>4. \A i \in Q : o[i] \in Int
    BY <2>3, <1>4
  <2>. HIDE DEF Q, o, ls, P
  <2>5. IsFiniteSet(Q)
    BY <2>1, <2>2, FS_Subset
  <2>. QED BY <2>1, <2>4, <2>5
<1>6. T = {i \in Q : \A j \in Q : k[j] = k[i] => o[j] < o[i] \/ (o[j] = o[i] /\ i <= j)}
      /\ T = Firsts(Q, k, o)
  <2>1. \A i, j \in Q : k[j] = RequestID(ls, from, j) /\ o[j] = ls[j].output
    OBVIOUS
  <2>2. T = {i \in Q : \A j \in Q : RequestID(ls, from, j) = RequestID(ls, from, i) =>
                ls[j].output < ls[i].output \/ (ls[j].output = ls[i].output /\ i <= j)}
    BY DEF InTurn
  <2>. HIDE DEF Q, k, o, T, ls
  <2>. QED BY <2>1, <2>2 DEF Firsts
<1>7. /\ \A j \in Q : \E i \in T : k[i] = k[j] /\ o[j] <= o[i]
      /\ \A i, j \in T : k[i] = k[j] => i = j
  <2>. HIDE DEF Q, k, o, T
  <2>. QED BY <1>5, <1>6, SomeLead
<1>8. ASSUME NEW i \in Q
      PROVE  LET e == Ev(i) IN
             /\ IsEvent(e) /\ e.vendor = "openai" /\ e.session = File[f].session
             /\ e.request = RequestID(ls, from, i) /\ e.row = File[f].base + i
             /\ e.at = ls[i].at /\ e.input = ls[i].input - ls[i].cached
             /\ e.cw = Nil /\ e.cr = NotZero(ls[i].cached) /\ e.output = ls[i].output
             /\ e.reasoning = NotZero(ls[i].reasoning) /\ e.project = Cwd(i)
  <2>. DEFINE new == New(i)
  <2>1. /\ IsEvent(new) /\ new.vendor = "openai" /\ new.session = File[f].session
        /\ new.request = RequestID(ls, from, i) /\ new.row = File[f].base + i /\ new.cw = Nil
    <3>. HIDE DEF ls
    <3>. QED BY DEF NewEvent, IsEvent
  <2>2. Ev(i) = [new EXCEPT
                        !.at = ls[i].at, !.project = Cwd(i), !.model = Model(i),
                        !.title = Title(i), !.input = ls[i].input - ls[i].cached,
                        !.cr = NotZero(ls[i].cached), !.output = ls[i].output,
                        !.reasoning = NotZero(ls[i].reasoning)]
    OBVIOUS
  <2>. HIDE DEF new, Ev, ls
  <2>. QED BY <2>1, <2>2 DEF IsEvent
<1>. HIDE DEF Ev
<1>9. T \in SUBSET Q
  BY <1>6
<1>10. ASSUME NEW i \in Q
       PROVE  /\ RowOf(Ev(i)) = LinesKey(f, i) /\ Filled(Ev(i)) /\ MadeBy(f, Ev(i))
              /\ ShowsLine(f, i, Ev(i))
              /\ Output(f, i) = Ev(i).output /\ Output(f, i) = ls[i].output
              /\ LinesKey(f, i) = <<"openai", File[f].session, RequestID(ls, from, i)>>
  <2>. DEFINE e == Ev(i)
  <2>0. /\ ls[i] = L[i] /\ i \in DOMAIN L /\ i \in Named(f) /\ i \in 1..n
        /\ ls[i].at \in Nat /\ ls[i].at # 1 /\ ls[i].input - ls[i].cached \in Nat
        /\ ls[i].cached \in Nat /\ ls[i].output \in Nat /\ ls[i].reasoning \in Nat
    BY <1>4
  <2>1. /\ IsEvent(e) /\ e.vendor = "openai" /\ e.session = File[f].session
             /\ e.request = RequestID(ls, from, i) /\ e.row = File[f].base + i
             /\ e.at = ls[i].at /\ e.input = ls[i].input - ls[i].cached
             /\ e.cw = Nil /\ e.cr = NotZero(ls[i].cached) /\ e.output = ls[i].output
             /\ e.reasoning = NotZero(ls[i].reasoning) /\ e.project = Cwd(i)
    <3>. HIDE DEF ls, Q
    <3>. QED BY <1>8
  <2>. HIDE DEF e, ls, Q, L
  <2>2. RequestID(ls, from, i) = RequestID(L, 0, i)
    BY <2>0 DEF RequestID
  <2>3. LinesKey(f, i) = <<"openai", File[f].session, RequestID(ls, from, i)>>
    BY <2>2 DEF LinesKey, L
  <2>4. RowOf(e) = LinesKey(f, i)
    BY <2>1, <2>3 DEF RowOf
  <2>5. Output(f, i) = ls[i].output
    BY <2>0 DEF Output, L
  <2>6. Filled(e)
    <3>1. File[f].base + i \in Nat
      BY <1>2, <2>0
    <3>2. Cwd(i) \in DOMAIN Remote
      BY <1>a
    <3>. QED BY <2>0, <2>1, <3>1, <3>2, Figure0 DEF Filled
  <2>7. MadeBy(f, e)
    BY <2>0, <2>1, <2>4 DEF MadeBy, L
  <2>8. ShowsLine(f, i, e)
    BY <2>0, <2>1, <2>4, <2>5 DEF ShowsLine, L
  <2>. QED BY <2>1, <2>3, <2>4, <2>5, <2>6, <2>7, <2>8 DEF e
<1>. HIDE DEF N, T, Q, k, o
<1>11. IsFiniteSet(N)
  <2>. DEFINE g == [i \in T |-> Ev(i)]
  <2>1. IsFiniteSet(T)
    BY <1>5, <1>9, FS_Subset
  <2>2. IsFiniteSet({g[i] : i \in T})
    <3>. HIDE DEF g
    <3>. QED BY <2>1, ImageFinite
  <2>. QED BY <1>1, <2>2
<1>13. \A i, j \in Q : LinesKey(f, i) = LinesKey(f, j) <=> k[i] = k[j]
  BY <1>10 DEF k
<1>14. \A i \in Q : o[i] = Output(f, i) /\ Output(f, i) \in Nat
  BY <1>10, <1>5, <1>4 DEF o
<1>15. Sound(f, N)
  <2>1. OnePerKey(N)
    BY <1>1, <1>7, <1>9, <1>10, <1>13 DEF OnePerKey
  <2>. QED BY <2>1, <1>1, <1>9, <1>10, <1>11 DEF Sound
<1>. DEFINE R == (from + 1)..n
<1>20. \A j \in Named(f) \cap R : j \in Q
  <2>1. SUFFICES ASSUME NEW j \in Named(f) \cap R PROVE j \in Q
    OBVIOUS
  <2>2. j \in Kinds(L, DOMAIN L, "count")
    BY DEF Named
  <2>3. j \in P /\ ls[j] = L[j]
    BY <1>2
  <2>. QED BY <2>2, <2>3 DEF Kinds, Q
<1>16. ASSUME NEW i \in T PROVE Leads(f, i, R)
  <2>1. SUFFICES ASSUME NEW j \in Named(f) \cap R, LinesKey(f, j) = LinesKey(f, i)
                 PROVE  Output(f, j) <= Output(f, i) /\ (Output(f, j) = Output(f, i) => i <= j)
    BY DEF Leads
  <2>2. i \in Q /\ j \in Q /\ k[j] = k[i]
    BY <1>9, <1>20, <1>13, <2>1
  <2>3. o[j] < o[i] \/ (o[j] = o[i] /\ i <= j)
    BY <1>6, <2>2
  <2>. QED BY <2>2, <2>3, <1>14
<1>17. ASSUME NEW e \in N
       PROVE  /\ InRows(f, e)
              /\ \E i \in R : e.row = File[f].base + i /\ ShowsLine(f, i, e) /\ Leads(f, i, R)
  <2>1. PICK i \in T : e = Ev(i)
    BY <1>1
  <2>2. i \in R /\ i \in 1..n /\ i \in Q /\ e.row = File[f].base + i
    BY <1>2, <1>4, <1>9, <1>8, <2>1
  <2>3. InRows(f, e)
    BY <2>2, <1>2 DEF InRows
  <2>. QED BY <2>1, <2>2, <2>3, <1>10, <1>16
<1>18. ASSUME NEW j \in Named(f) \cap R
       PROVE  \E e \in N : RowOf(e) = LinesKey(f, j) /\ Output(f, j) <= e.output
  <2>1. j \in Q
    BY <1>20
  <2>2. PICK i \in T : k[i] = k[j] /\ o[j] <= o[i]
    BY <1>7, <2>1
  <2>. QED BY <2>1, <2>2, <1>1, <1>9, <1>10, <1>13, <1>14
<1>. QED BY <1>15, <1>17, <1>18 DEF ReadSound, N

(* The number a made-up key carries is at most the lines read.             *)
LEMMA KeysFit ==
  ASSUME NEW ls, NEW m \in Nat, NEW B \in SUBSET (1..m)
  PROVE  LET named == {ls[j].request : j \in B} \ {None}
             unnamed == {j \in B : ls[j].request = None}
         IN Cardinality(named) + Cardinality(unnamed) \in 0..m
<1>. DEFINE named == {ls[j].request : j \in B} \ {None}
            unnamed == {j \in B : ls[j].request = None}
            A == {j \in B : ls[j].request # None}
            g == [j \in A |-> ls[j].request]
<1>1. IsFiniteSet(1..m) /\ Cardinality(1..m) = m
  BY FS_Interval
<1>2. IsFiniteSet(B) /\ Cardinality(B) <= m
  BY <1>1, FS_Subset
<1>3. IsFiniteSet(A) /\ IsFiniteSet(unnamed) /\ A \cap unnamed = {} /\ B = A \cup unnamed
  <2>1. A \in SUBSET B /\ unnamed \in SUBSET B /\ A \cap unnamed = {} /\ B = A \cup unnamed
    OBVIOUS
  <2>. HIDE DEF A, unnamed
  <2>. QED BY <1>2, <2>1, FS_Subset
<1>4. g \in Surjection(A, named)
  BY DEF Surjection
<1>5. IsFiniteSet(named) /\ Cardinality(named) <= Cardinality(A)
  <2>. HIDE DEF A, named, g
  <2>. QED BY <1>3, <1>4, FS_Surjection
<1>. HIDE DEF A, unnamed, named
<1>6. Cardinality(B) = Cardinality(A) + Cardinality(unnamed) - Cardinality({})
  BY <1>3, FS_Union
<1>7. /\ Cardinality({}) = 0 /\ Cardinality(A) \in Nat /\ Cardinality(unnamed) \in Nat
      /\ Cardinality(named) \in Nat
  BY <1>3, <1>5, FS_EmptySet, FS_CardinalityType
<1>8. Cardinality(named) + Cardinality(unnamed) \in 0..m
  BY <1>2, <1>5, <1>6, <1>7
<1>. QED BY <1>8 DEF named, unnamed

(* The keys of a read are those of the file.                               *)
LEMMA ClaudeKeyIs ==
  ASSUME on \in Desks, NEW f \in on.sources, Kind[f] = "claude",
         NEW n \in 0..Len(Lines[f]), NEW from \in Nat, NEW i \in (from + 1)..n
  PROVE  LET ls == Text(f, n)
             L == Lines[f]
             P == (from + 1)..n
         IN /\ Billed(ls, P) = Billed(L, DOMAIN L) \cap P
            /\ ClaudeKey(ls, P, i) = ClaudeKey(L, (from + 1)..Len(L), i)
            /\ L[i].request # None => ClaudeKey(ls, P, i) = L[i].request
            /\ L[i].request = None =>
                 \A j \in DOMAIN L : L[j].request # None => ClaudeKey(ls, P, i) # L[j].request
            /\ ToolKey(ls, from, i) = ToolKey(L, from, i)
            /\ L[i].request # None => ToolKey(ls, from, i) = L[i].request
            /\ L[i].request = None =>
                 \A j \in DOMAIN L : L[j].request # None => ToolKey(ls, from, i) # L[j].request
<1>. DEFINE ls == Text(f, n)
            L == Lines[f]
            P == (from + 1)..n
            Q == (from + 1)..Len(L)
            B == {j \in Billed(ls, P) : j < i}
            C == {j \in Billed(L, Q) : j < i}
            Made == {"row" \o ToString(m) : m \in 0..Len(L)}
                      \cup {"toolrow" \o ToString(m) : m \in 0..Len(L)}
<1>1. /\ Len(ls) = n /\ DOMAIN ls = 1..n /\ \A j \in 1..n : ls[j] = L[j]
      /\ n \in Nat /\ n <= Len(L) /\ DOMAIN L = 1..Len(L) /\ Len(L) \in Nat
      /\ i \in Nat /\ i \in 1..n
  BY TextIs, SourceIs
<1>2. ClaudeWrites(L)
  BY SourceIs DEF Writes
<1>3. \A j \in DOMAIN L : L[j].request \notin Made
  BY <1>2 DEF ClaudeWrites
<1>4. Billed(ls, P) = Billed(L, DOMAIN L) \cap P
  <2>. HIDE DEF ls, L
  <2>. QED BY <1>1 DEF Billed
<1>5. B = C /\ \A j \in B : ls[j].request = L[j].request
  <2>. HIDE DEF ls, L
  <2>. QED BY <1>1 DEF Billed
<1>6. B \in SUBSET (1..Len(L))
  <2>. HIDE DEF ls, L
  <2>. QED BY <1>1 DEF Billed
<1>7. ls[i] = L[i]
  BY <1>1
<1>. DEFINE named == {ls[j].request : j \in B} \ {None}
            unnamed == {j \in B : ls[j].request = None}
            namedL == {L[j].request : j \in C} \ {None}
            unnamedL == {j \in C : L[j].request = None}
            c == Cardinality(named) + Cardinality(unnamed)
            d == Cardinality(namedL) + Cardinality(unnamedL)
<1>8. named = namedL /\ unnamed = unnamedL
  <2>. HIDE DEF ls, L, B, C
  <2>. QED BY <1>5
<1>9. c \in 0..Len(L) /\ c = d
  <2>1. c \in 0..Len(L)
    <3>. HIDE DEF ls, L, B
    <3>. QED BY <1>1, <1>6, KeysFit
  <2>. HIDE DEF named, namedL, unnamed, unnamedL
  <2>. QED BY <1>8, <2>1
<1>10. /\ ClaudeKey(ls, P, i) = IF ls[i].request # None THEN ls[i].request ELSE "row" \o ToString(c)
       /\ ClaudeKey(L, Q, i) = IF L[i].request # None THEN L[i].request ELSE "row" \o ToString(d)
  BY DEF ClaudeKey
<1>11. i - from \in 0..Len(L)
  BY <1>1
<1>12. /\ ToolKey(ls, from, i) = IF ls[i].request # None THEN ls[i].request ELSE "toolrow" \o ToString(i - from)
       /\ ToolKey(L, from, i) = IF L[i].request # None THEN L[i].request ELSE "toolrow" \o ToString(i - from)
  BY DEF ToolKey
<1>13. "row" \o ToString(c) \in Made /\ "toolrow" \o ToString(i - from) \in Made
  <2>. HIDE DEF c, L
  <2>. QED BY <1>9, <1>11
<1>. HIDE DEF c, d, Made, L, ls
<1>14. ClaudeKey(ls, P, i) = ClaudeKey(L, Q, i) /\ ToolKey(ls, from, i) = ToolKey(L, from, i)
  BY <1>7, <1>9, <1>10, <1>12
<1>15. L[i].request # None => ClaudeKey(ls, P, i) = L[i].request /\ ToolKey(ls, from, i) = L[i].request
  BY <1>7, <1>10, <1>12
<1>16. L[i].request = None => ClaudeKey(ls, P, i) \in Made /\ ToolKey(ls, from, i) \in Made
  BY <1>7, <1>10, <1>12, <1>13
<1>17. /\ L[i].request = None =>
                 \A j \in DOMAIN L : L[j].request # None => ClaudeKey(ls, P, i) # L[j].request
       /\ L[i].request = None =>
                 \A j \in DOMAIN L : L[j].request # None => ToolKey(ls, from, i) # L[j].request
  BY <1>3, <1>16
<1>. QED BY <1>4, <1>14, <1>15, <1>17 DEF L, ls

(* A Claude transcript's hand-over is what its lines come to: an id keeps  *)
(* its row and key in every read, and a made-up key has a row of its own.  *)
LEMMA ClaudeRead ==
  ASSUME on \in Desks, NEW f \in on.sources, Kind[f] = "claude",
         NEW n \in 0..Len(Lines[f]), NEW from \in Nat
  PROVE  ReadSound(f, ClaudeEvents(File[f], Text(f, n), from), (from + 1)..n)
<1>. DEFINE ls == Text(f, n)
            L == Lines[f]
            P == (from + 1)..n
            N == ClaudeEvents(File[f], ls, from)
<1>1. /\ Len(ls) = n /\ DOMAIN ls = 1..n /\ \A i \in 1..n : ls[i] = L[i]
      /\ n \in Nat /\ n <= Len(L) /\ DOMAIN L = 1..Len(L) /\ File[f].base \in Nat
      /\ Len(L) \in Nat /\ Len(L) <= MaxLines /\ MaxLines \in Nat
  BY TextIs, SourceIs
<1>2. /\ ClaudeWrites(L)
      /\ \A i \in Billed(L, DOMAIN L) :
            LET u == L[i].usage[1]
            IN AllNat({u.input, u.cw, u.cr, u.output}) /\ u.output > 0
      /\ \A i \in DOMAIN L : L[i].at \in Nat /\ L[i].at # 1
  BY SourceIs DEF Writes, ClaudeWrites, IsStamp
<1>3. \A i \in P :
         /\ i \in 1..n /\ i \in Nat /\ i \in DOMAIN L /\ ls[i] = L[i] /\ L[i].at \in Nat /\ L[i].at # 1
         /\ from \in 0..(i - 1)
  BY <1>1, <1>2
<1>4. ASSUME NEW i \in P
      PROVE  /\ i \in Billed(ls, P) <=> i \in Billed(L, DOMAIN L)
             /\ ClaudeKey(ls, P, i) = ClaudeKey(L, (from + 1)..Len(L), i)
             /\ L[i].request # None => ClaudeKey(ls, P, i) = L[i].request
             /\ L[i].request = None =>
                 \A j \in DOMAIN L : L[j].request # None => ClaudeKey(ls, P, i) # L[j].request
             /\ ToolKey(ls, from, i) = ToolKey(L, from, i)
             /\ L[i].request # None => ToolKey(ls, from, i) = L[i].request
             /\ L[i].request = None =>
                 \A j \in DOMAIN L : L[j].request # None => ToolKey(ls, from, i) # L[j].request
  <2>1. /\ Billed(ls, P) = Billed(L, DOMAIN L) \cap P
        /\ ClaudeKey(ls, P, i) = ClaudeKey(L, (from + 1)..Len(L), i)
        /\ L[i].request # None => ClaudeKey(ls, P, i) = L[i].request
        /\ L[i].request = None =>
                 \A j \in DOMAIN L : L[j].request # None => ClaudeKey(ls, P, i) # L[j].request
        /\ ToolKey(ls, from, i) = ToolKey(L, from, i)
        /\ L[i].request # None => ToolKey(ls, from, i) = L[i].request
        /\ L[i].request = None =>
                 \A j \in DOMAIN L : L[j].request # None => ToolKey(ls, from, i) # L[j].request
    BY ClaudeKeyIs
  <2>. HIDE DEF ls, L, P
  <2>. QED BY <2>1
<1>5. \A i \in Billed(L, DOMAIN L) : LET u == L[i].usage[1] IN
         u.input \in Nat /\ u.cw \in Nat /\ u.cr \in Nat /\ u.output \in Nat /\ u.output > 0
  BY <1>2 DEF AllNat
<1>6. Billed(ls, P) \in SUBSET P
  BY DEF Billed
<1>. HIDE DEF ls, L, P
<1>7. \A i \in Billed(ls, P) : /\ i \in P /\ i \in Billed(L, DOMAIN L) /\ ls[i] = L[i]
                               /\ ls[i].usage[1].output \in Nat
  BY <1>3, <1>4, <1>5, <1>6
<1>8. /\ IsFiniteSet(N)
      /\ \A e \in N :
           /\ IsEvent(e) /\ e.vendor = "anthropic" /\ e.session = File[f].session
           /\ \E i \in P : BilledFrom(File[f], ls, from, i, e) \/ ToolsFrom(File[f], ls, from, i, e)
      /\ \A e, d \in N : e.request = d.request => e = d
      /\ \A j \in Billed(ls, P) : \E e \in N : e.request = ClaudeKey(ls, P, j)
  <2>1. P = (from + 1)..Len(ls) /\ Len(ls) \in Nat
    BY <1>1 DEF P
  <2>. QED BY <1>7, <2>1, ClaudeEventsAre
<1>9. P = (from + 1)..Len(ls)
  BY <1>1 DEF P
<1>. HIDE DEF N
<1>a. CwdOf(ls, P) \in DOMAIN Remote
  <2>1. P \in SUBSET Nat /\ \A i \in P : ls[i].cwd \in DOMAIN Remote
    BY <1>3, CwdKnown DEF L
  <2>. QED BY <2>1, CwdIs, SourceIs
<1>10. ASSUME NEW i \in P, NEW m \in {1, 2}
       PROVE  /\ ClaudeRow(File[f], ls, from, i, m) \in Nat
              /\ L[i].request # None => ClaudeRow(File[f], ls, from, i, m) = File[f].base + i
              /\ L[i].request = None =>
                   ClaudeRow(File[f], ls, from, i, m) = File[f].base + i + MaxLines * (2 * from + m)
              /\ L[i].request = None => ClaudeRow(File[f], ls, from, i, m) > File[f].base + Len(L)
  <2>. DEFINE a == MaxLines * (2 * from + m)
              r == ClaudeRow(File[f], ls, from, i, m)
  <2>1. a \in Nat /\ MaxLines * 1 <= a /\ MaxLines * 1 = MaxLines
    <3>1. 2 * from + m \in Nat /\ 1 <= 2 * from + m
      OBVIOUS
    <3>. QED BY <3>1, <1>1, TimesGrows
  <2>2. r = IF L[i].request = None THEN File[f].base + i + a ELSE File[f].base + i + 0
    BY <1>3 DEF ClaudeRow
  <2>3. i \in Nat /\ i > 0
    BY <1>3
  <2>4. /\ r \in Nat /\ (L[i].request # None => r = File[f].base + i)
        /\ (L[i].request = None => r = File[f].base + i + a)
        /\ (L[i].request = None => r > File[f].base + Len(L))
    <3>. DEFINE b == File[f].base
                q == L[i].request
                w == Len(L)
    <3>1. b \in Nat /\ w \in Nat /\ w <= a /\ a \in Nat /\ i \in Nat /\ i > 0
      <4>1. w <= MaxLines /\ MaxLines <= a
        BY <1>1, <2>1
      <4>2. w \in Nat /\ MaxLines \in Nat
        BY <1>1
      <4>. HIDE DEF a, w
      <4>. QED BY <1>1, <2>1, <2>3, <4>1, <4>2
    <3>2. r = IF q = None THEN b + i + a ELSE b + i + 0
      BY <2>2
    <3>. HIDE DEF a, b, w, q, r
    <3>3. /\ r \in Nat /\ (q # None => r = b + i) /\ (q = None => r = b + i + a)
          /\ (q = None => r > b + w)
      BY <3>1, <3>2
    <3>. QED BY <3>3 DEF b, w, q
  <2>. QED BY <2>4
<1>11. ASSUME NEW e \in N, NEW i \in P, BilledFrom(File[f], ls, from, i, e)
       PROVE  /\ Filled(e) /\ MadeBy(f, e)
              /\ FromIds(f, e) => InRows(f, e)
              /\ InRows(f, e) => /\ e.row = File[f].base + i
                                 /\ ShowsLine(f, i, e) /\ Leads(f, i, P)
              /\ \A j \in Named(f) \cap P : RowOf(e) = LinesKey(f, j) => Output(f, j) <= e.output
  <2>. DEFINE u == L[i].usage[1]
  <2>1. /\ i \in Billed(ls, P) /\ e.request = ClaudeKey(ls, P, i)
        /\ e.row = ClaudeRow(File[f], ls, from, i, 1)
        /\ e.at = L[i].at /\ e.project = CwdOf(ls, P) /\ e.input = u.input
        /\ e.cw = NotZero(u.cw) /\ e.cr = NotZero(u.cr) /\ e.output = u.output
        /\ e.reasoning = Nil
        /\ \A j \in Billed(ls, P) :
             ClaudeKey(ls, P, j) = e.request => L[j].usage[1].output <= u.output
    BY <1>11, <1>9, <1>7 DEF BilledFrom
  <2>2. IsEvent(e) /\ e.vendor = "anthropic" /\ e.session = File[f].session
    BY <1>8
  <2>3. /\ u.input \in Nat /\ u.cw \in Nat /\ u.cr \in Nat /\ u.output \in Nat
        /\ L[i].at \in Nat /\ L[i].at # 1 /\ i \in Billed(L, DOMAIN L) /\ i \in DOMAIN L /\ from \in 0..(i - 1)
    BY <1>3, <1>5, <1>7, <2>1
  <2>4. Filled(e)
    <3>1. e.row \in Nat
      BY <1>10, <2>1
    <3>. HIDE DEF u
    <3>. QED BY <2>1, <2>2, <2>3, <3>1, <1>a, Figure0 DEF Filled
  <2>. HIDE DEF u
  <2>5. CASE L[i].request # None
    <3>1. e.row = File[f].base + i /\ e.request = L[i].request
      BY <1>4, <1>10, <2>1, <2>5
    <3>2. InRows(f, e)
      BY <3>1, <2>3, <1>1 DEF InRows, L
    <3>3. MadeBy(f, e)
      <4>1. e.row = File[f].base + i + MaxLines * 0
        BY <3>1, <1>1, <1>3
      <4>. QED BY <4>1, <2>2, <2>3, <2>5, <3>1 DEF MadeBy, ClaudeMade, L
    <3>4. i \in Named(f)
      BY <2>3, <2>5 DEF Named, L
    <3>5. RowOf(e) = LinesKey(f, i) /\ Output(f, i) = u.output
      BY <2>2, <3>1 DEF RowOf, LinesKey, Output, L, u
    <3>6. ShowsLine(f, i, e)
      BY <2>1, <3>4, <3>5 DEF ShowsLine, u, L
    <3>7. \A j \in Named(f) \cap P :
             LinesKey(f, j) = LinesKey(f, i) => Output(f, j) <= Output(f, i)
      <4>1. SUFFICES ASSUME NEW j \in Named(f) \cap P, LinesKey(f, j) = LinesKey(f, i)
                     PROVE  Output(f, j) <= Output(f, i)
        OBVIOUS
      <4>2. j \in Billed(L, DOMAIN L) /\ L[j].request # None
        BY DEF Named, L
      <4>3. L[j].request = L[i].request /\ Output(f, j) = L[j].usage[1].output
        BY <4>1 DEF LinesKey, Output, L
      <4>4. j \in Billed(ls, P) /\ ClaudeKey(ls, P, j) = L[j].request
        BY <1>4, <4>2
      <4>. QED BY <2>1, <3>1, <3>5, <4>3, <4>4
    <3>8. Leads(f, i, P)
      BY <3>7 DEF Leads
    <3>. QED BY <2>1, <2>4, <3>1, <3>2, <3>3, <3>5, <3>6, <3>7, <3>8
  <2>6. CASE L[i].request = None
    <3>1. /\ e.row = File[f].base + i + MaxLines * (2 * from + 1)
          /\ e.request = ClaudeKey(L, (from + 1)..Len(L), i)
          /\ e.row > File[f].base + Len(L)
          /\ \A j \in DOMAIN L : L[j].request # None => e.request # L[j].request
      BY <1>4, <1>10, <2>1, <2>6
    <3>2. ~ InRows(f, e)
      <4>1. e.row \in Nat
        BY <2>4 DEF Filled
      <4>2. File[f].base + Len(L) \in Nat
        BY <1>1
      <4>. QED BY <3>1, <4>1, <4>2 DEF InRows, L
    <3>3. ~ FromIds(f, e)
      BY <3>1 DEF FromIds, Ided, L
    <3>4. MadeBy(f, e)
      <4>1. e.row = File[f].base + i + MaxLines * (2 * from + 1)
        BY <3>1
      <4>. QED BY <4>1, <2>2, <2>3, <2>6, <3>1 DEF MadeBy, ClaudeMade, L
    <3>5. \A j \in Named(f) \cap P : RowOf(e) # LinesKey(f, j)
      BY <3>1 DEF Named, Billed, RowOf, LinesKey, L
    <3>. QED BY <2>4, <3>2, <3>3, <3>4, <3>5
  <2>. QED BY <2>5, <2>6
<1>12. ASSUME NEW e \in N, NEW i \in P, ToolsFrom(File[f], ls, from, i, e)
       PROVE  /\ Filled(e) /\ MadeBy(f, e) /\ ToolOnly(f, e)
              /\ \A j \in Named(f) \cap P : RowOf(e) # LinesKey(f, j)
  <2>1. /\ e.request = ToolKey(ls, from, i)
        /\ e.row = ClaudeRow(File[f], ls, from, i, 2)
        /\ e.at = 0 /\ e.model = None /\ e.project = CwdOf(ls, P)
        /\ e.input = 0 /\ e.cw = Nil /\ e.cr = Nil /\ e.output = 0 /\ e.reasoning = Nil
        /\ \A j \in Billed(ls, P) : ClaudeKey(ls, P, j) # e.request
    BY <1>12, <1>9 DEF ToolsFrom
  <2>2. IsEvent(e) /\ e.vendor = "anthropic" /\ e.session = File[f].session
    BY <1>8
  <2>3. i \in DOMAIN L /\ from \in 0..(i - 1)
    BY <1>3
  <2>4. Filled(e)
    <3>1. e.row \in Nat
      BY <1>10, <2>1
    <3>. QED BY <2>1, <2>2, <3>1, <1>a DEF Filled
  <2>5. ToolOnly(f, e)
    BY <2>1 DEF ToolOnly, IsTurn
  <2>6. \A j \in Named(f) \cap P : RowOf(e) # LinesKey(f, j)
    <3>1. SUFFICES ASSUME NEW j \in Named(f) \cap P PROVE e.request # L[j].request
      BY DEF RowOf, LinesKey, L
    <3>2. j \in Billed(L, DOMAIN L) /\ L[j].request # None
      BY DEF Named, L
    <3>3. j \in Billed(ls, P) /\ ClaudeKey(ls, P, j) = L[j].request
      BY <1>4, <3>2
    <3>. QED BY <2>1, <3>3
  <2>7. CASE L[i].request # None
    <3>1. e.row = File[f].base + i /\ e.request = L[i].request
      BY <1>4, <1>10, <2>1, <2>7
    <3>2. e.row = File[f].base + i + MaxLines * 0
      BY <3>1, <1>1, <1>3
    <3>3. MadeBy(f, e)
      BY <3>2, <2>2, <2>3, <2>7, <3>1 DEF MadeBy, ClaudeMade, L
    <3>. QED BY <2>4, <2>5, <2>6, <3>3
  <2>8. CASE L[i].request = None
    <3>1. /\ e.row = File[f].base + i + MaxLines * (2 * from + 2)
          /\ e.request = ToolKey(L, from, i)
      BY <1>4, <1>10, <2>1, <2>8
    <3>2. MadeBy(f, e)
      BY <3>1, <2>2, <2>3, <2>8 DEF MadeBy, ClaudeMade, L
    <3>. QED BY <2>4, <2>5, <2>6, <3>2
  <2>. QED BY <2>7, <2>8
<1>13. Sound(f, N)
  <2>1. OnePerKey(N)
    BY <1>8 DEF OnePerKey, RowOf
  <2>. QED BY <2>1, <1>8, <1>11, <1>12 DEF Sound
<1>14. ASSUME NEW e \in N
       PROVE  /\ FromIds(f, e) /\ ~ToolOnly(f, e) => InRows(f, e)
              /\ InRows(f, e) =>
                       \/ ToolOnly(f, e)
                       \/ \E i \in P : /\ e.row = File[f].base + i
                                       /\ ShowsLine(f, i, e) /\ Leads(f, i, P)
  <2>1. PICK i \in P : BilledFrom(File[f], ls, from, i, e) \/ ToolsFrom(File[f], ls, from, i, e)
    BY <1>8
  <2>2. CASE BilledFrom(File[f], ls, from, i, e)
    BY <1>11, <2>2
  <2>3. CASE ToolsFrom(File[f], ls, from, i, e)
    BY <1>12, <2>3 DEF ToolOnly
  <2>. QED BY <2>1, <2>2, <2>3
<1>15. ASSUME NEW j \in Named(f) \cap P
       PROVE  \E e \in N : RowOf(e) = LinesKey(f, j) /\ Output(f, j) <= e.output
  <2>1. j \in Billed(L, DOMAIN L) /\ L[j].request # None
    BY DEF Named, L
  <2>2. j \in Billed(ls, P) /\ ClaudeKey(ls, P, j) = L[j].request
    BY <1>4, <2>1
  <2>3. PICK e \in N : e.request = L[j].request
    BY <1>8, <2>2
  <2>4. RowOf(e) = LinesKey(f, j)
    BY <1>8, <2>3 DEF RowOf, LinesKey, L
  <2>5. PICK i \in P : BilledFrom(File[f], ls, from, i, e) \/ ToolsFrom(File[f], ls, from, i, e)
    BY <1>8
  <2>6. BilledFrom(File[f], ls, from, i, e)
    BY <1>12, <2>4, <2>5
  <2>. QED BY <1>11, <2>4, <2>6
<1>. QED BY <1>13, <1>14, <1>15 DEF ReadSound, N, P, ls

(* No more is written than the file has lines.                             *)
LEMMA WrittenIs ==
  ASSUME on \in Desks, NEW f \in on.sources
  PROVE  Written(f) \in 0..Len(Lines[f])
<1>. DEFINE S == {i \in DOMAIN Lines[f] : Lines[f][i].at <= Now}
<1>1. DOMAIN Lines[f] = 1..Len(Lines[f]) /\ Len(Lines[f]) \in Nat
  BY SourceIs
<1>2. S \in SUBSET (1..Len(Lines[f]))
  BY <1>1
<1>3. IsFiniteSet(1..Len(Lines[f])) /\ Cardinality(1..Len(Lines[f])) = Len(Lines[f])
  BY <1>1, FS_Interval
<1>4. IsFiniteSet(S) /\ Cardinality(S) <= Len(Lines[f])
  <2>. HIDE DEF S
  <2>. QED BY <1>2, <1>3, FS_Subset
<1>5. Cardinality(S) \in Nat
  <2>. HIDE DEF S
  <2>. QED BY <1>4, FS_CardinalityType
<1>. QED BY <1>1, <1>4, <1>5 DEF Written

(* Wherever the tail is, it knows the session a reader of the whole log    *)
(* would have found.                                                       *)
LEMMA SessionIs ==
  ASSUME on \in Desks, NEW f \in on.sources, NEW n \in 0..Len(Lines[f]),
         tail.offset \in 0..n, tail.session = SessionAt(NewTail, Lines[f], tail.offset + 1),
         NEW i \in (tail.offset + 1)..(n + 1)
  PROVE  SessionAt(tail, Text(f, n), i) = SessionAt(NewTail, Lines[f], i)
<1>. DEFINE ls == Text(f, n)
            L == Lines[f]
            o == tail.offset
            S == {j \in (o + 1)..Len(ls) : j < i /\ ls[j].kind = "start"}
            A == {j \in (0 + 1)..Len(L) : j < i /\ L[j].kind = "start"}
            B == {j \in (0 + 1)..Len(L) : j < o + 1 /\ L[j].kind = "start"}
<1>1. /\ Len(ls) = n /\ \A j \in 1..n : ls[j] = L[j]
      /\ n \in Nat /\ n <= Len(L) /\ Len(L) \in Nat /\ o \in Nat /\ o <= n
  <2>1. /\ Len(ls) = n /\ \A j \in 1..n : ls[j] = L[j]
    BY TextIs
  <2>2. Len(L) \in Nat
    BY SourceIs
  <2>. HIDE DEF ls, L
  <2>. QED BY <2>1, <2>2 DEF L
<1>2. NewTail.offset = 0 /\ NewTail.session = None
  BY DEF NewTail
<1>3. /\ SessionAt(tail, ls, i) = IF S = {} THEN tail.session ELSE ls[Max(S)].session
      /\ SessionAt(NewTail, L, i) = IF A = {} THEN None ELSE L[Max(A)].session
      /\ SessionAt(NewTail, L, o + 1) = IF B = {} THEN None ELSE L[Max(B)].session
  <2>. HIDE DEF ls, L
  <2>. QED BY <1>2 DEF SessionAt, o
<1>4. S \subseteq A /\ S \subseteq 1..n /\ \A j \in A \ S : j \in B
  <2>. HIDE DEF ls, L, o
  <2>. QED BY <1>1 DEF o
<1>5. B \subseteq A /\ B \cap S = {}
  <2>. HIDE DEF ls, L, o
  <2>. QED BY <1>1 DEF o
<1>6. S \in SUBSET Int /\ A \in SUBSET Int /\ IsFiniteSet(S) /\ IsFiniteSet(A)
  <2>1. A \in SUBSET (1..Len(L)) /\ A \in SUBSET Int /\ S \in SUBSET Int
    BY <1>1
  <2>2. IsFiniteSet(1..Len(L))
    BY <1>1, FS_Interval
  <2>. HIDE DEF A, S
  <2>. QED BY <1>4, <2>1, <2>2, FS_Subset
<1>7. CASE S = {}
  <2>1. A = B
    <3>. HIDE DEF S, A, B
    <3>. QED BY <1>4, <1>5, <1>7
  <2>. HIDE DEF S, A, B
  <2>. QED BY <1>3, <1>7, <2>1
<1>8. CASE S # {}
  <2>1. \A j \in S : j > o
    OBVIOUS
  <2>2. \A j \in B : j <= o
    BY <1>1
  <2>. HIDE DEF S, A, B, ls, L, o
  <2>3. /\ Max(S) \in S /\ \A j \in S : j <= Max(S)
        /\ Max(A) \in A /\ \A j \in A : j <= Max(A)
    BY <1>4, <1>6, <1>8, MaxIs
  <2>4. Max(A) = Max(S)
    <3>1. Max(S) <= Max(A) /\ Max(S) \in Int /\ Max(A) \in Int /\ Max(S) > o
      BY <1>4, <1>6, <2>1, <2>3
    <3>2. Max(A) \in S
      BY <1>1, <1>4, <2>2, <2>3, <3>1
    <3>. QED BY <2>3, <3>1, <3>2
  <2>5. ls[Max(S)] = L[Max(S)]
    BY <1>1, <1>4, <2>3
  <2>6. A # {}
    BY <1>4, <1>8
  <2>7. SessionAt(tail, ls, i) = SessionAt(NewTail, L, i)
    BY <1>3, <1>8, <2>4, <2>5, <2>6
  <2>. QED BY <2>7 DEF ls, L
<1>. QED BY <1>7, <1>8

(* A poll of the Copilot VS Code log hands over events of its lines.       *)
LEMMA TailRead ==
  ASSUME on \in Desks, NEW f \in on.sources, Kind[f] = "vscode",
         NEW n \in 0..Len(Lines[f]),
         tail.offset \in 0..n, tail.session = SessionAt(NewTail, Lines[f], tail.offset + 1),
         NEW now \in Nat, now # 1
  PROVE  Sound(f, TailEvents(File[f], tail, Text(f, n), now))
<1>. DEFINE ls == Text(f, n)
            L == Lines[f]
            infer == {i \in (tail.offset + 1)..Len(ls) :
                        ls[i].kind = "inference" /\ ls[i].request # None}
            at(i) == IF ls[i].at = 0 THEN now ELSE ls[i].at
            T == {j \in infer : ~\E k \in infer : k > j /\ ls[k].request = ls[j].request}
            s(i) == SessionAt(tail, ls, i)
            New(i) == NewEvent("github", "copilot-vscode", "vscode", s(i),
                               ls[i].request, File[f].base + i)
            Ev(i) == [New(i) EXCEPT
                        !.at = at(i), !.model = ls[i].model, !.input = ls[i].input,
                        !.output = ls[i].output]
            N == TailEvents(File[f], tail, ls, now)
<1>1. N = {Ev(i) : i \in T}
  BY DEF TailEvents
<1>2. /\ Len(ls) = n /\ \A i \in 1..n : ls[i] = L[i]
      /\ n \in Nat /\ n <= Len(L) /\ DOMAIN L = 1..Len(L) /\ File[f].base \in Nat
      /\ Len(L) \in Nat
  BY TextIs, SourceIs
<1>3. VSCodeWrites(L)
  BY SourceIs DEF Writes
<1>4. ASSUME NEW i \in T
      PROVE  /\ i \in 1..n /\ i \in Nat /\ ls[i] = L[i] /\ i \in DOMAIN L /\ i \in infer
             /\ at(i) \in Nat /\ at(i) # 1 /\ ls[i].input \in Nat /\ ls[i].output \in Nat
             /\ s(i) = SessionAt(NewTail, L, i)
  <2>1. i \in 1..n /\ i \in Nat /\ i \in infer /\ ls[i].kind = "inference" /\ i \in (tail.offset + 1)..(n + 1)
    BY <1>2
  <2>2. ls[i] = L[i] /\ i \in DOMAIN L
    BY <1>2, <2>1
  <2>3. IsStamp(L[i].at) /\ AllNat({L[i].input, L[i].output})
    BY <1>3, <2>1, <2>2 DEF VSCodeWrites
  <2>4. s(i) = SessionAt(NewTail, L, i)
    BY <2>1, SessionIs
  <2>5. at(i) \in Nat /\ at(i) # 1
    <3>. HIDE DEF ls, L
    <3>. QED BY <2>2, <2>3 DEF IsStamp
  <2>. HIDE DEF ls, L, infer, T, s, at
  <2>. QED BY <2>1, <2>2, <2>3, <2>4, <2>5 DEF AllNat
<1>5. IsFiniteSet(T)
  <2>1. T \in SUBSET (1..n)
    BY <1>4
  <2>2. IsFiniteSet(1..n)
    <3>1. n \in Int /\ 1 \in Int
      BY <1>2
    <3>. QED BY <3>1, FS_Interval
  <2>. HIDE DEF T
  <2>. QED BY <2>1, <2>2, FS_Subset
<1>6. \A i, j \in T : ls[i].request = ls[j].request => i = j
  <2>1. SUFFICES ASSUME NEW i \in T, NEW j \in T, ls[i].request = ls[j].request PROVE i = j
    OBVIOUS
  <2>2. i \in infer /\ j \in infer /\ ~(i > j) /\ ~(j > i)
    BY <2>1
  <2>3. i \in Nat /\ j \in Nat
    BY <1>4
  <2>. QED BY <2>2, <2>3
<1>. HIDE DEF s, at
<1>8. ASSUME NEW i \in T
      PROVE  LET e == Ev(i) IN
             /\ IsEvent(e) /\ e.vendor = "github" /\ e.session = s(i)
             /\ e.request = ls[i].request /\ e.row = File[f].base + i
             /\ e.at = at(i) /\ e.input = ls[i].input /\ e.output = ls[i].output
             /\ e.cw = Nil /\ e.cr = Nil /\ e.reasoning = Nil /\ e.project = None
  <2>. DEFINE new == New(i)
  <2>1. /\ IsEvent(new) /\ new.vendor = "github" /\ new.session = s(i)
        /\ new.request = ls[i].request /\ new.row = File[f].base + i /\ new.reasoning = Nil
        /\ new.cw = Nil /\ new.cr = Nil /\ new.project = None
    <3>. HIDE DEF ls
    <3>. QED BY DEF NewEvent, IsEvent
  <2>2. Ev(i) = [new EXCEPT !.at = at(i), !.model = ls[i].model, !.input = ls[i].input,
                        !.output = ls[i].output]
    OBVIOUS
  <2>. HIDE DEF new, Ev, ls
  <2>. QED BY <2>1, <2>2 DEF IsEvent
<1>. HIDE DEF Ev, N, T
<1>9. ASSUME NEW i \in T
      PROVE  Filled(Ev(i)) /\ MadeBy(f, Ev(i))
  <2>. DEFINE e == Ev(i)
  <2>1. /\ IsEvent(e) /\ e.vendor = "github" /\ e.session = s(i)
             /\ e.request = ls[i].request /\ e.row = File[f].base + i
             /\ e.at = at(i) /\ e.input = ls[i].input /\ e.output = ls[i].output
             /\ e.cw = Nil /\ e.cr = Nil /\ e.reasoning = Nil /\ e.project = None
    BY <1>8
  <2>. HIDE DEF e, ls
  <2>2. LinesKey(f, i) = <<"github", s(i), ls[i].request>>
    BY <1>4 DEF LinesKey
  <2>3. RowOf(e) = LinesKey(f, i)
    BY <2>1, <2>2 DEF RowOf
  <2>4. e.row \in Nat
    BY <1>2, <1>4, <2>1
  <2>5. Filled(e)
    BY <1>4, <2>1, <2>4, SourceIs DEF Filled
  <2>6. MadeBy(f, e)
    BY <1>4, <2>1, <2>3 DEF MadeBy
  <2>. QED BY <2>5, <2>6 DEF e
<1>10. IsFiniteSet(N)
  <2>. DEFINE g == [i \in T |-> Ev(i)]
  <2>1. IsFiniteSet({g[i] : i \in T})
    <3>. HIDE DEF g
    <3>. QED BY <1>5, ImageFinite
  <2>. QED BY <1>1, <2>1
<1>11. OnePerKey(N)
  <2>1. ASSUME NEW i \in T, NEW j \in T, RowOf(Ev(i)) = RowOf(Ev(j)) PROVE i = j
    <3>1. Ev(i).request = Ev(j).request
      BY <2>1 DEF RowOf
    <3>. QED BY <1>6, <1>8, <3>1
  <2>. QED BY <1>1, <2>1 DEF OnePerKey
<1>12. \A e \in N : Filled(e) /\ MadeBy(f, e)
  BY <1>1, <1>9
<1>. QED BY <1>10, <1>11, <1>12 DEF Sound, N

(* Time goes on, so what was written stays written.                        *)
LEMMA ClockIs ==
  ASSUME on \in Desks, ClockTyped
  PROVE  /\ clock \in 1..Len(on.instants) /\ Len(on.instants) \in Nat /\ Now \in Nat /\ Now # 1
         /\ rules \in 1..Len(on.configs) /\ Len(on.configs) \in Nat
         /\ \A i, j \in 1..Len(on.instants) : i <= j => on.instants[i] <= on.instants[j]
         /\ \A i \in 1..Len(on.instants) : on.instants[i] \in Nat
<1>1. IsDesk(on)
  BY ViewsAssumption
<1>2. /\ on.instants \in Seq(Nat \ {1}) /\ on.configs \in Seq(Elems(on.configs))
      /\ \A i, j \in DOMAIN on.instants : i <= j => on.instants[i] <= on.instants[j]
  BY <1>1 DEF IsDesk
<1>3. /\ DOMAIN on.instants = 1..Len(on.instants) /\ Len(on.instants) \in Nat
      /\ \A i \in 1..Len(on.instants) : on.instants[i] \in Nat \ {1}
  BY <1>2
<1>4. DOMAIN on.configs = 1..Len(on.configs) /\ Len(on.configs) \in Nat
  BY <1>2
<1>5. \A i, j \in 1..Len(on.instants) : i <= j => on.instants[i] <= on.instants[j]
  BY <1>2, <1>3
<1>6. Now \in Nat /\ Now # 1
  BY <1>3 DEF ClockTyped, Now
<1>. QED BY <1>3, <1>4, <1>5, <1>6 DEF ClockTyped

(* A hand-over of one event is sound when the event is.                    *)
LEMMA OneEvent ==
  ASSUME NEW f, NEW N, NEW e, N \in {{}, {e}}, Filled(e), MadeBy(f, e)
  PROVE  Sound(f, N)
<1>1. IsFiniteSet({}) /\ IsFiniteSet({e})
  BY FS_EmptySet, FS_Singleton
<1>. QED BY <1>1 DEF Sound, OnePerKey

(* A poll of Hermes hands over its session's event.                        *)
LEMMA HermesRead ==
  ASSUME on \in Desks, ClockTyped, NEW f \in on.sources, Kind[f] = "hermes"
  PROVE  Sound(f, HermesEvents(File[f], HermesAt[clock], Now))
<1>. DEFINE s == HermesAt[clock]
            new == NewEvent("nous", "hermes", IF s.source = "tui" THEN "cli" ELSE "unknown",
                    File[f].session, File[f].session, File[f].base)
            t == IF s.ended = 0 THEN Now ELSE s.ended
            e == [new EXCEPT
                !.parent = s.parent, !.at = t,
                !.model = s.model, !.project = s.cwd, !.input = s.input, !.cw = s.cw,
                !.cr = s.cr, !.output = s.output, !.reasoning = s.reasoning]
<1>1. HermesEvents(File[f], HermesAt[clock], Now) \in {{}, {e}}
  BY DEF HermesEvents
<1>2. /\ s.reasoning \in Nat /\ s.ended \in Nat /\ s.input \in Nat /\ s.cw \in Nat /\ s.cr \in Nat /\ s.output \in Nat
      /\ t \in Nat /\ t # 1 /\ s.cwd \in DOMAIN Remote
  <2>1. IsDesk(on) /\ clock \in DOMAIN on.instants
    BY ViewsAssumption DEF ClockTyped
  <2>2. IsStamp(s.ended) /\ AllNat({s.input, s.cw, s.cr, s.output, s.reasoning}) /\ s.cwd \in DOMAIN Remote
    BY <2>1 DEF IsDesk
  <2>3. Now \in Nat /\ Now # 1
    BY ClockIs
  <2>. HIDE DEF s
  <2>. QED BY <2>2, <2>3 DEF AllNat, IsStamp
<1>3. /\ IsEvent(new) /\ new.vendor = "nous" /\ new.session = File[f].session
      /\ new.request = File[f].session /\ new.row = File[f].base /\ new.reasoning = Nil
  <2>. DEFINE u == IF s.source = "tui" THEN "cli" ELSE "unknown"
  <2>1. new = NewEvent("nous", "hermes", u, File[f].session, File[f].session, File[f].base)
    OBVIOUS
  <2>. HIDE DEF u, new
  <2>. QED BY <2>1 DEF NewEvent, IsEvent
<1>. HIDE DEF new, s, t
<1>8. e = [new EXCEPT
                !.parent = s.parent, !.at = t,
                !.model = s.model, !.project = s.cwd, !.input = s.input, !.cw = s.cw,
                !.cr = s.cr, !.output = s.output, !.reasoning = s.reasoning]
  OBVIOUS
<1>. HIDE DEF e
<1>4. /\ IsEvent(e) /\ e.vendor = "nous" /\ e.session = File[f].session
      /\ e.request = File[f].session /\ e.row = File[f].base /\ e.reasoning = s.reasoning
      /\ e.at = t /\ e.project = s.cwd /\ e.input = s.input /\ e.cw = s.cw /\ e.cr = s.cr /\ e.output = s.output
  BY <1>3, <1>8 DEF IsEvent
<1>5. Filled(e)
  BY <1>2, <1>4, SourceIs DEF Filled
<1>6. MadeBy(f, e)
  BY <1>4 DEF MadeBy, RowOf, PolledKey
<1>7. \E N : N = HermesEvents(File[f], HermesAt[clock], Now)
  OBVIOUS
<1>. QED BY <1>1, <1>5, <1>6, OneEvent

(* A poll of the Copilot CLI hands over its session's event.               *)
LEMMA CopilotCLIRead ==
  ASSUME on \in Desks, NEW f \in on.sources, Kind[f] = "cli", NEW n \in 0..Len(Lines[f])
  PROVE  Sound(f, CopilotCLIEvents(File[f], Text(f, n)))
<1>. DEFINE ls == Text(f, n)
            L == Lines[f]
            u == ls[Len(ls)]
            new == NewEvent("github", "copilot-cli", "cli", File[f].session, File[f].session,
                            File[f].base)
            e == [new EXCEPT
                !.at = u.at, !.model = u.model, !.project = u.cwd, !.input = u.input,
                !.cw = u.cw, !.cr = u.cr, !.output = u.output, !.reasoning = u.reasoning]
<1>1. CopilotCLIEvents(File[f], ls) = IF ls = <<>> THEN {} ELSE {e}
  BY DEF CopilotCLIEvents
<1>2. /\ Len(ls) = n /\ \A i \in 1..n : ls[i] = L[i]
      /\ n \in Nat /\ n <= Len(L) /\ DOMAIN L = 1..Len(L) /\ File[f].base \in Nat
      /\ DOMAIN ls = 1..n
  BY TextIs, SourceIs
<1>3. CloudWrites(L) /\ \A i \in DOMAIN L : L[i].reasoning \in Nat
  BY SourceIs DEF Writes, CopilotCLIWrites
<1>4. CASE ls = <<>>
  <2>1. CopilotCLIEvents(File[f], ls) = {}
    BY <1>1, <1>4
  <2>2. Sound(f, {})
    BY FS_EmptySet DEF Sound, OnePerKey
  <2>. QED BY <2>1, <2>2
<1>5. CASE ls # <<>>
  <2>1. n # 0
    <3>1. ls \in Seq(Elems(L))
      <4>1. L \in Seq(Elems(L))
        BY SourceIs DEF Writes
      <4>. QED BY <4>1, <1>2 DEF Text
    <3>. HIDE DEF ls
    <3>. QED BY <1>2, <1>5, <3>1
  <2>2. n \in 1..n /\ n \in DOMAIN L /\ u = L[n]
    BY <1>2, <2>1
  <2>3. u.at \in Nat /\ u.at # 1 /\ u.cwd \in DOMAIN Remote /\ u.input \in Nat /\ u.cw \in Nat /\ u.cr \in Nat /\ u.output \in Nat
        /\ u.reasoning \in Nat
    <3>1. IsStamp(L[n].at) /\ AllNat({L[n].input, L[n].cw, L[n].cr, L[n].output})
          /\ L[n].reasoning \in Nat
      BY <1>3, <2>2 DEF CloudWrites
    <3>2. L[n].cwd \in DOMAIN Remote
      BY <2>2, CwdKnown
    <3>. HIDE DEF L, u
    <3>. QED BY <2>2, <3>1, <3>2 DEF AllNat, IsStamp
  <2>4. /\ IsEvent(new) /\ new.vendor = "github" /\ new.session = File[f].session
        /\ new.request = File[f].session /\ new.row = File[f].base /\ new.reasoning = Nil
    BY DEF NewEvent, IsEvent
  <2>. HIDE DEF new, u
  <2>9. e = [new EXCEPT
                !.at = u.at, !.model = u.model, !.project = u.cwd, !.input = u.input,
                !.cw = u.cw, !.cr = u.cr, !.output = u.output, !.reasoning = u.reasoning]
    OBVIOUS
  <2>6. CopilotCLIEvents(File[f], ls) = {e}
    BY <1>1, <1>5
  <2>. HIDE DEF e
  <2>5. /\ IsEvent(e) /\ e.vendor = "github" /\ e.session = File[f].session
        /\ e.request = File[f].session /\ e.row = File[f].base /\ e.reasoning = u.reasoning
        /\ e.at = u.at /\ e.project = u.cwd /\ e.input = u.input /\ e.cw = u.cw /\ e.cr = u.cr /\ e.output = u.output
    BY <2>4, <2>9 DEF IsEvent
  <2>. HIDE DEF ls
  <2>7. Filled(e)
    BY <1>2, <2>3, <2>5 DEF Filled
  <2>8. MadeBy(f, e)
    BY <2>5 DEF MadeBy, RowOf, PolledKey
  <2>. QED BY <2>6, <2>7, <2>8, OneEvent DEF ls
<1>. QED BY <1>4, <1>5

(***************************************************************************)
(* Views: every step keeps the store.                                      *)
(***************************************************************************)
(* Nothing the invariant says of an event is about its owner or client.    *)
LEMMA OwnerIsNoMatter ==
  ASSUME NEW f, NEW d, NEW e, SameButOwner(d, e)
  PROVE  /\ Filled(e) => Filled(d)
         /\ MadeBy(f, e) => MadeBy(f, d)
         /\ RowOf(d) = RowOf(e) /\ d.output = e.output /\ d.row = e.row
         /\ IsTurn(d) <=> IsTurn(e)
         /\ InRows(f, d) <=> InRows(f, e)
         /\ FromIds(f, d) <=> FromIds(f, e)
         /\ ToolOnly(f, d) <=> ToolOnly(f, e)
         /\ \A i : ShowsLine(f, i, e) => ShowsLine(f, i, d)
<1>1. /\ IsEvent(d) /\ RowOf(d) = RowOf(e) /\ d.row = e.row /\ d.at = e.at
      /\ d.model = e.model /\ d.input = e.input /\ d.cw = e.cw /\ d.cr = e.cr
      /\ d.output = e.output /\ d.reasoning = e.reasoning /\ d.project = e.project
  BY DEF SameButOwner
<1>2. d.vendor = e.vendor /\ d.session = e.session /\ d.request = e.request
  BY <1>1 DEF RowOf
<1>3. Filled(e) => Filled(d)
  BY <1>1 DEF Filled
<1>4. MadeBy(f, e) => MadeBy(f, d)
  BY <1>1, <1>2 DEF MadeBy, ClaudeMade
<1>5. /\ IsTurn(d) <=> IsTurn(e)
      /\ InRows(f, d) <=> InRows(f, e)
      /\ FromIds(f, d) <=> FromIds(f, e)
      /\ ToolOnly(f, d) <=> ToolOnly(f, e)
  BY <1>1, <1>2 DEF IsTurn, InRows, FromIds, ToolOnly
<1>6. \A i : ShowsLine(f, i, e) => ShowsLine(f, i, d)
  BY <1>1 DEF ShowsLine
<1>. QED BY <1>1, <1>3, <1>4, <1>5, <1>6

(* M is N with other owners.                                               *)
Reowned(M, N) ==
  /\ \A d \in M : \E e \in N : SameButOwner(d, e)
  /\ \A e \in N : \E d \in M : SameButOwner(d, e)

(* Stamped and Owned hand over the same events with other owners.          *)
LEMMA StampedIs ==
  ASSUME NEW N, IsFiniteSet(N), OnePerKey(N), \A e \in N : IsEvent(e),
         NEW g, \A e \in N : SameButOwner(g[e], e), NEW M, M = {g[e] : e \in N}
  PROVE  Reowned(M, N) /\ IsFiniteSet(M) /\ OnePerKey(M)
<1>1. IsFiniteSet(M)
  BY ImageFinite
<1>2. OnePerKey(M)
  BY DEF OnePerKey, SameButOwner
<1>. QED BY <1>1, <1>2 DEF Reowned

(* So they stay sound ...                                                  *)
LEMMA SoundStamped ==
  ASSUME NEW f, NEW N, Sound(f, N)
  PROVE  /\ Sound(f, Stamped(N)) /\ Reowned(Stamped(N), N)
         /\ Sound(f, Owned(N))
<1>1. IsFiniteSet(N) /\ OnePerKey(N) /\ \A e \in N : IsEvent(e) /\ Filled(e) /\ MadeBy(f, e)
  BY DEF Sound, Filled
<1>2. Sound(f, Stamped(N)) /\ Reowned(Stamped(N), N)
  <2>. DEFINE g == [e \in N |-> [e EXCEPT !.owner = Owner(e), !.client = Client(e)]]
  <2>1. \A e \in N : SameButOwner(g[e], e)
    BY <1>1, StampKeeps
  <2>2. Stamped(N) = {g[e] : e \in N}
    BY DEF Stamped
  <2>3. Reowned(Stamped(N), N) /\ IsFiniteSet(Stamped(N)) /\ OnePerKey(Stamped(N))
    <3>. HIDE DEF g
    <3>. QED BY <1>1, <2>1, <2>2, StampedIs
  <2>4. \A d \in Stamped(N) : Filled(d) /\ MadeBy(f, d)
    BY <1>1, <2>3, OwnerIsNoMatter DEF Reowned
  <2>. QED BY <2>3, <2>4 DEF Sound
<1>3. Sound(f, Owned(N))
  <2>. DEFINE g == [e \in N |-> [e EXCEPT !.owner = Owner(e)]]
  <2>1. \A e \in N : SameButOwner(g[e], e)
    BY <1>1, OwnerKeeps
  <2>2. Owned(N) = {g[e] : e \in N}
    BY DEF Owned
  <2>3. Reowned(Owned(N), N) /\ IsFiniteSet(Owned(N)) /\ OnePerKey(Owned(N))
    <3>. HIDE DEF g
    <3>. QED BY <1>1, <2>1, <2>2, StampedIs
  <2>4. \A d \in Owned(N) : Filled(d) /\ MadeBy(f, d)
    BY <1>1, <2>3, OwnerIsNoMatter DEF Reowned
  <2>. QED BY <2>3, <2>4 DEF Sound
<1>. QED BY <1>2, <1>3

(* ... and what the lines come to.                                         *)
LEMMA ReadStamped ==
  ASSUME NEW f, NEW N, NEW P, ReadSound(f, N, P)
  PROVE  ReadSound(f, Stamped(N), P)
<1>1. Sound(f, Stamped(N)) /\ Reowned(Stamped(N), N)
  BY SoundStamped DEF ReadSound
<1>2. ASSUME NEW d \in Stamped(N)
      PROVE  /\ FromIds(f, d) /\ ~ToolOnly(f, d) => InRows(f, d)
             /\ InRows(f, d) =>
                       \/ ToolOnly(f, d)
                       \/ \E i \in P : /\ d.row = File[f].base + i
                                       /\ ShowsLine(f, i, d) /\ Leads(f, i, P)
  <2>1. PICK e \in N : SameButOwner(d, e)
    BY <1>1 DEF Reowned
  <2>2. /\ FromIds(f, e) /\ ~ToolOnly(f, e) => InRows(f, e)
        /\ InRows(f, e) =>
                       \/ ToolOnly(f, e)
                       \/ \E i \in P : /\ e.row = File[f].base + i
                                       /\ ShowsLine(f, i, e) /\ Leads(f, i, P)
    BY DEF ReadSound
  <2>. QED BY <2>1, <2>2, OwnerIsNoMatter
<1>3. ASSUME NEW j \in Named(f) \cap P
      PROVE  \E d \in Stamped(N) : RowOf(d) = LinesKey(f, j) /\ Output(f, j) <= d.output
  <2>1. PICK e \in N : RowOf(e) = LinesKey(f, j) /\ Output(f, j) <= e.output
    BY DEF ReadSound
  <2>2. PICK d \in Stamped(N) : SameButOwner(d, e)
    BY <1>1 DEF Reowned
  <2>. QED BY <2>1, <2>2, OwnerIsNoMatter
<1>. QED BY <1>1, <1>2, <1>3 DEF ReadSound

(* Every transcript's hand-over is what its lines come to.                 *)
LEMMA ParseIs ==
  ASSUME on \in Desks, NEW f \in Transcripts, NEW n \in 0..Len(Lines[f]), NEW from \in Nat
  PROVE  ReadSound(f, ParseEvents(f, Text(f, n), from), LinesRead(f, from, n))
<1>1. f \in on.sources /\ Kind[f] \in {"claude", "cloud", "codex"}
  BY DEF Transcripts, IsTranscript
<1>2. CASE Kind[f] = "claude"
  BY <1>1, <1>2, ClaudeRead DEF ParseEvents, LinesRead
<1>3. CASE Kind[f] = "cloud"
  BY <1>1, <1>3, CloudRead DEF ParseEvents, LinesRead
<1>4. CASE Kind[f] = "codex"
  BY <1>1, <1>4, CodexRead DEF ParseEvents, LinesRead
<1>. QED BY <1>1, <1>2, <1>3, <1>4

(* A named line's output is a number.                                      *)
LEMMA OutputIs ==
  ASSUME on \in Desks, NEW f \in Transcripts, NEW i \in Named(f)
  PROVE  Output(f, i) \in Nat
<1>1. f \in on.sources /\ Kind[f] \in {"claude", "cloud", "codex"}
  BY DEF Transcripts, IsTranscript
<1>2. Writes(f) /\ DOMAIN Lines[f] = 1..Len(Lines[f])
  BY <1>1, SourceIs
<1>3. CASE Kind[f] = "claude"
  BY <1>2, <1>3 DEF Writes, ClaudeWrites, AllNat, Named, Output
<1>4. CASE Kind[f] = "cloud"
  BY <1>2, <1>4 DEF Writes, CloudWrites, AllNat, Named, Output
<1>5. CASE Kind[f] = "codex"
  BY <1>2, <1>5 DEF Writes, CodexWrites, AllNat, Named, Output
<1>. QED BY <1>1, <1>3, <1>4, <1>5

(* What a source hands over is nothing to another's rows.                  *)
LEMMA OthersStand ==
  ASSUME on \in Desks, StoreTyped, RowPerKey, ReadsStand, ReadTyped,
         NEW f \in on.sources, NEW N, Sound(f, N), NEW g \in Transcripts, g # f,
         on' = on, events' = UpsertEvents(events, N), read'[g] = read[g]
  PROVE  HasRead(g)' /\ HasOnly(g)'
<1>0. g \in on.sources /\ HasRead(g) /\ HasOnly(g)
  BY DEF Transcripts, ReadsStand
<1>1. /\ IsFiniteSet(events) /\ IsFiniteSet(N) /\ OnePerKey(events) /\ OnePerKey(N)
      /\ \A e \in events \cup N : e.output \in Nat
  BY DEF StoreTyped, RowPerKey, OnePerKey, Sound, Filled
<1>2. /\ \A r \in events' : r \in events \/ r \in N
      /\ \A x \in events : \E r \in events' : RowOf(r) = RowOf(x) /\ x.output <= r.output
  BY <1>1, UpsertKeeps
<1>3. \A e \in N : ~ InRows(g, e)
  <2>1. SUFFICES ASSUME NEW e \in N, InRows(g, e) PROVE FALSE
    OBVIOUS
  <2>2. File[f].base <= e.row /\ e.row <= File[f].base + RowSpan /\ e.row \in Nat
    BY RowIsIn DEF Sound
  <2>3. Apart(f, g)
    BY <1>0, SourcesApart
  <2>4. /\ File[f].base \in Nat /\ File[g].base \in Nat /\ Len(Lines[g]) \in Nat
        /\ Len(Lines[g]) <= MaxLines /\ MaxLines \in Nat /\ MaxLines # 0
    BY <1>0, SourceIs, ReadersAssumption
  <2>5. MaxLines <= RowSpan /\ RowSpan \in Nat
    <3>1. MaxLines \in 1..MaxLines /\ 0 \in 0..(2 * MaxLines)
      BY <2>4
    <3>2. MaxLines * 0 \in Nat /\ MaxLines + MaxLines * 0 <= RowSpan /\ RowSpan \in Nat
      BY <3>1, SpanHolds
    <3>. QED BY <2>4, <3>2
  <2>. QED BY <2>1, <2>2, <2>3, <2>4, <2>5 DEF InRows, Apart
<1>4. HasRead(g)'
  <2>1. SUFFICES ASSUME NEW i \in Named(g) \cap (1..read[g])
                 PROVE  \E e \in events' : RowOf(e) = LinesKey(g, i) /\ Output(g, i) <= e.output
    BY DEF HasRead
  <2>2. PICK x \in events : RowOf(x) = LinesKey(g, i) /\ Output(g, i) <= x.output
    BY <1>0 DEF HasRead
  <2>3. PICK r \in events' : RowOf(r) = RowOf(x) /\ x.output <= r.output
    BY <1>2
  <2>4. Output(g, i) \in Int /\ x.output \in Int /\ r.output \in Int
    <3>1. x.output \in Int /\ r.output \in Int
      BY <1>1, <1>2
    <3>2. Output(g, i) \in Int
      BY OutputIs
    <3>. QED BY <3>1, <3>2
  <2>. QED BY <2>2, <2>3, <2>4
<1>5. HasOnly(g)'
  BY <1>0, <1>2, <1>3 DEF HasOnly
<1>. QED BY <1>4, <1>5

(* A read that goes on from the cursor, or again up to it, leaves what one *)
(* read of all its lines would.                                            *)
LEMMA OwnStands ==
  ASSUME on \in Desks, StoreTyped, RowPerKey, ReadsStand, ReadTyped,
         NEW f \in Transcripts, NEW N, NEW n \in 0..Len(Lines[f]), NEW from \in {0, read[f]},
         read[f] <= n, from = 0 => n = read[f] \/ read[f] = 0,
         ReadSound(f, N, LinesRead(f, from, n)),
         on' = on, events' = UpsertEvents(events, N), read'[f] = n
  PROVE  HasRead(f)' /\ HasOnly(f)'
<1>. DEFINE P == LinesRead(f, from, n)
            R == 1..read[f]
            All == 1..n
<1>0. HasRead(f) /\ HasOnly(f) /\ Sound(f, N) /\ f \in on.sources
  BY DEF Transcripts, ReadsStand, ReadSound
<1>1. /\ IsFiniteSet(events) /\ IsFiniteSet(N) /\ OnePerKey(events) /\ OnePerKey(N)
      /\ \A e \in events \cup N : e.output \in Nat
  BY <1>0 DEF StoreTyped, RowPerKey, OnePerKey, Sound, Filled
<1>2. /\ \A r \in events' :
           \/ r \in events /\ \A e \in N : RowOf(e) = RowOf(r) => e.output <= r.output
           \/ r \in N /\ \A e \in events : RowOf(e) = RowOf(r) => e.output < r.output
      /\ \A x \in events \cup N : \E r \in events' : RowOf(r) = RowOf(x) /\ x.output <= r.output
  BY <1>1, UpsertKeeps
<1>3. read[f] \in Nat /\ n \in Nat /\ Len(Lines[f]) \in Nat
  BY <1>0, SourceIs DEF ReadTyped
<1>4. P \subseteq All /\ R \subseteq All /\ \A i \in All : i \in P \/ i \in R
  BY <1>3 DEF LinesRead
<1>5. \A i \in All \ R : \A j \in R : j <= i
  BY <1>3
<1>6. All \in SUBSET Nat
  BY <1>3
<1>. HIDE DEF P, R, All
<1>7. \A i \in Named(f) : Output(f, i) \in Nat
  BY OutputIs
<1>8. \A i \in Named(f) \cap P : \E e \in N : RowOf(e) = LinesKey(f, i) /\ Output(f, i) <= e.output
  BY DEF ReadSound, P
<1>9. \A i \in Named(f) \cap R : \E e \in events : RowOf(e) = LinesKey(f, i) /\ Output(f, i) <= e.output
  BY <1>0 DEF HasRead, R
<1>10. HasRead(f)'
  <2>1. SUFFICES ASSUME NEW i \in Named(f) \cap All
                 PROVE  \E e \in events' : RowOf(e) = LinesKey(f, i) /\ Output(f, i) <= e.output
    BY DEF HasRead, All
  <2>2. PICK x \in events \cup N : RowOf(x) = LinesKey(f, i) /\ Output(f, i) <= x.output
    BY <1>4, <1>8, <1>9
  <2>3. PICK r \in events' : RowOf(r) = RowOf(x) /\ x.output <= r.output
    BY <1>2
  <2>4. Output(f, i) \in Int /\ x.output \in Int /\ r.output \in Int
    BY <1>1, <1>2, <1>7
  <2>. QED BY <2>2, <2>3, <2>4
<1>11. ASSUME NEW r \in events', InRows(f, r), ~ ToolOnly(f, r)
       PROVE  \E i \in All : r.row = File[f].base + i /\ ShowsLine(f, i, r) /\ Leads(f, i, All)
  <2>1. CASE r \in events /\ \A e \in N : RowOf(e) = RowOf(r) => e.output <= r.output
    <3>1. PICK i \in R : r.row = File[f].base + i /\ ShowsLine(f, i, r) /\ Leads(f, i, R)
      BY <1>0, <1>11, <2>1 DEF HasOnly, R
    <3>2. /\ i \in Named(f) /\ RowOf(r) = LinesKey(f, i) /\ r.output = Output(f, i)
      BY <3>1 DEF ShowsLine
    <3>3. ASSUME NEW j \in Named(f) \cap All, LinesKey(f, j) = LinesKey(f, i)
          PROVE  Output(f, j) <= Output(f, i) /\ (Output(f, j) = Output(f, i) /\ Kind[f] # "claude" => i <= j)
      <4>1. CASE j \in R
        BY <3>1, <3>3, <4>1 DEF Leads
      <4>2. CASE j \notin R
        <5>1. PICK e \in N : RowOf(e) = LinesKey(f, j) /\ Output(f, j) <= e.output
          BY <1>4, <1>8, <4>2
        <5>2. e.output <= r.output /\ e.output \in Nat
          BY <1>1, <2>1, <3>2, <3>3, <5>1
        <5>3. i <= j
          BY <1>5, <3>1, <4>2
        <5>. QED BY <1>7, <3>2, <5>1, <5>2, <5>3
      <4>. QED BY <4>1, <4>2
    <3>4. Leads(f, i, All)
      BY <3>3 DEF Leads
    <3>. QED BY <1>4, <3>1, <3>4
  <2>2. CASE r \in N /\ \A e \in events : RowOf(e) = RowOf(r) => e.output < r.output
    <3>1. PICK i \in P : r.row = File[f].base + i /\ ShowsLine(f, i, r) /\ Leads(f, i, P)
      BY <1>11, <2>2 DEF ReadSound, P
    <3>2. /\ i \in Named(f) /\ RowOf(r) = LinesKey(f, i) /\ r.output = Output(f, i)
      BY <3>1 DEF ShowsLine
    <3>3. ASSUME NEW j \in Named(f) \cap All, LinesKey(f, j) = LinesKey(f, i)
          PROVE  Output(f, j) <= Output(f, i) /\ (Output(f, j) = Output(f, i) /\ Kind[f] # "claude" => i <= j)
      <4>1. CASE j \in P
        BY <3>1, <3>3, <4>1 DEF Leads
      <4>2. CASE j \in R
        <5>1. PICK e \in events : RowOf(e) = LinesKey(f, j) /\ Output(f, j) <= e.output
          BY <1>9, <4>2
        <5>2. e.output < r.output /\ e.output \in Nat
          BY <1>1, <2>2, <3>2, <3>3, <5>1
        <5>. QED BY <1>7, <3>2, <5>1, <5>2
      <4>. QED BY <1>4, <4>1, <4>2
    <3>4. Leads(f, i, All)
      BY <3>3 DEF Leads
    <3>. QED BY <1>4, <3>1, <3>4
  <2>. QED BY <1>2, <2>1, <2>2
<1>12. HasOnly(f)'
  BY <1>11 DEF HasOnly, All
<1>. QED BY <1>10, <1>12

(* Read and ReadAgain keep the invariant.                                  *)
LEMMA TakeKeeps ==
  ASSUME StoreInv, NEW f \in Transcripts, NEW n \in 0..Len(Lines[f]), NEW from \in {0, read[f]},
         read[f] <= n, from = 0 => n = read[f] \/ read[f] = 0, Take(f, from, n)
  PROVE  StoreInv'
<1>. DEFINE M == ParseEvents(f, Text(f, n), from)
            N == Stamped(M)
<1>1. /\ on \in Desks /\ ClockTyped /\ ReadTyped /\ TailTyped
      /\ StoreTyped /\ StoreMade /\ RowPerKey /\ ReadsStand
  BY DEF StoreInv
<1>2. /\ events' = UpsertEvents(events, N) /\ read' = [read EXCEPT ![f] = n]
      /\ on' = on /\ tail' = tail /\ clock' = clock /\ rules' = rules
  BY DEF Take
<1>3. f \in on.sources /\ from \in Nat
  BY <1>1 DEF Transcripts, ReadTyped
<1>4. ReadSound(f, N, LinesRead(f, from, n))
  BY <1>1, <1>3, ParseIs, ReadStamped
<1>5. Sound(f, N)
  BY <1>4 DEF ReadSound
<1>. HIDE DEF N
<1>6. StoreTyped' /\ StoreMade' /\ RowPerKey'
  BY <1>1, <1>2, <1>3, <1>5, StoreTakes
<1>7. read'[f] = n /\ \A g \in Transcripts : g # f => read'[g] = read[g]
  BY <1>1, <1>2, <1>3 DEF ReadTyped, Transcripts
<1>8. ReadsStand'
  <2>1. SUFFICES ASSUME NEW g \in Transcripts PROVE HasRead(g)' /\ HasOnly(g)'
    BY <1>2 DEF ReadsStand, Transcripts
  <2>2. CASE g = f
    BY <1>1, <1>2, <1>4, <1>7, <2>2, OwnStands
  <2>3. CASE g # f
    BY <1>1, <1>2, <1>3, <1>5, <1>7, <2>3, OthersStand
  <2>. QED BY <2>2, <2>3
<1>9. ReadTyped'
  BY <1>1, <1>2, <1>3, SourceIs DEF ReadTyped
<1>10. TailTyped' /\ ClockTyped'
  BY <1>1, <1>2 DEF TailTyped, ClockTyped, Of, Written, Now
<1>. QED BY <1>1, <1>2, <1>6, <1>8, <1>9, <1>10 DEF StoreInv

(* A poll of a source that is no transcript disturbs no transcript.        *)
LEMMA PollKeeps ==
  ASSUME StoreInv, NEW f \in on.sources, f \notin Transcripts, NEW N, Sound(f, N),
         events' = UpsertEvents(events, N),
         UNCHANGED <<on, read, clock, rules>>, TailTyped'
  PROVE  StoreInv'
<1>1. /\ on \in Desks /\ ClockTyped /\ ReadTyped
      /\ StoreTyped /\ StoreMade /\ RowPerKey /\ ReadsStand
  BY DEF StoreInv
<1>2. StoreTyped' /\ StoreMade' /\ RowPerKey'
  BY <1>1, StoreTakes
<1>3. ReadsStand'
  <2>1. SUFFICES ASSUME NEW g \in Transcripts PROVE HasRead(g)' /\ HasOnly(g)'
    BY DEF ReadsStand, Transcripts
  <2>. QED BY <1>1, OthersStand
<1>4. ReadTyped' /\ ClockTyped'
  BY <1>1 DEF ReadTyped, ClockTyped
<1>. QED BY <1>1, <1>2, <1>3, <1>4 DEF StoreInv

(* PollVSCode keeps the invariant.                                         *)
LEMMA VSCodeKeeps ==
  ASSUME StoreInv, NEW f \in Of("vscode"), PollVSCode(f)
  PROVE  StoreInv'
<1>. DEFINE n == Written(f)
            ls == Text(f, n)
            N == Stamped(TailEvents(File[f], tail, ls, Now))
<1>1. f \in on.sources /\ Kind[f] = "vscode" /\ f \notin Transcripts /\ on \in Desks
  BY DEF Of, Transcripts, IsTranscript, StoreInv
<1>2. n \in 0..Len(Lines[f]) /\ n \in Nat
  BY <1>1, WrittenIs
<1>3. /\ tail.offset \in 0..n /\ tail.session = SessionAt(NewTail, Lines[f], tail.offset + 1)
  BY <1>2 DEF StoreInv, TailTyped
<1>4. /\ events' = UpsertEvents(events, N) /\ tail' = TailPoll(tail, ls)
      /\ UNCHANGED <<on, read, clock, rules>>
  BY DEF PollVSCode
<1>7. Now \in Nat /\ Now # 1
  BY ClockIs DEF StoreInv
<1>5. Sound(f, N)
  <2>1. PICK now : now = Now
    OBVIOUS
  <2>2. Sound(f, TailEvents(File[f], tail, ls, now))
    BY <1>1, <1>2, <1>3, <1>7, <2>1, TailRead
  <2>. QED BY <1>1, <2>1, <2>2, SoundStamped
<1>6. TailTyped'
  <2>1. Len(ls) = n
    BY <1>1, <1>2, TextIs
  <2>2. n + 1 \in (tail.offset + 1)..(n + 1)
    BY <1>2, <1>3
  <2>3. SessionAt(tail, ls, n + 1) = SessionAt(NewTail, Lines[f], n + 1)
    BY <1>1, <1>2, <1>3, <2>2, SessionIs
  <2>4. tail'.offset = n /\ tail'.session = SessionAt(NewTail, Lines[f], n + 1)
    BY <1>4, <2>1, <2>3 DEF TailPoll
  <2>5. \A g \in Of("vscode") : g = f
    <3>1. IsDesk(on)
      BY <1>1, ViewsAssumption
    <3>. QED BY <1>1, <3>1 DEF IsDesk, Of
  <2>6. Written(f)' = n /\ Of("vscode")' = Of("vscode")
    BY <1>4 DEF Written, Now, Of
  <2>. HIDE DEF n
  <2>. QED BY <1>2, <2>4, <2>5, <2>6 DEF TailTyped
<1>. HIDE DEF N
<1>. QED BY <1>1, <1>4, <1>5, <1>6, PollKeeps

(* TimePasses keeps the invariant.                                         *)
LEMMA TimeKeeps ==
  ASSUME StoreInv, TimePasses
  PROVE  StoreInv'
<1>1. /\ on \in Desks /\ ClockTyped /\ ReadTyped /\ TailTyped
      /\ StoreTyped /\ StoreMade /\ RowPerKey /\ ReadsStand
  BY DEF StoreInv
<1>2. /\ clock < Len(on.instants) /\ clock' = clock + 1
      /\ UNCHANGED <<on, read, tail, rules, events>>
  BY DEF TimePasses
<1>3. ClockTyped'
  <2>1. IsDesk(on)
    BY <1>1, ViewsAssumption
  <2>2. DOMAIN on.instants = 1..Len(on.instants)
    BY <2>1 DEF IsDesk
  <2>. QED BY <1>1, <1>2, <2>2, ClockIs DEF ClockTyped
<1>4. Now <= Now'
  BY <1>1, <1>2, ClockIs DEF Now
<1>5. TailTyped'
  <2>1. SUFFICES ASSUME NEW f \in Of("vscode")
                 PROVE  Written(f) <= Written(f)' /\ Written(f) \in Nat /\ Written(f)' \in Nat
    BY <1>1, <1>2 DEF TailTyped, Of
  <2>. DEFINE S == {i \in DOMAIN Lines[f] : Lines[f][i].at <= Now}
              T == {i \in DOMAIN Lines[f] : Lines[f][i].at <= Now'}
  <2>2. f \in on.sources /\ Kind[f] = "vscode"
    BY DEF Of
  <2>3. DOMAIN Lines[f] = 1..Len(Lines[f]) /\ Len(Lines[f]) \in Nat
    BY <1>1, <2>2, SourceIs
  <2>4. \A i \in DOMAIN Lines[f] : Lines[f][i].at \in Nat
    BY <1>1, <2>2, SourceIs DEF Writes, VSCodeWrites, AllNat, IsStamp
  <2>5. Now \in Nat /\ Now' \in Nat
    <3>1. Now \in Nat
      BY <1>1, ClockIs
    <3>2. Now' \in Nat
      BY <1>1, <1>2, ClockIs DEF Now
    <3>. QED BY <3>1, <3>2
  <2>6. S \in SUBSET T
    BY <1>4, <2>4, <2>5
  <2>7. IsFiniteSet(T)
    <3>1. T \in SUBSET (1..Len(Lines[f]))
      BY <2>3
    <3>2. IsFiniteSet(1..Len(Lines[f]))
      BY <2>3, FS_Interval
    <3>. HIDE DEF T
    <3>. QED BY <3>1, <3>2, FS_Subset
  <2>8. Written(f) = Cardinality(S) /\ Written(f)' = Cardinality(T)
    BY DEF Written
  <2>. HIDE DEF S, T
  <2>. QED BY <2>6, <2>7, <2>8, FS_Subset, FS_CardinalityType
<1>6. StoreTyped' /\ StoreMade' /\ RowPerKey'
  BY <1>1, <1>2 DEF StoreTyped, StoreMade, RowPerKey
<1>7. ReadTyped' /\ ReadsStand'
  BY <1>1, <1>2 DEF ReadTyped, ReadsStand, HasRead, HasOnly, Transcripts
<1>. QED BY <1>1, <1>2, <1>3, <1>5, <1>6, <1>7 DEF StoreInv

(* Reown keeps the invariant.                                              *)
LEMMA ReownKeeps ==
  ASSUME StoreInv, Reown
  PROVE  StoreInv'
<1>1. /\ on \in Desks /\ ClockTyped /\ ReadTyped /\ TailTyped
      /\ StoreTyped /\ StoreMade /\ RowPerKey /\ ReadsStand
  BY DEF StoreInv
<1>. DEFINE O(p) == OwnerFor(cfg, Remote[p], p)
            C(p) == ClientFor(cfg, Remote[p], p)
            g == [e \in events |-> [e EXCEPT !.owner = O(e.project), !.client = C(e.project)]]
<1>2. /\ UNCHANGED <<on, read, tail, clock, rules>>
      /\ events' = {g[e] : e \in events}
  BY DEF Reown, ReownEvents
<1>3. \A e \in events : Filled(e) /\ IsEvent(e)
  BY <1>1 DEF StoreTyped, Filled
<1>4. \A e \in events : SameButOwner(g[e], e)
  BY <1>3, StampKeeps
<1>. HIDE DEF g
<1>5. Reowned(events', events) /\ IsFiniteSet(events') /\ OnePerKey(events')
  BY <1>1, <1>2, <1>3, <1>4, StampedIs DEF StoreTyped, RowPerKey, OnePerKey
<1>6. StoreTyped' /\ RowPerKey'
  BY <1>3, <1>5, OwnerIsNoMatter DEF StoreTyped, RowPerKey, OnePerKey, Reowned
<1>7. StoreMade'
  <2>1. SUFFICES ASSUME NEW d \in events' PROVE \E f \in on.sources : MadeBy(f, d)
    BY <1>2 DEF StoreMade
  <2>2. PICK e \in events : SameButOwner(d, e)
    BY <1>5 DEF Reowned
  <2>3. PICK f \in on.sources : MadeBy(f, e)
    BY <1>1 DEF StoreMade
  <2>. QED BY <2>2, <2>3, OwnerIsNoMatter
<1>8. ReadsStand'
  <2>1. SUFFICES ASSUME NEW f \in Transcripts PROVE HasRead(f)' /\ HasOnly(f)'
    BY <1>2 DEF ReadsStand, Transcripts
  <2>2. HasRead(f) /\ HasOnly(f)
    BY <1>1 DEF ReadsStand
  <2>3. HasRead(f)'
    <3>1. SUFFICES ASSUME NEW i \in Named(f) \cap (1..read[f])
                   PROVE  \E e \in events' : RowOf(e) = LinesKey(f, i) /\ Output(f, i) <= e.output
      BY <1>2 DEF HasRead
    <3>2. PICK e \in events : RowOf(e) = LinesKey(f, i) /\ Output(f, i) <= e.output
      BY <2>2 DEF HasRead
    <3>3. PICK d \in events' : SameButOwner(d, e)
      BY <1>5 DEF Reowned
    <3>. QED BY <3>2, <3>3, OwnerIsNoMatter
  <2>4. HasOnly(f)'
    <3>1. SUFFICES ASSUME NEW d \in events', InRows(f, d)
                   PROVE  \/ ToolOnly(f, d)
                          \/ \E i \in 1..read[f] : d.row = File[f].base + i /\ ShowsLine(f, i, d)
                                                   /\ Leads(f, i, 1..read[f])
      BY <1>2 DEF HasOnly
    <3>2. PICK e \in events : SameButOwner(d, e)
      BY <1>5 DEF Reowned
    <3>3. /\ InRows(f, e) /\ (ToolOnly(f, e) => ToolOnly(f, d)) /\ d.row = e.row
          /\ \A i : ShowsLine(f, i, e) => ShowsLine(f, i, d)
      BY <3>1, <3>2, OwnerIsNoMatter
    <3>. QED BY <2>2, <3>3 DEF HasOnly
  <2>. QED BY <2>3, <2>4
<1>9. ReadTyped' /\ TailTyped' /\ ClockTyped'
  BY <1>1, <1>2 DEF ReadTyped, TailTyped, ClockTyped, Of, Written, Now
<1>. QED BY <1>1, <1>2, <1>6, <1>7, <1>8, <1>9 DEF StoreInv

(* Every step keeps the invariant.                                         *)
LEMMA StoreStep == StoreInv /\ [ViewsNext]_viewVars => StoreInv'
<1>. SUFFICES ASSUME StoreInv, [ViewsNext]_viewVars PROVE StoreInv'
  OBVIOUS
<1>0. /\ on \in Desks /\ ClockTyped /\ ReadTyped /\ TailTyped
      /\ StoreTyped /\ StoreMade /\ RowPerKey /\ ReadsStand
  BY DEF StoreInv
<1>1. ASSUME NEW f \in Transcripts, Read(f) PROVE StoreInv'
  <2>1. PICK n \in Stops[f] : read[f] < n /\ n <= Written(f) /\ Take(f, read[f], n)
    BY <1>1 DEF Read
  <2>2. f \in on.sources /\ IsTranscript(f) /\ read[f] \in Nat
    BY <1>0 DEF Transcripts, ReadTyped
  <2>3. n \in Nat
    <3>1. IsDesk(on)
      BY <1>0, ViewsAssumption
    <3>. QED BY <2>2, <3>1 DEF IsDesk
  <2>4. n \in 0..Len(Lines[f]) /\ read[f] <= n
    <3>1. Written(f) \in 0..Len(Lines[f]) /\ Len(Lines[f]) \in Nat
      BY <1>0, <2>2, WrittenIs, SourceIs
    <3>. QED BY <2>1, <2>2, <2>3, <3>1
  <2>. QED BY <2>1, <2>4, TakeKeeps
<1>2. ASSUME NEW f \in Transcripts, ReadAgain(f) PROVE StoreInv'
  <2>1. read[f] \in 0..Len(Lines[f]) /\ read[f] <= read[f]
    <3>1. f \in on.sources
      BY DEF Transcripts
    <3>. QED BY <1>0, <3>1, SourceIs DEF ReadTyped
  <2>. QED BY <1>2, <2>1, TakeKeeps DEF ReadAgain
<1>3. ASSUME NEW f \in Of("vscode"), PollVSCode(f) PROVE StoreInv'
  BY <1>3, VSCodeKeeps
<1>4. ASSUME UNCHANGED <<on, read, clock, rules, events>>, TailTyped' PROVE StoreInv'
  <2>1. StoreTyped' /\ StoreMade' /\ RowPerKey' /\ ReadTyped' /\ ReadsStand' /\ ClockTyped'
    BY <1>0, <1>4 DEF StoreTyped, StoreMade, RowPerKey, ReadTyped, ReadsStand, HasRead, HasOnly,
                      Transcripts, ClockTyped
  <2>. QED BY <1>0, <1>4, <2>1 DEF StoreInv
<1>5. ASSUME NEW f \in Of("vscode"), RestartTail PROVE StoreInv'
  <2>1. UNCHANGED <<on, read, clock, rules, events>> /\ tail' = NewTail
    BY <1>5 DEF RestartTail
  <2>2. TailTyped'
    <3>1. SUFFICES ASSUME NEW g \in Of("vscode")
                   PROVE  0 <= Written(g) /\ None = SessionAt(NewTail, Lines[g], 0 + 1)
      BY <2>1 DEF TailTyped, NewTail, Of, Written, Now
    <3>2. Written(g) \in Nat
      BY <1>0, WrittenIs DEF Of
    <3>3. {j \in (NewTail.offset + 1)..Len(Lines[g]) : j < 0 + 1 /\ Lines[g][j].kind = "start"} = {}
      BY DEF NewTail
    <3>4. SessionAt(NewTail, Lines[g], 0 + 1) = NewTail.session
      BY <3>3 DEF SessionAt
    <3>. QED BY <3>2, <3>4 DEF NewTail
  <2>. QED BY <1>4, <2>1, <2>2
<1>6. ASSUME NEW f \in Of("hermes"), PollHermes(f) PROVE StoreInv'
  <2>. DEFINE N == Owned(HermesEvents(File[f], HermesAt[clock], Now))
  <2>1. f \in on.sources /\ Kind[f] = "hermes" /\ f \notin Transcripts
    BY DEF Of, Transcripts, IsTranscript
  <2>2. Sound(f, N)
    BY <1>0, <2>1, HermesRead, SoundStamped
  <2>3. /\ events' = UpsertEvents(events, N) /\ UNCHANGED <<on, read, clock, rules, tail>>
    BY <1>6 DEF PollHermes
  <2>4. TailTyped'
    BY <1>0, <2>3 DEF TailTyped, Of, Written, Now
  <2>. HIDE DEF N
  <2>. QED BY <2>1, <2>2, <2>3, <2>4, PollKeeps
<1>7. ASSUME NEW f \in Of("cli"), PollCopilotCLI(f) PROVE StoreInv'
  <2>. DEFINE N == Owned(CopilotCLIEvents(File[f], Text(f, Written(f))))
  <2>1. f \in on.sources /\ Kind[f] = "cli" /\ f \notin Transcripts
    BY DEF Of, Transcripts, IsTranscript
  <2>2. Sound(f, N)
    BY <1>0, <2>1, CopilotCLIRead, WrittenIs, SoundStamped
  <2>3. /\ events' = UpsertEvents(events, N) /\ UNCHANGED <<on, read, clock, rules, tail>>
    BY <1>7 DEF PollCopilotCLI
  <2>4. TailTyped'
    BY <1>0, <2>3 DEF TailTyped, Of, Written, Now
  <2>. HIDE DEF N
  <2>. QED BY <2>1, <2>2, <2>3, <2>4, PollKeeps
<1>8. CASE TimePasses
  BY <1>8, TimeKeeps
<1>9. CASE SaveRules
  <2>1. /\ rules < Len(on.configs) /\ rules' = rules + 1
        /\ UNCHANGED <<on, read, clock, tail, events>>
    BY <1>9 DEF SaveRules
  <2>2. ClockTyped'
    <3>1. IsDesk(on)
      BY <1>0, ViewsAssumption
    <3>2. DOMAIN on.configs = 1..Len(on.configs)
      BY <3>1 DEF IsDesk
    <3>. QED BY <1>0, <2>1, <3>2, ClockIs DEF ClockTyped
  <2>3. StoreTyped' /\ StoreMade' /\ RowPerKey' /\ ReadTyped' /\ ReadsStand' /\ TailTyped'
    BY <1>0, <2>1 DEF StoreTyped, StoreMade, RowPerKey, ReadTyped, ReadsStand, HasRead, HasOnly,
                      Transcripts, TailTyped, Of, Written, Now
  <2>. QED BY <1>0, <2>1, <2>2, <2>3 DEF StoreInv
<1>10. CASE Reown
  BY <1>10, ReownKeeps
<1>11. CASE UNCHANGED viewVars
  <2>1. UNCHANGED <<on, read, clock, rules, events, tail>>
    BY <1>11 DEF viewVars
  <2>2. TailTyped'
    BY <1>0, <2>1 DEF TailTyped, Of, Written, Now
  <2>. QED BY <1>4, <2>1, <2>2
<1>. QED BY <1>1, <1>2, <1>3, <1>5, <1>6, <1>7, <1>8, <1>9, <1>10, <1>11 DEF ViewsNext

(* An empty store has it.                                                  *)
LEMMA StoreInit == ViewsInit => StoreInv
<1>. SUFFICES ASSUME ViewsInit PROVE StoreInv
  OBVIOUS
<1>1. on \in Desks /\ read = [f \in on.sources |-> 0] /\ tail = NewTail /\ clock = 1 /\ rules = 1
      /\ events = {}
  BY DEF ViewsInit
<1>2. IsDesk(on)
  BY <1>1, ViewsAssumption
<1>3. ClockTyped
  <2>1. /\ on.instants \in Seq(Nat) /\ on.instants # <<>>
        /\ on.configs \in Seq(Elems(on.configs)) /\ on.configs # <<>>
    BY <1>2 DEF IsDesk
  <2>. QED BY <1>1, <2>1 DEF ClockTyped
<1>4. ReadTyped
  BY <1>1, SourceIs DEF ReadTyped
<1>5. TailTyped
    <3>1. SUFFICES ASSUME NEW g \in Of("vscode")
                   PROVE  0 <= Written(g) /\ None = SessionAt(NewTail, Lines[g], 0 + 1)
      BY <1>1 DEF TailTyped, NewTail
    <3>2. Written(g) \in Nat
      BY <1>1, WrittenIs DEF Of
    <3>3. {j \in (NewTail.offset + 1)..Len(Lines[g]) : j < 0 + 1 /\ Lines[g][j].kind = "start"} = {}
      BY DEF NewTail
    <3>4. SessionAt(NewTail, Lines[g], 0 + 1) = NewTail.session
      BY <3>3 DEF SessionAt
    <3>. QED BY <3>2, <3>4 DEF NewTail
<1>6. StoreTyped /\ StoreMade /\ RowPerKey
  BY <1>1, FS_EmptySet DEF StoreTyped, StoreMade, RowPerKey
<1>7. ReadsStand
  <2>1. \A f \in Transcripts : 1..read[f] = {}
    BY <1>1 DEF Transcripts
  <2>. QED BY <1>1, <2>1 DEF ReadsStand, HasRead, HasOnly
<1>. QED BY <1>1, <1>3, <1>4, <1>5, <1>6, <1>7 DEF StoreInv

(* However transcripts are cut into reads and read again, however the tools *)
(* are polled, the tail restarted and the rows reowned (Ingest's Upsert,   *)
(* UpsertEvents, ReownEvents), the store keeps one row per key, every row  *)
(* one source's and made of one of its lines, and of every transcript the  *)
(* largest figures of each key among the lines read and no others.         *)
THEOREM StoreIsSound == ViewsInit /\ [][ViewsNext]_viewVars => []StoreInv
BY StoreInit, StoreStep, PTL

-----------------------------------------------------------------------------
(***************************************************************************)
(* What the store has of a transcript is what one read of it gives.        *)
(***************************************************************************)
(* Two lines that stand for one key tell the same figures.                 *)
LEMMA LeadersAgree ==
  ASSUME on \in Desks, NEW f \in Transcripts, NEW R \in SUBSET Nat,
         NEW i \in R, NEW j \in R, NEW d, NEW e,
         ShowsLine(f, i, d), ShowsLine(f, j, e), Leads(f, i, R), Leads(f, j, R),
         LinesKey(f, i) = LinesKey(f, j)
  PROVE  /\ Figure(d) = Figure(e)
         /\ IsTurn(d) <=> IsTurn(e)
<1>1. f \in on.sources /\ Kind[f] \in {"claude", "cloud", "codex"}
  BY DEF Transcripts, IsTranscript
<1>2. Writes(f)
  BY <1>1, SourceIs
<1>3. /\ i \in Named(f) /\ j \in Named(f) /\ RowOf(d) = RowOf(e)
      /\ d.output = Output(f, i) /\ e.output = Output(f, j)
  BY DEF ShowsLine
<1>4. /\ Output(f, i) \in Nat /\ Output(f, j) \in Nat
  BY <1>3, OutputIs
<1>5. /\ Output(f, i) <= Output(f, j) /\ Output(f, j) <= Output(f, i)
      /\ Output(f, j) = Output(f, i) /\ Kind[f] # "claude" => i <= j
      /\ Output(f, i) = Output(f, j) /\ Kind[f] # "claude" => j <= i
  BY <1>3 DEF Leads
<1>6. d.output = e.output /\ Output(f, i) = Output(f, j)
  BY <1>3, <1>4, <1>5
<1>7. CASE Kind[f] = "claude"
  <2>1. /\ i \in Billed(Lines[f], DOMAIN Lines[f]) /\ Lines[f][i].request # None
        /\ j \in Billed(Lines[f], DOMAIN Lines[f]) /\ Lines[f][j].request # None
    BY <1>3, <1>7 DEF Named
  <2>2. Lines[f][i].request = Lines[f][j].request
    BY <1>7 DEF LinesKey
  <2>3. Lines[f][i].usage[1].output = Lines[f][j].usage[1].output
    BY <1>6, <1>7 DEF Output
  <2>4. Lines[f][i].usage[1] = Lines[f][j].usage[1] /\ Lines[f][i].usage[1].output > 0
    BY <1>2, <1>7, <2>1, <2>2, <2>3 DEF Writes, ClaudeWrites
  <2>5. /\ d.input = e.input /\ d.cw = e.cw /\ d.cr = e.cr /\ d.reasoning = e.reasoning
    BY <1>7, <2>4 DEF ShowsLine
  <2>6. d.output # 0 /\ e.output # 0
    BY <1>3, <1>6, <1>7, <2>4 DEF Output
  <2>. QED BY <1>3, <1>6, <2>5, <2>6 DEF Figure, IsTurn
<1>8. CASE Kind[f] # "claude"
  <2>1. i = j
    BY <1>5, <1>6, <1>8
  <2>2. /\ d.input = e.input /\ d.cw = e.cw /\ d.cr = e.cr /\ d.reasoning = e.reasoning
    BY <1>1, <1>8, <2>1 DEF ShowsLine
  <2>3. IsTurn(d) <=> IsTurn(e)
    <3>1. CASE Kind[f] = "cloud"
      BY <1>6, <2>1, <2>2, <3>1 DEF ShowsLine, IsTurn
    <3>2. CASE Kind[f] = "codex"
      <4>1. i \in Kinds(Lines[f], DOMAIN Lines[f], "count")
        BY <1>3, <3>2 DEF Named
      <4>2. CodexWrites(Lines[f])
        BY <1>2, <3>2 DEF Writes
      <4>3. Lines[f][i].output > 0
        BY <4>1, <4>2 DEF CodexWrites
      <4>4. Output(f, i) = Lines[f][i].output
        BY <3>2 DEF Output
      <4>5. Output(f, i) # 0
        BY <4>3, <4>4, <1>4
      <4>. QED BY <1>3, <1>6, <4>5 DEF IsTurn
    <3>. QED BY <1>1, <1>8, <3>1, <3>2
  <2>. QED BY <1>3, <1>6, <2>2, <2>3 DEF Figure
<1>. QED BY <1>7, <1>8

(* An event with a transcript's key is that transcript's, in its rows.     *)
LEMMA KeyIsOwn ==
  ASSUME on \in Desks, NEW f \in on.sources, NEW x, MadeBy(f, x)
  PROVE  KeyOf(x) \in SessionsOf(f)
<1>1. Kind[f] \in {"claude", "cloud", "codex", "vscode", "hermes", "cli"}
  BY SourceIs
<1>2. Lines[f] \in Seq(Elems(Lines[f])) /\ DOMAIN Lines[f] = 1..Len(Lines[f]) /\ Len(Lines[f]) \in Nat
  BY SourceIs DEF Writes
<1>3. \A i \in DOMAIN Lines[f] : Lines[f][i] \in Elems(Lines[f])
  BY <1>2
<1>4. CASE Kind[f] = "claude"
  BY <1>4 DEF MadeBy, ClaudeMade, KeyOf, SessionsOf
<1>5. CASE Kind[f] = "cloud"
  BY <1>3, <1>5 DEF MadeBy, LinesKey, RowOf, KeyOf, SessionsOf
<1>6. CASE Kind[f] = "codex"
  BY <1>6 DEF MadeBy, LinesKey, RowOf, KeyOf, SessionsOf
<1>7. CASE Kind[f] = "vscode"
  <2>1. PICK i \in DOMAIN Lines[f] : RowOf(x) = LinesKey(f, i)
    BY <1>7 DEF MadeBy
  <2>2. KeyOf(x) = <<"github", SessionAt(NewTail, Lines[f], i)>>
    BY <1>7, <2>1 DEF LinesKey, RowOf, KeyOf
  <2>. DEFINE S == {j \in (NewTail.offset + 1)..Len(Lines[f]) : j < i /\ Lines[f][j].kind = "start"}
  <2>3. CASE S = {}
    <3>1. SessionAt(NewTail, Lines[f], i) = None
      BY <2>3 DEF SessionAt, NewTail
    <3>. QED BY <1>7, <2>2, <3>1 DEF SessionsOf
  <2>4. CASE S # {}
    <3>1. S \in SUBSET (1..Len(Lines[f])) /\ S \in SUBSET Int
      BY <1>2 DEF NewTail
    <3>2. IsFiniteSet(1..Len(Lines[f]))
      BY <1>2, FS_Interval
    <3>3. Max(S) \in S
      <4>. HIDE DEF S
      <4>. QED BY <2>4, <3>1, <3>2, FS_Subset, MaxIs
    <3>4. SessionAt(NewTail, Lines[f], i) = Lines[f][Max(S)].session
      BY <2>4 DEF SessionAt
    <3>5. Lines[f][Max(S)] \in Elems(Lines[f])
      <4>. HIDE DEF S
      <4>. QED BY <1>2, <1>3, <3>1, <3>3
    <3>. HIDE DEF S
    <3>. QED BY <1>7, <2>2, <3>4, <3>5 DEF SessionsOf
  <2>. QED BY <2>3, <2>4
<1>8. CASE Kind[f] \in {"hermes", "cli"}
  BY <1>8 DEF MadeBy, PolledKey, RowOf, KeyOf, SessionsOf
<1>. QED BY <1>1, <1>4, <1>5, <1>6, <1>7, <1>8

(* So is an event with the key of one of its lines.                        *)
LEMMA LinesKeyIsOwn ==
  ASSUME on \in Desks, NEW f \in Transcripts, NEW i \in Named(f), NEW x, RowOf(x) = LinesKey(f, i)
  PROVE  KeyOf(x) \in SessionsOf(f)
<1>1. f \in on.sources /\ Kind[f] \in {"claude", "cloud", "codex"}
  BY DEF Transcripts, IsTranscript
<1>2. Lines[f] \in Seq(Elems(Lines[f])) /\ DOMAIN Lines[f] = 1..Len(Lines[f]) /\ Len(Lines[f]) \in Nat
  BY <1>1, SourceIs DEF Writes
<1>3. \A j \in DOMAIN Lines[f] : Lines[f][j] \in Elems(Lines[f])
  BY <1>2
<1>4. CASE Kind[f] = "claude"
  BY <1>4 DEF LinesKey, RowOf, KeyOf, SessionsOf
<1>5. CASE Kind[f] = "cloud"
  BY <1>3, <1>5 DEF Named, LinesKey, RowOf, KeyOf, SessionsOf
<1>6. CASE Kind[f] = "codex"
  BY <1>6 DEF LinesKey, RowOf, KeyOf, SessionsOf
<1>. QED BY <1>1, <1>4, <1>5, <1>6

(* A transcript's turn that carries an id is in the rows of its lines.     *)
LEMMA OwnRows ==
  ASSUME on \in Desks, StoreMade, NEW f \in Transcripts, NEW i \in Named(f), NEW x \in events,
         RowOf(x) = LinesKey(f, i)
  PROVE  InRows(f, x)
<1>1. f \in on.sources /\ Kind[f] \in {"claude", "cloud", "codex"}
  BY DEF Transcripts, IsTranscript
<1>2. PICK g \in on.sources : MadeBy(g, x)
  BY DEF StoreMade
<1>3. g = f
  <2>1. KeyOf(x) \in SessionsOf(g) /\ KeyOf(x) \in SessionsOf(f)
    BY <1>2, KeyIsOwn, LinesKeyIsOwn
  <2>. QED BY <1>1, <2>1, SourcesApart DEF Apart
<1>4. /\ DOMAIN Lines[f] = 1..Len(Lines[f]) /\ Len(Lines[f]) \in Nat /\ File[f].base \in Nat
      /\ MaxLines \in Nat
  BY <1>1, SourceIs
<1>5. ASSUME NEW k \in DOMAIN Lines[f], x.row = File[f].base + k PROVE InRows(f, x)
  BY <1>4, <1>5 DEF InRows
<1>6. CASE Kind[f] = "claude"
  <2>1. x.request = Lines[f][i].request /\ Lines[f][i].request # None /\ i \in DOMAIN Lines[f]
    BY <1>6 DEF LinesKey, RowOf, Named, Billed
  <2>. DEFINE L == Lines[f]
              n == Len(Lines[f])
  <2>2. PICK k \in DOMAIN L :
          \/ /\ L[k].request # None /\ x.row = File[f].base + k + MaxLines * 0
          \/ /\ L[k].request = None
             /\ \E a \in 0..(k - 1) : \/ x.request = ClaudeKey(L, (a + 1)..n, k)
                                      \/ x.request = ToolKey(L, a, k)
    BY <1>2, <1>3, <1>6 DEF MadeBy, ClaudeMade
  <2>3. CASE L[k].request # None
    <3>1. x.row = File[f].base + k
      BY <1>4, <2>2, <2>3
    <3>. QED BY <1>5, <3>1
  <2>4. CASE L[k].request = None
    <3>1. PICK a \in 0..(k - 1) : \/ x.request = ClaudeKey(L, (a + 1)..n, k)
                                  \/ x.request = ToolKey(L, a, k)
      BY <2>2, <2>4
    <3>2. n \in 0..Len(Lines[f]) /\ a \in Nat /\ k \in (a + 1)..n
      BY <1>4
    <3>3. /\ x.request = ClaudeKey(Text(f, n), (a + 1)..n, k) \/ x.request = ToolKey(Text(f, n), a, k)
          /\ \A j \in DOMAIN L : L[j].request # None => ClaudeKey(Text(f, n), (a + 1)..n, k) # L[j].request
          /\ \A j \in DOMAIN L : L[j].request # None => ToolKey(Text(f, n), a, k) # L[j].request
      <4>1. /\ ClaudeKey(Text(f, n), (a + 1)..n, k) = ClaudeKey(L, (a + 1)..n, k)
            /\ ToolKey(Text(f, n), a, k) = ToolKey(L, a, k)
            /\ L[k].request = None =>
                 \A j \in DOMAIN L : L[j].request # None => ClaudeKey(Text(f, n), (a + 1)..n, k) # L[j].request
            /\ L[k].request = None =>
                 \A j \in DOMAIN L : L[j].request # None => ToolKey(Text(f, n), a, k) # L[j].request
        BY <1>1, <1>6, <3>2, ClaudeKeyIs
      <4>. QED BY <2>4, <3>1, <4>1
    <3>. QED BY <2>1, <3>3
  <2>. QED BY <2>2, <2>3, <2>4
<1>7. CASE Kind[f] \in {"cloud", "codex"}
  <2>1. PICK k \in DOMAIN Lines[f] : x.row = File[f].base + k
    BY <1>2, <1>3, <1>7 DEF MadeBy
  <2>. QED BY <1>5, <2>1
<1>. QED BY <1>1, <1>6, <1>7

(* A named line's event is a turn with an id.                              *)
LEMMA TurnIsIded ==
  ASSUME on \in Desks, NEW f \in Transcripts, NEW i \in Named(f), NEW x,
         RowOf(x) = LinesKey(f, i), x.output \in Nat, Output(f, i) <= x.output
  PROVE  FromIds(f, x) /\ ~ToolOnly(f, x)
<1>1. CASE Kind[f] # "claude"
  BY <1>1 DEF FromIds, ToolOnly
<1>2. CASE Kind[f] = "claude"
  <2>1. x.request = Lines[f][i].request /\ Lines[f][i].request # None
        /\ i \in Billed(Lines[f], DOMAIN Lines[f]) /\ i \in DOMAIN Lines[f]
    BY <1>2 DEF LinesKey, RowOf, Named, Billed
  <2>2. Writes(f)
    BY SourceIs DEF Transcripts
  <2>3. Output(f, i) > 0 /\ Output(f, i) \in Nat
    BY <1>2, <2>1, <2>2, OutputIs DEF Writes, ClaudeWrites, Output
  <2>4. x.output # 0
    BY <2>3
  <2>. QED BY <1>2, <2>1, <2>4 DEF FromIds, Ided, ToolOnly, IsTurn
<1>. QED BY <1>1, <1>2

(* The invariant says that the reads lose nothing.                         *)
LEMMA StoreLosesNothing == StoreInv => ReadsLoseNothing
<1>. SUFFICES ASSUME StoreInv, NEW f \in Transcripts
              PROVE  {Figure(e) : e \in {x \in Turns(events) : /\ File[f].base < x.row
                                               /\ x.row <= File[f].base + Len(Lines[f])
                                               /\ FromIds(f, x)}}
                     = {Figure(e) : e \in {x \in Turns(Whole(f)) : FromIds(f, x)}}
  BY DEF ReadsLoseNothing
<1>. DEFINE R == 1..read[f]
            W == Whole(f)
            A == {x \in Turns(events) : /\ File[f].base < x.row
                                        /\ x.row <= File[f].base + Len(Lines[f])
                                        /\ FromIds(f, x)}
            B == {x \in Turns(W) : FromIds(f, x)}
<1>1. /\ on \in Desks /\ ReadTyped /\ StoreTyped /\ StoreMade /\ HasRead(f) /\ HasOnly(f)
      /\ f \in on.sources
  BY DEF StoreInv, ReadsStand, Transcripts
<1>2. read[f] \in 0..Len(Lines[f]) /\ R \in SUBSET Nat
  BY <1>1, SourceIs DEF ReadTyped
<1>3. ReadSound(f, W, R)
  <2>1. LinesRead(f, 0, read[f]) = R
    BY DEF LinesRead
  <2>. QED BY <1>1, <1>2, <2>1, ParseIs DEF Whole
<1>4. /\ \A e \in W : /\ FromIds(f, e) /\ ~ToolOnly(f, e) => InRows(f, e)
                      /\ InRows(f, e) =>
                           \/ ToolOnly(f, e)
                           \/ \E i \in R : ShowsLine(f, i, e) /\ Leads(f, i, R)
                      /\ e.output \in Nat
      /\ \A j \in Named(f) \cap R :
           \E e \in W : RowOf(e) = LinesKey(f, j) /\ Output(f, j) <= e.output
  BY <1>3 DEF ReadSound, Sound, Filled
<1>5. /\ \A e \in events : /\ e.output \in Nat
                           /\ InRows(f, e) =>
                                \/ ToolOnly(f, e)
                                \/ \E i \in R : ShowsLine(f, i, e) /\ Leads(f, i, R)
      /\ \A j \in Named(f) \cap R :
           \E e \in events : RowOf(e) = LinesKey(f, j) /\ Output(f, j) <= e.output
  BY <1>1 DEF StoreTyped, Filled, HasRead, HasOnly
<1>. HIDE DEF W, R
<1>6. ASSUME NEW x \in A PROVE \E w \in B : Figure(w) = Figure(x)
  <2>1. x \in events /\ IsTurn(x) /\ InRows(f, x)
    BY DEF Turns, InRows
  <2>2. PICK i \in R : ShowsLine(f, i, x) /\ Leads(f, i, R)
    BY <1>5, <2>1 DEF ToolOnly
  <2>3. i \in Named(f)
    BY <2>2 DEF ShowsLine
  <2>4. PICK w \in W : RowOf(w) = LinesKey(f, i) /\ Output(f, i) <= w.output
    BY <1>4, <2>3
  <2>5. FromIds(f, w) /\ ~ToolOnly(f, w)
    BY <1>1, <1>4, <2>3, <2>4, TurnIsIded
  <2>6. PICK j \in R : ShowsLine(f, j, w) /\ Leads(f, j, R)
    BY <1>4, <2>5
  <2>7. LinesKey(f, i) = LinesKey(f, j)
    BY <2>4, <2>6 DEF ShowsLine
  <2>8. Figure(x) = Figure(w) /\ IsTurn(w)
    BY <1>1, <1>2, <2>1, <2>2, <2>6, <2>7, LeadersAgree
  <2>. QED BY <2>5, <2>8 DEF Turns
<1>7. ASSUME NEW w \in B PROVE \E x \in A : Figure(x) = Figure(w)
  <2>1. w \in W /\ IsTurn(w) /\ FromIds(f, w)
    BY DEF Turns
  <2>2. PICK i \in R : ShowsLine(f, i, w) /\ Leads(f, i, R)
    BY <1>4, <2>1 DEF ToolOnly
  <2>3. i \in Named(f)
    BY <2>2 DEF ShowsLine
  <2>4. PICK x \in events : RowOf(x) = LinesKey(f, i) /\ Output(f, i) <= x.output
    BY <1>5, <2>3
  <2>5. FromIds(f, x) /\ ~ToolOnly(f, x) /\ InRows(f, x)
    BY <1>1, <1>5, <2>3, <2>4, TurnIsIded, OwnRows
  <2>6. PICK j \in R : ShowsLine(f, j, x) /\ Leads(f, j, R)
    BY <1>5, <2>5
  <2>7. LinesKey(f, i) = LinesKey(f, j)
    BY <2>4, <2>6 DEF ShowsLine
  <2>8. Figure(x) = Figure(w) /\ IsTurn(x)
    BY <1>1, <1>2, <2>1, <2>2, <2>6, <2>7, LeadersAgree
  <2>. QED BY <2>5, <2>8 DEF Turns, InRows
<1>8. {Figure(e) : e \in A} = {Figure(e) : e \in B}
  <2>. HIDE DEF A, B
  <2>. QED BY <1>6, <1>7
<1>. QED BY <1>8 DEF W

(* However a transcript is cut into reads, and read again, the store has the *)
(* token figures that one read of the whole of it gives (the incremental   *)
(* parsers of internal/adapter over store.UpsertEvents).                   *)
THEOREM NothingIsLost == ViewsInit /\ [][ViewsNext]_viewVars => []ReadsLoseNothing
BY StoreIsSound, StoreLosesNothing, PTL

-----------------------------------------------------------------------------
(***************************************************************************)
(* The ticker (BuildTurns): its lines, each once and each of one turn.     *)
(***************************************************************************)
(* ORDER BY at puts events of different rows in a row.                     *)
LEMMA StoreOrderIs ==
  ASSUME NEW x, NEW y, NEW z, Filled(x), Filled(y), Filled(z)
  PROVE  /\ ~StoreOrder(x, x)
         /\ x.row # y.row => StoreOrder(x, y) \/ StoreOrder(y, x)
         /\ StoreOrder(x, y) /\ StoreOrder(y, z) => StoreOrder(x, z)
         /\ StoreOrder(x, y) => ~StoreOrder(y, x)
<1>. DEFINE a == AsText(x.at)
            b == AsText(y.at)
            c == AsText(z.at)
<1>1. a \in Int /\ b \in Int /\ c \in Int
  BY DEF Filled, AsText
<1>2. x.row \in Nat /\ y.row \in Nat /\ z.row \in Nat
  BY DEF Filled
<1>3. /\ StoreOrder(x, y) <=> a < b \/ (a = b /\ x.row < y.row)
      /\ StoreOrder(y, x) <=> b < a \/ (b = a /\ y.row < x.row)
      /\ StoreOrder(y, z) <=> b < c \/ (b = c /\ y.row < z.row)
      /\ StoreOrder(x, z) <=> a < c \/ (a = c /\ x.row < z.row)
      /\ StoreOrder(x, x) <=> a < a \/ (a = a /\ x.row < x.row)
  BY DEF StoreOrder
<1>. HIDE DEF a, b, c
<1>. QED BY <1>1, <1>2, <1>3

(* Some event comes first in that order.                                   *)
LEMMA FirstStored ==
  ASSUME NEW S, IsFiniteSet(S), S # {}, \A x \in S : Filled(x),
         \A x, y \in S : x.row = y.row => x = y
  PROVE  \E e \in S : \A d \in S : ~StoreOrder(d, e)
<1>. DEFINE R == {p \in S \X S : StoreOrder(p[1], p[2])}
            s == SortedBy(S, R)
            n == Cardinality(S)
<1>1. \A x, y \in S : <<x, y>> \in R <=> StoreOrder(x, y)
  OBVIOUS
<1>. HIDE DEF R
<1>2. Orders(R, S)
  BY <1>1, StoreOrderIs DEF Orders
<1>3. /\ s \in [1..n -> S] /\ \A x \in S : \E i \in 1..n : s[i] = x
      /\ \A i, j \in 1..n : i < j => <<s[i], s[j]>> \in R
  BY <1>2, SortedHas
<1>4. n \in Nat
  BY FS_CardinalityType
<1>. HIDE DEF s, n
<1>5. 1 \in 1..n
  <2>1. PICK x \in S : TRUE
    OBVIOUS
  <2>2. PICK i \in 1..n : s[i] = x
    BY <1>3
  <2>. QED BY <2>2, <1>4
<1>6. s[1] \in S
  BY <1>3, <1>5
<1>7. ASSUME NEW d \in S PROVE ~StoreOrder(d, s[1])
  <2>1. PICK j \in 1..n : s[j] = d
    BY <1>3
  <2>2. CASE j = 1
    BY <2>1, <2>2, <1>6, StoreOrderIs
  <2>3. CASE 1 < j
    <3>1. StoreOrder(s[1], d)
      BY <1>1, <1>3, <1>5, <1>6, <2>1, <2>3
    <3>. QED BY <3>1, <1>6, StoreOrderIs
  <2>. QED BY <2>2, <2>3, <1>4
<1>. QED BY <1>6, <1>7

(* The turns of one session.                                               *)
TurnSet(es, k) == {e \in Turns(es) : KeyOf(e) = k}
(* The lines BuildTurns puts in order.                                     *)
TickerLines(rows, c) ==
  UNION {{TickerLine(c, TurnsOf(rows, k), i) : i \in DOMAIN TurnsOf(rows, k)} :
            k \in {KeyOf(e) : e \in rows}}

(* A session's turns in order: each once.                                  *)
LEMMA TurnsAre ==
  ASSUME NEW es, IsFiniteSet(es), \A x \in es : Filled(x),
         \A x, y \in es : x.row = y.row => x = y, NEW k
  PROVE  LET A == TurnSet(es, k)
             ts == TurnsOf(es, k)
         IN /\ IsFiniteSet(A) /\ Cardinality(A) \in Nat
            /\ ts = InOrder(A) /\ ts \in [1..Cardinality(A) -> A] /\ DOMAIN ts = 1..Cardinality(A)
            /\ Len(ts) = Cardinality(A) /\ Elems(ts) = A
            /\ \A i, j \in DOMAIN ts : i < j => ts[i].at <= ts[j].at
<1>. DEFINE A == TurnSet(es, k)
            ts == TurnsOf(es, k)
            n == Cardinality(A)
<1>1. A \subseteq es
  BY DEF Turns, TurnSet
<1>2. ts = InOrder(A)
  BY DEF TurnsOf, TurnSet
<1>. HIDE DEF A
<1>3. IsFiniteSet(A) /\ n \in Nat
  BY <1>1, FS_Subset, FS_CardinalityType
<1>4. \A x \in A : x.at \in Int /\ x.row \in Int
  BY <1>1 DEF Filled
<1>5. \A x, y \in A : x.row = y.row => x = y
  BY <1>1
<1>6. /\ InOrder(A) \in [1..n -> A] /\ \A x \in A : \E i \in 1..n : InOrder(A)[i] = x
      /\ \A i, j \in 1..n : i < j => InOrder(A)[i].at <= InOrder(A)[j].at
  BY <1>3, <1>4, <1>5, EventOrder
<1>. HIDE DEF ts, n
<1>7. /\ ts \in [1..n -> A] /\ \A x \in A : \E i \in 1..n : ts[i] = x
      /\ \A i, j \in 1..n : i < j => ts[i].at <= ts[j].at
  BY <1>2, <1>6
<1>8. DOMAIN ts = 1..n
  BY <1>7
<1>9. Elems(ts) = A
  BY <1>7, <1>8 DEF Elems
<1>10. Len(ts) = n
  <2>1. ts \in Seq(A)
    BY <1>3, <1>7
  <2>. QED BY <2>1, <1>8, <1>3, LenProperties
<1>. QED BY <1>2, <1>3, <1>7, <1>8, <1>9, <1>10 DEF A, ts, n

(* The ticker's lines are in a row, so its sequence has them all.          *)
LEMMA TickerHas ==
  ASSUME NEW es, IsFiniteSet(es), \A x \in es : Filled(x),
         \A x, y \in es : x.row = y.row => x = y, NEW c, NEW from, NEW now
  PROVE  LET lines == TickerLines(Charted(es, from, now), c)
             ticker == BuildTurns(es, c, from, now, 0)
         IN /\ IsFiniteSet(lines) /\ ticker \in [1..Cardinality(lines) -> lines]
            /\ \A l \in lines : \E i \in 1..Cardinality(lines) : ticker[i] = l
            /\ \A i, j \in 1..Cardinality(lines) : ticker[i] = ticker[j] => i = j
            /\ \A l \in lines : l.at \in Int
<1>. DEFINE rows == Charted(es, from, now)
            keyof == [e \in rows |-> KeyOf(e)]
            keys == {KeyOf(e) : e \in rows}
            Ts(k) == TurnsOf(rows, k)
            OfKey(k) == {TickerLine(c, Ts(k), i) : i \in DOMAIN Ts(k)}
            lines == UNION {OfKey(k) : k \in keys}
            FirstRow(k) == CHOOSE e \in rows :
                KeyOf(e) = k /\ \A d \in rows : KeyOf(d) = k => ~StoreOrder(d, e)
            Before(a, b) ==
                \/ a.at > b.at
                \/ a.at = b.at /\ a.key # b.key /\ StoreOrder(FirstRow(a.key), FirstRow(b.key))
                \/ a.at = b.at /\ a.key = b.key /\ a.turn < b.turn
            R == {p \in lines \X lines : Before(p[1], p[2])}
            ticker == BuildTurns(es, c, from, now, 0)
<1>0. keys = {keyof[e] : e \in rows}
  OBVIOUS
<1>1. ticker = SortedBy(lines, R)
  <2>1. ticker = Capped(SortedBy(lines, R), 0)
    BY DEF BuildTurns, Sorted
  <2>. HIDE DEF lines, R, ticker
  <2>. QED BY <2>1 DEF Capped
<1>2. rows \subseteq es /\ Turns(rows) = rows
  BY DEF Charted, Turns
<1>. HIDE DEF rows, ticker
<1>3. IsFiniteSet(rows) /\ (\A x \in rows : Filled(x)) /\ (\A x, y \in rows : x.row = y.row => x = y)
  BY <1>2, FS_Subset
<1>4. IsFiniteSet(keys)
  <2>. HIDE DEF keyof, keys
  <2>. QED BY <1>0, <1>3, ImageFinite
<1>5. ASSUME NEW k \in keys
      PROVE  /\ FirstRow(k) \in rows /\ KeyOf(FirstRow(k)) = k
             /\ IsFiniteSet(DOMAIN Ts(k)) /\ DOMAIN Ts(k) \subseteq Nat
             /\ \A i \in DOMAIN Ts(k) : /\ Ts(k)[i] \in rows /\ KeyOf(Ts(k)[i]) = k
                                        /\ AsSecond(Ts(k)[i].at) \in Int
  <2>. DEFINE S == {e \in rows : KeyOf(e) = k}
  <2>1. S # {} /\ S \subseteq rows
    OBVIOUS
  <2>. HIDE DEF S
  <2>2. IsFiniteSet(S) /\ (\A x \in S : Filled(x)) /\ (\A x, y \in S : x.row = y.row => x = y)
    BY <2>1, <1>3, FS_Subset
  <2>3. \E e \in S : \A d \in S : ~StoreOrder(d, e)
    BY <2>1, <2>2, FirstStored
  <2>4. \E e \in rows : KeyOf(e) = k /\ \A d \in rows : KeyOf(d) = k => ~StoreOrder(d, e)
    BY <2>3 DEF S
  <2>5. FirstRow(k) \in rows /\ KeyOf(FirstRow(k)) = k
    BY <2>4
  <2>6. /\ Cardinality(S) \in Nat /\ DOMAIN Ts(k) = 1..Cardinality(S)
        /\ Ts(k) \in [1..Cardinality(S) -> S]
    <3>1. S = TurnSet(rows, k)
      <4>1. TurnSet(rows, k) = {e \in Turns(rows) : KeyOf(e) = k}
        BY DEF TurnSet
      <4>2. Turns(rows) = rows
        BY <1>2
      <4>. QED BY <4>1, <4>2 DEF S
    <3>. HIDE DEF S
    <3>. QED BY <3>1, <1>3, TurnsAre
  <2>7. \A i \in DOMAIN Ts(k) : Ts(k)[i] \in S
    <3>. HIDE DEF Ts
    <3>. QED BY <2>6
  <2>8. IsFiniteSet(DOMAIN Ts(k)) /\ DOMAIN Ts(k) \subseteq Nat
    <3>. HIDE DEF Ts
    <3>. QED BY <2>6, FS_Interval
  <2>9. \A x \in S : x \in rows /\ KeyOf(x) = k /\ AsSecond(x.at) \in Int
    <3>1. \A x \in S : x \in rows /\ KeyOf(x) = k
      BY DEF S
    <3>2. \A x \in rows : x.at \in Nat
      BY <1>3 DEF Filled
    <3>. QED BY <3>1, <3>2 DEF AsSecond
  <2>. HIDE DEF Ts, FirstRow
  <2>. QED BY <2>5, <2>7, <2>8, <2>9
<1>6. \A k \in keys : IsFiniteSet(OfKey(k))
  <2>1. SUFFICES ASSUME NEW k \in keys PROVE IsFiniteSet(OfKey(k))
    OBVIOUS
  <2>. DEFINE D == DOMAIN Ts(k)
              g == [i \in D |-> TickerLine(c, Ts(k), i)]
  <2>2. OfKey(k) = {g[i] : i \in D}
    OBVIOUS
  <2>3. IsFiniteSet(D)
    BY <1>5
  <2>. HIDE DEF D, g, OfKey
  <2>. QED BY <2>2, <2>3, ImageFinite
<1>7. IsFiniteSet(lines)
  <2>. DEFINE h == [k \in keys |-> OfKey(k)]
              T == {h[k] : k \in keys}
  <2>1. T = {OfKey(k) : k \in keys}
    OBVIOUS
  <2>2. IsFiniteSet(T)
    <3>. HIDE DEF h, keys
    <3>. QED BY <1>4, ImageFinite
  <2>3. \A t \in T : IsFiniteSet(t)
    BY <1>6, <2>1
  <2>4. lines = UNION T
    BY <2>1
  <2>. HIDE DEF T, lines
  <2>. QED BY <2>2, <2>3, <2>4, FS_UNION
<1>8. \A l \in lines :
        /\ l.key \in keys /\ l.turn \in DOMAIN Ts(l.key) /\ l.turn \in Nat /\ l.at \in Int
        /\ l = TickerLine(c, Ts(l.key), l.turn)
  <2>1. SUFFICES ASSUME NEW k \in keys, NEW i \in DOMAIN Ts(k), NEW l, l = TickerLine(c, Ts(k), i)
                 PROVE  /\ l.key \in keys /\ l.turn \in DOMAIN Ts(l.key) /\ l.turn \in Nat
                        /\ l.at \in Int /\ l = TickerLine(c, Ts(l.key), l.turn)
    OBVIOUS
  <2>2. l.key = KeyOf(Ts(k)[i]) /\ l.turn = i /\ l.at = AsSecond(Ts(k)[i].at)
    BY <2>1 DEF TickerLine
  <2>3. l.key = k /\ l.at \in Int /\ i \in Nat
    BY <1>5, <2>2
  <2>. HIDE DEF Ts
  <2>. QED BY <2>1, <2>2, <2>3
<1>9. \A x, y \in lines : <<x, y>> \in R <=> Before(x, y)
  <2>. HIDE DEF Before, lines
  <2>. QED OBVIOUS
<1>10. \A j, k \in keys : j # k =>
          /\ StoreOrder(FirstRow(j), FirstRow(k)) \/ StoreOrder(FirstRow(k), FirstRow(j))
  <2>1. SUFFICES ASSUME NEW j \in keys, NEW k \in keys, j # k
                 PROVE StoreOrder(FirstRow(j), FirstRow(k)) \/ StoreOrder(FirstRow(k), FirstRow(j))
    OBVIOUS
  <2>. DEFINE x == FirstRow(j)
              y == FirstRow(k)
  <2>2. x \in rows /\ y \in rows /\ x # y
    <3>1. x \in rows /\ KeyOf(x) = j
      BY <1>5
    <3>2. y \in rows /\ KeyOf(y) = k
      BY <1>5
    <3>. HIDE DEF x, y
    <3>. QED BY <2>1, <3>1, <3>2
  <2>. HIDE DEF x, y
  <2>3. StoreOrder(x, y) \/ StoreOrder(y, x)
    BY <1>3, <2>2, StoreOrderIs
  <2>. QED BY <2>3 DEF x, y
<1>11. \A i, j, k \in keys :
          /\ ~StoreOrder(FirstRow(i), FirstRow(i))
          /\ StoreOrder(FirstRow(i), FirstRow(j)) /\ StoreOrder(FirstRow(j), FirstRow(k))
                => StoreOrder(FirstRow(i), FirstRow(k))
  <2>1. \A k \in keys : Filled(FirstRow(k))
    BY <1>3, <1>5
  <2>. HIDE DEF FirstRow
  <2>. QED BY <2>1, StoreOrderIs
<1>12. Orders(R, lines)
  <2>. HIDE DEF lines, R, FirstRow, Ts, keys
  <2>1. \A x \in lines : ~Before(x, x)
    BY <1>8
  <2>2. ASSUME NEW x \in lines, NEW y \in lines, x # y
        PROVE  Before(x, y) \/ Before(y, x)
    <3>1. CASE x.at # y.at
      BY <1>8, <3>1
    <3>2. CASE x.at = y.at /\ x.key # y.key
      BY <1>8, <1>10, <3>2
    <3>3. CASE x.at = y.at /\ x.key = y.key
      <4>1. x.turn # y.turn
        BY <1>8, <2>2, <3>3
      <4>2. x.turn \in Nat /\ y.turn \in Nat
        BY <1>8
      <4>. QED BY <3>3, <4>1, <4>2
    <3>. QED BY <3>1, <3>2, <3>3
  <2>3. ASSUME NEW x \in lines, NEW y \in lines, NEW z \in lines, Before(x, y), Before(y, z)
        PROVE  Before(x, z)
    <3>. DEFINE So(i, j) == StoreOrder(FirstRow(i), FirstRow(j))
    <3>1. /\ x.at \in Int /\ y.at \in Int /\ z.at \in Int
          /\ x.turn \in Nat /\ y.turn \in Nat /\ z.turn \in Nat
          /\ x.key \in keys /\ y.key \in keys /\ z.key \in keys
      BY <1>8
    <3>2. /\ ~So(x.key, x.key) /\ (So(x.key, y.key) /\ So(y.key, z.key) => So(x.key, z.key))
      BY <1>11, <3>1
    <3>3. /\ \/ x.at > y.at
             \/ x.at = y.at /\ x.key # y.key /\ So(x.key, y.key)
             \/ x.at = y.at /\ x.key = y.key /\ x.turn < y.turn
          /\ \/ y.at > z.at
             \/ y.at = z.at /\ y.key # z.key /\ So(y.key, z.key)
             \/ y.at = z.at /\ y.key = z.key /\ y.turn < z.turn
      BY <2>3
    <3>. HIDE DEF So
    <3>4. \/ x.at > z.at
          \/ x.at = z.at /\ x.key # z.key /\ So(x.key, z.key)
          \/ x.at = z.at /\ x.key = z.key /\ x.turn < z.turn
      BY <3>1, <3>2, <3>3
    <3>. QED BY <3>4 DEF So
  <2>. HIDE DEF Before
  <2>. QED BY <1>9, <2>1, <2>2, <2>3 DEF Orders
<1>. DEFINE n == Cardinality(lines)
<1>13. /\ ticker \in [1..n -> lines] /\ \A l \in lines : \E i \in 1..n : ticker[i] = l
       /\ \A i, j \in 1..n : i < j => <<ticker[i], ticker[j]>> \in R
  <2>. HIDE DEF lines, R
  <2>. QED BY <1>1, <1>7, <1>12, SortedHas
<1>14. n \in Nat
  BY <1>7, FS_CardinalityType
<1>15. \A i, j \in 1..n : ticker[i] = ticker[j] => i = j
  <2>. HIDE DEF lines, R, n
  <2>1. SUFFICES ASSUME NEW i \in 1..n, NEW j \in 1..n, ticker[i] = ticker[j], i < j PROVE FALSE
    BY <1>14
  <2>2. <<ticker[i], ticker[i]>> \in R /\ ticker[i] \in lines
    BY <1>13, <2>1
  <2>. QED BY <2>2, <1>12 DEF Orders
<1>16. lines = TickerLines(rows, c)
  BY DEF TickerLines
<1>17. \A l \in lines : l.at \in Int
  BY <1>8
<1>. HIDE DEF lines, n
<1>. QED BY <1>7, <1>13, <1>15, <1>16, <1>17 DEF rows, n, ticker

(* The invariant says that the drawer opens on the line's turn.            *)
LEMMA StoreOpens == StoreInv => DrawerMatchesTicker
<1>. SUFFICES ASSUME StoreInv, NEW l \in Elems(Ticker),
                     \A e \in Turns(EventsForSession(events, l.key[2])) :
                        KeyOf(e) = l.key /\ e \in Charted(Recent, Window, Now)
              PROVE  /\ IsOf(l, BuildTurnDetail(events, calls, cfg, l.key[2], l.turn))
                     /\ FirstAt(BuildSessionInsight(events, cfg, l.key[2]), l.turn) = l.finding
  BY DEF DrawerMatchesTicker
<1>. DEFINE rows == Charted(Recent, Window, Now)
            lines == TickerLines(rows, cfg)
<1>1. /\ IsFiniteSet(events) /\ (\A x \in events : Filled(x))
      /\ \A x, y \in events : x.row = y.row => x = y
  BY RowsApart DEF StoreInv, StoreTyped
<1>2. Recent \subseteq events
  BY DEF Recent, RecentAt, EventsSince
<1>3. /\ IsFiniteSet(Recent) /\ (\A x \in Recent : Filled(x))
      /\ \A x, y \in Recent : x.row = y.row => x = y
  BY <1>1, <1>2, FS_Subset
<1>4. Ticker \in [1..Cardinality(lines) -> lines]
  <2>. HIDE DEF Recent
  <2>. QED BY <1>3, TickerHas DEF Ticker
<1>5. l \in lines
  <2>. HIDE DEF lines
  <2>. QED BY <1>4 DEF Elems
<1>6. PICK k \in {KeyOf(e) : e \in rows} :
         \E i \in DOMAIN TurnsOf(rows, k) : l = TickerLine(cfg, TurnsOf(rows, k), i)
  <2>. HIDE DEF rows
  <2>. QED BY <1>5 DEF TickerLines
<1>. DEFINE A == TurnSet(rows, k)
            ts == TurnsOf(rows, k)
            B == Turns(EventsForSession(events, k[2]))
<1>7. rows \subseteq Recent
  BY DEF Charted, Turns
<1>8. /\ IsFiniteSet(rows) /\ (\A x \in rows : Filled(x))
      /\ \A x, y \in rows : x.row = y.row => x = y
  <2>. HIDE DEF rows
  <2>. QED BY <1>3, <1>7, FS_Subset
<1>9. /\ Cardinality(A) \in Nat /\ ts = InOrder(A) /\ ts \in [1..Cardinality(A) -> A]
      /\ Len(ts) = Cardinality(A) /\ Elems(ts) = A /\ DOMAIN ts = 1..Cardinality(A)
  <2>. HIDE DEF rows
  <2>. QED BY <1>8, TurnsAre
<1>i. PICK i \in DOMAIN ts : l = TickerLine(cfg, ts, i)
  BY <1>6
<1>10. l.key = KeyOf(ts[i]) /\ l.turn = i /\ l.at = AsSecond(ts[i].at) /\ l.counts = Classes({ts[i]})
       /\ l.finding = FirstAt(Analyze(Elems(ts), cfg), i)
  <2>. HIDE DEF ts
  <2>. QED BY <1>i DEF TickerLine
<1>11. ts[i] \in A /\ i \in 1..Len(ts)
  <2>. HIDE DEF A, rows, ts
  <2>. QED BY <1>i, <1>9
<1>12. l.key = k
  BY <1>10, <1>11 DEF TurnSet
<1>13. A = B
  <2>1. \A e \in A : e \in B
    <3>1. A \subseteq rows /\ \A e \in A : IsTurn(e) /\ e.session = k[2]
      BY DEF Turns, KeyOf, TurnSet
    <3>2. A \subseteq events
      BY <3>1, <1>7, <1>2
    <3>. HIDE DEF A
    <3>. QED BY <3>1, <3>2 DEF Turns, EventsForSession
  <2>2. \A e \in B : e \in A
    BY <1>12 DEF Turns, TurnSet, Charted
  <2>. HIDE DEF A, B
  <2>. QED BY <2>1, <2>2
<1>14. Turns(A) = A
  BY DEF Turns, TurnSet
<1>. HIDE DEF A, B, ts, rows, lines
<1>15. BuildTurnDetail(events, calls, cfg, k[2], i)[1].key = KeyOf(ts[i])
       /\ BuildTurnDetail(events, calls, cfg, k[2], i)[1].at = AsSecond(ts[i].at)
       /\ BuildTurnDetail(events, calls, cfg, k[2], i)[1].counts = Classes({ts[i]})
       /\ BuildTurnDetail(events, calls, cfg, k[2], i) # <<>>
  BY <1>9, <1>11, <1>13 DEF BuildTurnDetail, B
<1>16. IsOf(l, BuildTurnDetail(events, calls, cfg, k[2], i))
  BY <1>10, <1>15 DEF IsOf
<1>17. BuildSessionInsight(events, cfg, k[2]) = Analyze(Elems(ts), cfg)
  BY <1>9, <1>13, <1>14 DEF BuildSessionInsight, Analyze, B
<1>. QED BY <1>10, <1>12, <1>16, <1>17

(* The drawer opened from a line of the ticker is about that line's turn,  *)
(* and the session's insight has the line's finding, when all the session's *)
(* turns are in the ticker (BuildTurns, BuildTurnDetail, BuildSessionInsight). *)
THEOREM DrawerIsTheLine == ViewsInit /\ [][ViewsNext]_viewVars => []DrawerMatchesTicker
BY StoreIsSound, StoreOpens, PTL

-----------------------------------------------------------------------------
(***************************************************************************)
(* Tool calls.  Of the lines of a transcript read so far, the store has    *)
(* every call (HasCalls), as its last line tells it and with the result    *)
(* those lines bring, and none besides (OnlyCalls).                        *)
(***************************************************************************)
(* The vendor a transcript's calls carry.                                  *)
CallVendor(f) == IF Kind[f] = "codex" THEN "openai" ELSE "anthropic"
(* A record with a tool call's fields and no others.                       *)
IsCall(c) ==
  c = [vendor |-> c.vendor, session |-> c.session, call |-> c.call, turn |-> c.turn,
       tool |-> c.tool, at |-> c.at, result |-> c.result]

(* No line of P after i makes the call k again.                            *)
LastUse(f, P, i, k) == \A j \in P : i < j => \A u \in UsesAt(f, j) : u.call # k

(* r is the result that the lines P bring for the call k, or Nil.          *)
ResultIs(f, P, k, r) ==
  \/ r = Nil /\ \A j \in P : \A g \in GotAt(f, j) : g.call # k
  \/ \E j \in P : \E g \in GotAt(f, j) : g.call = k /\ r = g.bytes

(* c is the call u of line i as the lines P tell it.                       *)
ShowsCall(f, P, i, u, c) ==
  /\ i \in P /\ u \in UsesAt(f, i) /\ LastUse(f, P, i, u.call)
  /\ CallOf(c) = <<CallVendor(f), File[f].session, u.call>>
  /\ c.tool = u.tool /\ c.at = Lines[f][i].at /\ ResultIs(f, P, u.call, c.result)

(* cs has every call that the lines P make ...                             *)
HasCalls(cs, f, P) ==
  \A i \in P : \A u \in UsesAt(f, i) :
    \E c \in cs : CallOf(c) = <<CallVendor(f), File[f].session, u.call>>
(* ... and what it has of the transcript is as those lines tell it.        *)
OnlyCalls(cs, f, P) ==
  \A c \in cs : KeyOf(c) \in SessionsOf(f) =>
    \E i \in P : \E u \in UsesAt(f, i) : ShowsCall(f, P, i, u, c)

(* The table's primary key.                                                *)
OnePerCall(cs) == \A c, d \in cs : CallOf(c) = CallOf(d) => c = d
(* Every call is a transcript's.                                           *)
CallsMade == \A c \in calls : /\ IsCall(c)
                              /\ \E f \in on.sources : /\ Kind[f] \in {"claude", "codex"}
                                                       /\ KeyOf(c) = <<CallVendor(f), File[f].session>>
(* Both, for every transcript.                                             *)
CallsStand == \A f \in Transcripts : HasCalls(calls, f, 1..read[f]) /\ OnlyCalls(calls, f, 1..read[f])
(* The inductive invariant of the table of tool calls.                     *)
CallsInv == IsFiniteSet(calls) /\ CallsMade /\ OnePerCall(calls) /\ CallsStand

(* PairCalls, from the uses and the results of its lines.                  *)
PairedFrom(vendor, session, ls, used, got) ==
    LET Uses(c) == {x[1] : x \in {y \in used : y[2].call = c}}
        After(c, i) == {x \in got : x[2].call = c /\ x[1] > i}
        Bytes(c, i) == IF After(c, i) = {} THEN Nil
                       ELSE (CHOOSE x \in After(c, i) :
                                \A y \in After(c, i) : y[1] <= x[1])[2].bytes
    IN {CallRow(vendor, session, x[2].call, x[2].turn, x[2].tool, ls[x[1]].at,
                Bytes(x[2].call, x[1])) :
                x \in {y \in used : y[1] = Max(Uses(y[2].call))}}
       \cup {CallRow(vendor, session, x[2].call, None, None, 0, x[2].bytes) :
                x \in {y \in got : ~\E i \in Uses(y[2].call) : i < y[1]}}

(* r is the result got has for the call k, or Nil.                         *)
BringsIs(got, k, r) ==
  \/ r = Nil /\ \A y \in got : y[2].call # k
  \/ \E y \in got : y[2].call = k /\ r = y[2].bytes

(* PairCalls gives each call once, at its last use and with its result,    *)
(* and a row of the result alone when the call is in an earlier read.      *)
LEMMA PairsAre ==
  ASSUME NEW vendor, NEW session, NEW ls, NEW used, NEW got, IsFiniteSet(used), IsFiniteSet(got),
         \A x \in used : x[1] \in Int /\ x[2].tool # None,
         \A y \in got : y[1] \in Int /\ y[2].bytes \in Nat,
         \A x, y \in used : x[1] = y[1] /\ x[2].call = y[2].call => x = y,
         \A x \in used, y \in got : x[2].call = y[2].call => x[1] < y[1],
         \A y, z \in got : y[2].call = z[2].call => y[2].bytes = z[2].bytes
  PROVE  LET N == PairedFrom(vendor, session, ls, used, got)
             IsLast(x) == \A z \in used : z[2].call = x[2].call => z[1] <= x[1]
         IN /\ IsFiniteSet(N)
            /\ \A c \in N : IsCall(c) /\ c.vendor = vendor /\ c.session = session
            /\ \A c \in N : c.tool # None =>
                 \E x \in used : /\ IsLast(x) /\ c.call = x[2].call /\ c.tool = x[2].tool
                                 /\ c.at = ls[x[1]].at /\ BringsIs(got, x[2].call, c.result)
            /\ \A c \in N : c.tool = None => \E y \in got : c.call = y[2].call /\ c.result = y[2].bytes
            /\ \A x \in used : \E c \in N : c.tool # None /\ c.call = x[2].call
            /\ \A y \in got : (\A x \in used : x[2].call # y[2].call) =>
                 \E c \in N : c.tool = None /\ c.call = y[2].call
            /\ \A c, d \in N : c.tool # None /\ d.tool # None /\ c.call = d.call => c = d
<1>. DEFINE IsLast(x) == \A z \in used : z[2].call = x[2].call => z[1] <= x[1]
            Uses(c) == {x[1] : x \in {y \in used : y[2].call = c}}
            After(c, i) == {x \in got : x[2].call = c /\ x[1] > i}
            Bytes(c, i) == IF After(c, i) = {} THEN Nil
                           ELSE (CHOOSE x \in After(c, i) :
                                    \A y \in After(c, i) : y[1] <= x[1])[2].bytes
            U == {y \in used : y[1] = Max(Uses(y[2].call))}
            G == {y \in got : ~\E i \in Uses(y[2].call) : i < y[1]}
            u(x) == CallRow(vendor, session, x[2].call, x[2].turn, x[2].tool, ls[x[1]].at,
                            Bytes(x[2].call, x[1]))
            g(x) == CallRow(vendor, session, x[2].call, None, None, 0, x[2].bytes)
            N == PairedFrom(vendor, session, ls, used, got)
<1>1. N = {u(x) : x \in U} \cup {g(x) : x \in G}
  BY DEF PairedFrom
<1>2. \A x \in used : IsFiniteSet(Uses(x[2].call)) /\ Uses(x[2].call) \in SUBSET Int /\ x[1] \in Uses(x[2].call)
  <2>1. SUFFICES ASSUME NEW x \in used
                 PROVE  IsFiniteSet(Uses(x[2].call)) /\ Uses(x[2].call) \in SUBSET Int /\ x[1] \in Uses(x[2].call)
    OBVIOUS
  <2>. DEFINE S == {y \in used : y[2].call = x[2].call}
              f == [y \in S |-> y[1]]
  <2>2. IsFiniteSet(S)
    BY FS_Subset
  <2>3. Uses(x[2].call) = {f[y] : y \in S}
    OBVIOUS
  <2>4. IsFiniteSet({f[y] : y \in S})
    <3>. HIDE DEF S, f
    <3>. QED BY <2>2, ImageFinite
  <2>5. Uses(x[2].call) \in SUBSET Int /\ x[1] \in Uses(x[2].call)
    OBVIOUS
  <2>. QED BY <2>3, <2>4, <2>5
<1>3. \A x \in used : Max(Uses(x[2].call)) \in Uses(x[2].call)
                      /\ \A i \in Uses(x[2].call) : i <= Max(Uses(x[2].call))
  <2>. HIDE DEF Uses
  <2>. QED BY <1>2, MaxIs
<1>4. \A x \in used : \A z \in used : z[2].call = x[2].call => z[1] \in Uses(x[2].call)
  OBVIOUS
<1>5. \A x \in U : x \in used /\ IsLast(x)
  BY <1>3, <1>4
<1>6. \A x \in used : \E z \in U : z[2].call = x[2].call
  <2>1. SUFFICES ASSUME NEW x \in used PROVE \E z \in U : z[2].call = x[2].call
    OBVIOUS
  <2>2. PICK z \in used : z[2].call = x[2].call /\ z[1] = Max(Uses(x[2].call))
    BY <1>3
  <2>3. Uses(z[2].call) = Uses(x[2].call)
    BY <2>2
  <2>. HIDE DEF Uses
  <2>. QED BY <2>2, <2>3
<1>7. \A x, z \in U : x[2].call = z[2].call => x = z
  <2>. HIDE DEF Uses
  <2>. QED OBVIOUS
<1>8. \A x \in U : BringsIs(got, x[2].call, Bytes(x[2].call, x[1]))
  <2>1. SUFFICES ASSUME NEW x \in used PROVE BringsIs(got, x[2].call, Bytes(x[2].call, x[1]))
    BY <1>5
  <2>. DEFINE A == After(x[2].call, x[1])
  <2>2. A = {y \in got : y[2].call = x[2].call}
    OBVIOUS
  <2>3. CASE A = {}
    BY <2>2, <2>3 DEF BringsIs
  <2>4. CASE A # {}
    <3>. DEFINE T == {y[1] : y \in A}
                f == [y \in A |-> y[1]]
    <3>1. IsFiniteSet(A) /\ A \subseteq got
      BY FS_Subset
    <3>2. T = {f[y] : y \in A}
      OBVIOUS
    <3>3. T \in SUBSET Int /\ T # {}
      BY <2>4
    <3>. HIDE DEF A, f, T
    <3>4. IsFiniteSet(T)
      BY <3>1, <3>2, ImageFinite
    <3>5. Max(T) \in T /\ \A i \in T : i <= Max(T)
      BY <3>3, <3>4, MaxIs
    <3>6. \E y \in A : \A z \in A : z[1] <= y[1]
      BY <3>5 DEF T
    <3>7. PICK y \in A : Bytes(x[2].call, x[1]) = y[2].bytes
      <4>. DEFINE y == CHOOSE y \in A : \A z \in A : z[1] <= y[1]
      <4>1. y \in A
        BY <3>6
      <4>2. Bytes(x[2].call, x[1]) = y[2].bytes
        BY <2>4 DEF A
      <4>. HIDE DEF y, Bytes
      <4>. QED BY <4>1, <4>2
    <3>. HIDE DEF Bytes
    <3>. QED BY <2>2, <3>7 DEF BringsIs
  <2>. QED BY <2>3, <2>4
<1>9. \A y \in got : (\A x \in used : x[2].call # y[2].call) => y \in G
  OBVIOUS
<1>10. G \subseteq got /\ IsFiniteSet(G) /\ IsFiniteSet(U)
  <2>1. G \subseteq got /\ U \subseteq used
    OBVIOUS
  <2>. HIDE DEF G, U
  <2>. QED BY <2>1, FS_Subset
<1>11. IsFiniteSet(N)
  <2>. DEFINE fu == [x \in U |-> u(x)]
              fg == [x \in G |-> g(x)]
  <2>1. N = {fu[x] : x \in U} \cup {fg[x] : x \in G}
    BY <1>1
  <2>. HIDE DEF fu, fg, N, U, G
  <2>2. IsFiniteSet({fu[x] : x \in U}) /\ IsFiniteSet({fg[x] : x \in G})
    BY <1>10, ImageFinite
  <2>. QED BY <2>1, <2>2, FS_Union
<1>12. \A x : /\ u(x).vendor = vendor /\ u(x).session = session /\ u(x).call = x[2].call
              /\ u(x).tool = x[2].tool /\ u(x).at = ls[x[1]].at
              /\ u(x).result = Bytes(x[2].call, x[1]) /\ IsCall(u(x))
              /\ g(x).vendor = vendor /\ g(x).session = session /\ g(x).call = x[2].call
              /\ g(x).tool = None /\ g(x).result = x[2].bytes /\ IsCall(g(x))
  <2>. HIDE DEF Bytes
  <2>. QED BY DEF CallRow, IsCall
<1>. HIDE DEF u, g, U, G, Bytes, Uses, After
<1>a. \A x \in U : /\ u(x).tool = x[2].tool /\ u(x).call = x[2].call
                    /\ x \in used /\ x[2].tool # None
  BY <1>5, <1>12
<1>b. \A x \in G : g(x).tool = None /\ g(x).call = x[2].call /\ g(x).result = x[2].bytes /\ x \in got
  BY <1>10, <1>12
<1>13. \A c \in N : (\E x \in U : c = u(x)) \/ (\E y \in G : c = g(y))
  BY <1>1
<1>14. \A x \in U : u(x) \in N
  BY <1>1
<1>15. \A x \in G : g(x) \in N
  BY <1>1
<1>. HIDE DEF N
<1>16. \A c \in N : IsCall(c) /\ c.vendor = vendor /\ c.session = session
  BY <1>12, <1>13
<1>17. \A c \in N : c.tool # None =>
                 \E x \in used : /\ IsLast(x) /\ c.call = x[2].call /\ c.tool = x[2].tool
                                 /\ c.at = ls[x[1]].at /\ BringsIs(got, x[2].call, c.result)
  <2>1. SUFFICES ASSUME NEW c \in N, c.tool # None
                 PROVE  \E x \in used : /\ IsLast(x) /\ c.call = x[2].call /\ c.tool = x[2].tool
                                 /\ c.at = ls[x[1]].at /\ BringsIs(got, x[2].call, c.result)
    OBVIOUS
  <2>2. PICK x \in U : c = u(x)
    BY <2>1, <1>b, <1>13
  <2>3. x \in used /\ IsLast(x) /\ BringsIs(got, x[2].call, c.result)
    BY <2>2, <1>5, <1>8, <1>12
  <2>. HIDE DEF IsLast
  <2>. QED BY <2>2, <2>3, <1>12
<1>18. \A c \in N : c.tool = None => \E y \in got : c.call = y[2].call /\ c.result = y[2].bytes
  <2>1. SUFFICES ASSUME NEW c \in N, c.tool = None
                 PROVE  \E y \in got : c.call = y[2].call /\ c.result = y[2].bytes
    OBVIOUS
  <2>2. ~\E x \in U : c = u(x)
    BY <2>1, <1>a
  <2>3. PICK y \in G : c = g(y)
    BY <2>2, <1>13
  <2>. QED BY <2>3, <1>b
<1>19. \A x \in used : \E c \in N : c.tool # None /\ c.call = x[2].call
  <2>1. SUFFICES ASSUME NEW x \in used PROVE \E c \in N : c.tool # None /\ c.call = x[2].call
    OBVIOUS
  <2>2. PICK z \in U : z[2].call = x[2].call
    BY <1>6
  <2>. QED BY <2>2, <1>a, <1>14
<1>20. \A y \in got : (\A x \in used : x[2].call # y[2].call) =>
                 \E c \in N : c.tool = None /\ c.call = y[2].call
  BY <1>9, <1>b, <1>15
<1>21. \A c, d \in N : c.tool # None /\ d.tool # None /\ c.call = d.call => c = d
  <2>1. SUFFICES ASSUME NEW c \in N, NEW d \in N, c.tool # None, d.tool # None, c.call = d.call
                 PROVE  c = d
    OBVIOUS
  <2>2. PICK x \in U : c = u(x)
    BY <2>1, <1>b, <1>13
  <2>3. PICK z \in U : d = u(z)
    BY <2>1, <1>b, <1>13
  <2>4. x[2].call = z[2].call
    BY <2>1, <2>2, <2>3, <1>a
  <2>5. x = z
    BY <2>4, <1>7
  <2>. QED BY <2>2, <2>3, <2>5
<1>. HIDE DEF IsLast
<1>. QED BY <1>11, <1>16, <1>17, <1>18, <1>19, <1>20, <1>21 DEF IsLast, N

-----------------------------------------------------------------------------
(***************************************************************************)
(* What a read of a transcript's lines hands over.                         *)
(***************************************************************************)
(* The calls the lines P make, with their places and turns ...             *)
UsedIn(f, P, t) ==
  UNION {{<<i, [call |-> u.call, tool |-> u.tool, turn |-> t[i]]>> : u \in UsesAt(f, i)} : i \in P}
(* ... and the results they bring.                                         *)
GotIn(f, P) == UNION {{<<i, r>> : r \in GotAt(f, i)} : i \in P}

(* N is what a read of the lines P hands over.                             *)
CallsSound(f, N, P) ==
  /\ IsFiniteSet(N)
  /\ \A c \in N : IsCall(c) /\ KeyOf(c) = <<CallVendor(f), File[f].session>>
  /\ \A c \in N : c.tool # None => \E i \in P : \E u \in UsesAt(f, i) : ShowsCall(f, P, i, u, c)
  /\ HasCalls({c \in N : c.tool # None}, f, P)
  /\ \A c \in N : c.tool = None => \E j \in P : \E g \in GotAt(f, j) : c.call = g.call /\ c.result = g.bytes
  /\ \A j \in P : \A g \in GotAt(f, j) :
       (\A i \in P : \A u \in UsesAt(f, i) : u.call # g.call) =>
          \E c \in N : c.tool = None /\ c.call = g.call
  /\ OnePerCall({c \in N : c.tool # None})

(* What ViewsAssumption says of a transcript's calls.                      *)
LEMMA PairsHold ==
  ASSUME on \in Desks, NEW f \in Transcripts
  PROVE  PairsUp(f) /\ DOMAIN Lines[f] = 1..Len(Lines[f]) /\ Len(Lines[f]) \in Nat
<1>1. f \in on.sources /\ IsTranscript(f)
  BY DEF Transcripts
<1>. QED BY <1>1, SourceIs DEF Writes

(* The calls of the lines P are finitely many ...                          *)
LEMMA UsedIs ==
  ASSUME on \in Desks, NEW f \in Transcripts, NEW P \in SUBSET DOMAIN Lines[f], NEW t
  PROVE  LET used == UsedIn(f, P, t)
         IN /\ IsFiniteSet(used)
            /\ \A x \in used : \E i \in P : \E u \in UsesAt(f, i) :
                 x = <<i, [call |-> u.call, tool |-> u.tool, turn |-> t[i]]>>
            /\ \A i \in P : \A u \in UsesAt(f, i) :
                 \E x \in used : x[1] = i /\ x[2].call = u.call
<1>. DEFINE V(i) == {<<i, [call |-> u.call, tool |-> u.tool, turn |-> t[i]]>> : u \in UsesAt(f, i)}
            W == [i \in P |-> V(i)]
            used == UsedIn(f, P, t)
<1>1. PairsUp(f) /\ DOMAIN Lines[f] = 1..Len(Lines[f]) /\ Len(Lines[f]) \in Nat
  BY PairsHold
<1>2. used = UNION {V(i) : i \in P}
  BY DEF UsedIn
<1>3. IsFiniteSet(P)
  <2>1. IsFiniteSet(1..Len(Lines[f]))
    BY <1>1, FS_Interval
  <2>. QED BY <2>1, <1>1, FS_Subset
<1>4. ASSUME NEW i \in P PROVE IsFiniteSet(V(i))
  <2>. DEFINE S == UsesAt(f, i)
              h == [u \in S |-> <<i, [call |-> u.call, tool |-> u.tool, turn |-> t[i]]>>]
  <2>1. IsFiniteSet(S)
    BY <1>1 DEF PairsUp
  <2>2. V(i) = {h[u] : u \in S}
    OBVIOUS
  <2>. HIDE DEF S, h, V
  <2>. QED BY <2>1, <2>2, ImageFinite
<1>5. IsFiniteSet(used)
  <2>. DEFINE T == {W[i] : i \in P}
  <2>1. IsFiniteSet(T)
    <3>. HIDE DEF W
    <3>. QED BY <1>3, ImageFinite
  <2>2. \A z \in T : IsFiniteSet(z)
    BY <1>4
  <2>3. used = UNION T
    BY <1>2
  <2>. HIDE DEF T, used
  <2>. QED BY <2>1, <2>2, <2>3, FS_UNION
<1>6. \A x \in used : \E i \in P : \E u \in UsesAt(f, i) :
                 x = <<i, [call |-> u.call, tool |-> u.tool, turn |-> t[i]]>>
  BY <1>2
<1>7. \A i \in P : \A u \in UsesAt(f, i) : \E x \in used : x[1] = i /\ x[2].call = u.call
  <2>1. SUFFICES ASSUME NEW i \in P, NEW u \in UsesAt(f, i)
                 PROVE \E x \in used : x[1] = i /\ x[2].call = u.call
    OBVIOUS
  <2>. DEFINE x == <<i, [call |-> u.call, tool |-> u.tool, turn |-> t[i]]>>
  <2>2. x \in used /\ x[1] = i /\ x[2].call = u.call
    BY <1>2
  <2>. HIDE DEF x, used
  <2>. QED BY <2>2
<1>. HIDE DEF used
<1>. QED BY <1>5, <1>6, <1>7 DEF used

(* ... and so are their results.                                           *)
LEMMA GotIs ==
  ASSUME on \in Desks, NEW f \in Transcripts, NEW P \in SUBSET DOMAIN Lines[f]
  PROVE  LET got == GotIn(f, P)
         IN /\ IsFiniteSet(got)
            /\ \A x \in got : x[1] \in P /\ x[2] \in GotAt(f, x[1])
            /\ \A i \in P : \A r \in GotAt(f, i) : \E x \in got : x[2] = r
<1>. DEFINE V(i) == {<<i, r>> : r \in GotAt(f, i)}
            W == [i \in P |-> V(i)]
            got == GotIn(f, P)
<1>1. PairsUp(f) /\ DOMAIN Lines[f] = 1..Len(Lines[f]) /\ Len(Lines[f]) \in Nat
  BY PairsHold
<1>2. got = UNION {V(i) : i \in P}
  BY DEF GotIn
<1>3. IsFiniteSet(P)
  <2>1. IsFiniteSet(1..Len(Lines[f]))
    BY <1>1, FS_Interval
  <2>. QED BY <2>1, <1>1, FS_Subset
<1>4. ASSUME NEW i \in P PROVE IsFiniteSet(V(i))
  <2>. DEFINE S == GotAt(f, i)
              h == [r \in S |-> <<i, r>>]
  <2>1. IsFiniteSet(S)
    BY <1>1 DEF PairsUp
  <2>2. V(i) = {h[r] : r \in S}
    OBVIOUS
  <2>. HIDE DEF S, h, V
  <2>. QED BY <2>1, <2>2, ImageFinite
<1>5. IsFiniteSet(got)
  <2>. DEFINE T == {W[i] : i \in P}
  <2>1. IsFiniteSet(T)
    <3>. HIDE DEF W
    <3>. QED BY <1>3, ImageFinite
  <2>2. \A z \in T : IsFiniteSet(z)
    BY <1>4
  <2>3. got = UNION T
    BY <1>2
  <2>. HIDE DEF T, got
  <2>. QED BY <2>1, <2>2, <2>3, FS_UNION
<1>6. \A x \in got : x[1] \in P /\ x[2] \in GotAt(f, x[1])
  BY <1>2
<1>7. \A i \in P : \A r \in GotAt(f, i) : \E x \in got : x[2] = r
  <2>1. SUFFICES ASSUME NEW i \in P, NEW r \in GotAt(f, i) PROVE \E x \in got : x[2] = r
    OBVIOUS
  <2>. DEFINE x == <<i, r>>
  <2>2. x \in got /\ x[2] = r
    BY <1>2
  <2>. HIDE DEF x, got
  <2>. QED BY <2>2
<1>. HIDE DEF got
<1>. QED BY <1>5, <1>6, <1>7 DEF got

(* What PairCalls makes of them is what P comes to.                        *)
LEMMA PairedIsSound ==
  ASSUME on \in Desks, NEW f \in Transcripts, Kind[f] \in {"claude", "codex"},
         NEW P \in SUBSET DOMAIN Lines[f],
         NEW t, NEW ls, \A i \in P : ls[i] = Lines[f][i]
  PROVE  CallsSound(f, PairedFrom(CallVendor(f), File[f].session, ls, UsedIn(f, P, t), GotIn(f, P)), P)
<1>. DEFINE used == UsedIn(f, P, t)
            got == GotIn(f, P)
            N == PairedFrom(CallVendor(f), File[f].session, ls, used, got)
            IsLast(x) == \A z \in used : z[2].call = x[2].call => z[1] <= x[1]
<1>1. PairsUp(f) /\ DOMAIN Lines[f] = 1..Len(Lines[f]) /\ Len(Lines[f]) \in Nat /\ P \subseteq Int
  BY PairsHold
<1>2. /\ IsFiniteSet(used)
      /\ \A x \in used : \E i \in P : \E u \in UsesAt(f, i) :
                 x = <<i, [call |-> u.call, tool |-> u.tool, turn |-> t[i]]>>
      /\ \A i \in P : \A u \in UsesAt(f, i) :
                 \E x \in used : x[1] = i /\ x[2].call = u.call
  BY UsedIs
<1>3. /\ IsFiniteSet(got)
      /\ \A x \in got : x[1] \in P /\ x[2] \in GotAt(f, x[1])
      /\ \A i \in P : \A r \in GotAt(f, i) : \E x \in got : x[2] = r
  BY GotIs
<1>. HIDE DEF used, got
<1>4. /\ \A x \in used : x[1] \in Int /\ x[2].tool # None
      /\ \A x, y \in used : x[1] = y[1] /\ x[2].call = y[2].call => x = y
  <2>1. \A i \in P : \A u \in UsesAt(f, i) :
          u.tool # None /\ \A v \in UsesAt(f, i) : v.call = u.call => v = u
    BY <1>1 DEF PairsUp
  <2>2. ASSUME NEW x \in used PROVE x[1] \in Int /\ x[2].tool # None
    BY <1>1, <1>2, <2>1
  <2>3. ASSUME NEW x \in used, NEW y \in used, x[1] = y[1], x[2].call = y[2].call PROVE x = y
    <3>1. PICK i \in P : \E u \in UsesAt(f, i) :
              x = <<i, [call |-> u.call, tool |-> u.tool, turn |-> t[i]]>>
      BY <1>2
    <3>2. PICK u \in UsesAt(f, i) : x = <<i, [call |-> u.call, tool |-> u.tool, turn |-> t[i]]>>
      BY <3>1
    <3>3. PICK j \in P : \E v \in UsesAt(f, j) :
              y = <<j, [call |-> v.call, tool |-> v.tool, turn |-> t[j]]>>
      BY <1>2
    <3>4. PICK v \in UsesAt(f, j) : y = <<j, [call |-> v.call, tool |-> v.tool, turn |-> t[j]]>>
      BY <3>3
    <3>5. i = j /\ u.call = v.call
      BY <2>3, <3>2, <3>4
    <3>6. u = v
      BY <2>1, <3>5
    <3>. QED BY <3>2, <3>4, <3>5, <3>6
  <2>. QED BY <2>2, <2>3
<1>5. /\ \A y \in got : y[1] \in Int /\ y[2].bytes \in Nat
      /\ \A x \in used, y \in got : x[2].call = y[2].call => x[1] < y[1]
      /\ \A y, z \in got : y[2].call = z[2].call => y[2].bytes = z[2].bytes
  <2>1. \A i \in P : \A r \in GotAt(f, i) :
          /\ r.bytes \in Nat
          /\ \A j \in P : /\ \A s \in GotAt(f, j) : s.call = r.call => s.bytes = r.bytes
                          /\ \A u \in UsesAt(f, j) : u.call = r.call => j < i
    BY <1>1 DEF PairsUp
  <2>2. \A y \in got : y[1] \in Int /\ y[2].bytes \in Nat
    BY <1>1, <1>3, <2>1
  <2>3. \A x \in used : \E u \in UsesAt(f, x[1]) : x[1] \in P /\ u.call = x[2].call
    BY <1>2
  <2>4. ASSUME NEW x \in used, NEW y \in got, x[2].call = y[2].call PROVE x[1] < y[1]
    BY <1>3, <2>1, <2>3, <2>4
  <2>5. ASSUME NEW y \in got, NEW z \in got, y[2].call = z[2].call PROVE y[2].bytes = z[2].bytes
    BY <1>3, <2>1, <2>5
  <2>. QED BY <2>2, <2>4, <2>5
<1>6. /\ IsFiniteSet(N)
      /\ \A c \in N : IsCall(c) /\ c.vendor = CallVendor(f) /\ c.session = File[f].session
      /\ \A c \in N : c.tool # None =>
                 \E x \in used : /\ IsLast(x) /\ c.call = x[2].call /\ c.tool = x[2].tool
                                 /\ c.at = ls[x[1]].at /\ BringsIs(got, x[2].call, c.result)
      /\ \A c \in N : c.tool = None => \E y \in got : c.call = y[2].call /\ c.result = y[2].bytes
      /\ \A x \in used : \E c \in N : c.tool # None /\ c.call = x[2].call
      /\ \A y \in got : (\A x \in used : x[2].call # y[2].call) =>
                 \E c \in N : c.tool = None /\ c.call = y[2].call
      /\ \A c, d \in N : c.tool # None /\ d.tool # None /\ c.call = d.call => c = d
  BY <1>2, <1>3, <1>4, <1>5, PairsAre
<1>. HIDE DEF N
<1>7. \A c \in N : KeyOf(c) = <<CallVendor(f), File[f].session>>
                   /\ CallOf(c) = <<CallVendor(f), File[f].session, c.call>>
  BY <1>6 DEF KeyOf, CallOf
<1>8. ASSUME NEW c \in N, c.tool # None
      PROVE  \E i \in P : \E u \in UsesAt(f, i) : ShowsCall(f, P, i, u, c)
  <2>1. PICK x \in used : /\ IsLast(x) /\ c.call = x[2].call /\ c.tool = x[2].tool
                          /\ c.at = ls[x[1]].at /\ BringsIs(got, x[2].call, c.result)
    BY <1>6, <1>8
  <2>2. PICK i \in P : \E u \in UsesAt(f, i) :
            x = <<i, [call |-> u.call, tool |-> u.tool, turn |-> t[i]]>>
    BY <1>2
  <2>3. PICK u \in UsesAt(f, i) : x = <<i, [call |-> u.call, tool |-> u.tool, turn |-> t[i]]>>
    BY <2>2
  <2>4. x[1] = i /\ x[2].call = u.call /\ x[2].tool = u.tool
    BY <2>3
  <2>5. LastUse(f, P, i, u.call)
    <3>1. SUFFICES ASSUME NEW j \in P, i < j, NEW v \in UsesAt(f, j), v.call = u.call PROVE FALSE
      BY DEF LastUse
    <3>2. PICK z \in used : z[1] = j /\ z[2].call = v.call
      BY <1>2
    <3>3. z[1] <= x[1]
      BY <2>1, <2>4, <3>1, <3>2
    <3>. QED BY <3>1, <3>2, <3>3, <2>4, <1>1
  <2>6. ResultIs(f, P, u.call, c.result)
    <3>1. CASE c.result = Nil /\ \A y \in got : y[2].call # x[2].call
      BY <1>3, <2>4, <3>1 DEF ResultIs
    <3>2. CASE \E y \in got : y[2].call = x[2].call /\ c.result = y[2].bytes
      BY <1>3, <2>4, <3>2 DEF ResultIs
    <3>. QED BY <2>1, <3>1, <3>2 DEF BringsIs
  <2>7. c.call = u.call /\ c.tool = u.tool /\ c.at = Lines[f][i].at
    BY <2>1, <2>4
  <2>. HIDE DEF IsLast
  <2>. QED BY <2>5, <2>6, <2>7, <1>7 DEF ShowsCall
<1>9. HasCalls({c \in N : c.tool # None}, f, P)
  <2>1. SUFFICES ASSUME NEW i \in P, NEW u \in UsesAt(f, i)
                 PROVE  \E c \in N : c.tool # None /\ c.call = u.call
    BY <1>7 DEF HasCalls
  <2>. QED BY <1>2, <1>6
<1>10. ASSUME NEW c \in N, c.tool = None
       PROVE  \E j \in P : \E g \in GotAt(f, j) : c.call = g.call /\ c.result = g.bytes
  BY <1>3, <1>6, <1>10
<1>11. ASSUME NEW j \in P, NEW g \in GotAt(f, j), \A i \in P : \A u \in UsesAt(f, i) : u.call # g.call
       PROVE  \E c \in N : c.tool = None /\ c.call = g.call
  <2>1. PICK y \in got : y[2] = g
    BY <1>3
  <2>2. \A x \in used : x[2].call # g.call
    BY <1>2, <1>11
  <2>. QED BY <2>1, <2>2, <1>6
<1>12. OnePerCall({c \in N : c.tool # None})
  BY <1>6 DEF OnePerCall, CallOf
<1>. HIDE DEF IsLast
<1>. QED BY <1>6, <1>7, <1>8, <1>9, <1>10, <1>11, <1>12 DEF CallsSound, N, used, got

(* A read of a Claude or Codex transcript hands that over.                 *)
LEMMA CallsRead ==
  ASSUME on \in Desks, NEW f \in Transcripts, Kind[f] \in {"claude", "codex"},
         NEW n \in 0..Len(Lines[f]), NEW from \in Nat
  PROVE  CallsSound(f, ParseCalls(f, Text(f, n), from), (from + 1)..n)
<1>. DEFINE ls == Text(f, n)
            P == (from + 1)..n
<1>1. Len(ls) = n /\ DOMAIN ls = 1..n /\ (\A i \in 1..n : ls[i] = Lines[f][i]) /\ f \in on.sources
      /\ DOMAIN Lines[f] = 1..Len(Lines[f]) /\ Len(Lines[f]) \in Nat
  BY TextIs, PairsHold DEF Transcripts
<1>2. P \in SUBSET DOMAIN Lines[f] /\ \A i \in P : ls[i] = Lines[f][i]
  BY <1>1
<1>3. CASE Kind[f] = "claude"
  <2>. DEFINE t == [i \in P |-> ToolKey(ls, from, i)]
              U(i) == IF ls[i].kind # "assistant" THEN {}
                      ELSE {[call |-> u.call, tool |-> u.tool, turn |-> ToolKey(ls, from, i)] : u \in ls[i].uses}
              R(i) == IF ls[i].kind # "user" THEN {} ELSE ls[i].results
              used == UNION {{<<i, u>> : u \in U(i)} : i \in P}
              got == UNION {{<<i, r>> : r \in R(i)} : i \in P}
  <2>1. ParseCalls(f, ls, from) = PairedFrom("anthropic", File[f].session, ls, used, got)
    <3>1. ParseCalls(f, ls, from) = ClaudeCalls(File[f], ls, from)
      BY <1>3 DEF ParseCalls
    <3>2. P = (from + 1)..Len(ls)
      BY <1>1
    <3>. HIDE DEF P, ls
    <3>. QED BY <3>1, <3>2 DEF ClaudeCalls, PairCalls, PairedFrom
  <2>2. ASSUME NEW i \in P
        PROVE  {<<i, u>> : u \in U(i)}
                 = {<<i, [call |-> u.call, tool |-> u.tool, turn |-> t[i]]>> : u \in UsesAt(f, i)}
    <3>. DEFINE V == {[call |-> u.call, tool |-> u.tool, turn |-> t[i]] : u \in UsesAt(f, i)}
    <3>1. ls[i] = Lines[f][i] /\ t[i] = ToolKey(ls, from, i)
      BY <1>2
    <3>. HIDE DEF ls, t
    <3>2. U(i) = V
      <4>1. CASE Lines[f][i].kind # "assistant"
        BY <1>3, <3>1, <4>1 DEF UsesAt
      <4>2. CASE Lines[f][i].kind = "assistant"
        <5>1. UsesAt(f, i) = {[call |-> u.call, tool |-> u.tool] : u \in Lines[f][i].uses}
          BY <1>3, <4>2 DEF UsesAt
        <5>2. U(i) = {[call |-> u.call, tool |-> u.tool, turn |-> t[i]] : u \in Lines[f][i].uses}
          BY <3>1, <4>2
        <5>3. ASSUME NEW u \in Lines[f][i].uses
              PROVE  [call |-> u.call, tool |-> u.tool, turn |-> t[i]] \in V
          <6>1. [call |-> u.call, tool |-> u.tool] \in UsesAt(f, i)
            BY <5>1
          <6>2. \E w \in UsesAt(f, i) : w.call = u.call /\ w.tool = u.tool
            BY <6>1
          <6>. QED BY <6>2
        <5>4. ASSUME NEW w \in UsesAt(f, i)
              PROVE  [call |-> w.call, tool |-> w.tool, turn |-> t[i]] \in U(i)
          <6>1. PICK u \in Lines[f][i].uses : w = [call |-> u.call, tool |-> u.tool]
            BY <5>1
          <6>. QED BY <6>1, <5>2
        <5>5. U(i) \subseteq V
          <6>. HIDE DEF V, U
          <6>. QED BY <5>2, <5>3
        <5>6. V \subseteq U(i)
          <6>. HIDE DEF U
          <6>. QED BY <5>4
        <5>. QED BY <5>5, <5>6
      <4>. QED BY <4>1, <4>2
    <3>3. {<<i, u>> : u \in U(i)} = {<<i, u>> : u \in V}
      <4>. HIDE DEF U, V
      <4>. QED BY <3>2
    <3>. QED BY <3>3
  <2>3. used = UsedIn(f, P, t)
    <3>. HIDE DEF U, t, P
    <3>. QED BY <2>2 DEF UsedIn
  <2>4. ASSUME NEW i \in P PROVE R(i) = GotAt(f, i)
    <3>1. ls[i] = Lines[f][i]
      BY <1>2
    <3>. HIDE DEF ls
    <3>. QED BY <1>3, <3>1 DEF GotAt
  <2>5. got = GotIn(f, P)
    <3>. HIDE DEF R, P
    <3>. QED BY <2>4 DEF GotIn
  <2>. HIDE DEF used, got, t, P, ls
  <2>6. CallsSound(f, PairedFrom(CallVendor(f), File[f].session, ls, UsedIn(f, P, t), GotIn(f, P)), P)
    BY <1>2, <1>3, PairedIsSound
  <2>7. CallVendor(f) = "anthropic"
    BY <1>3 DEF CallVendor
  <2>. QED BY <2>1, <2>3, <2>5, <2>6, <2>7 DEF P, ls
<1>4. CASE Kind[f] = "codex"
  <2>. DEFINE t == [i \in P |-> ls[i].turn]
              U(i) == IF ls[i].kind # "call" THEN {}
                      ELSE {[call |-> ls[i].call, tool |-> ls[i].tool, turn |-> ls[i].turn]}
              R(i) == IF ls[i].kind # "output" THEN {}
                      ELSE {[call |-> ls[i].call, bytes |-> ls[i].bytes]}
              used == UNION {{<<i, u>> : u \in U(i)} : i \in P}
              got == UNION {{<<i, r>> : r \in R(i)} : i \in P}
  <2>1. ParseCalls(f, ls, from) = PairedFrom("openai", File[f].session, ls, used, got)
    <3>1. ParseCalls(f, ls, from) = CodexCalls(File[f], ls, from)
      BY <1>4 DEF ParseCalls
    <3>2. P = (from + 1)..Len(ls)
      BY <1>1
    <3>. HIDE DEF P, ls
    <3>. QED BY <3>1, <3>2 DEF CodexCalls, PairCalls, PairedFrom
  <2>2. ASSUME NEW i \in P
        PROVE  {<<i, u>> : u \in U(i)}
                 = {<<i, [call |-> u.call, tool |-> u.tool, turn |-> t[i]]>> : u \in UsesAt(f, i)}
    <3>. DEFINE V == {[call |-> u.call, tool |-> u.tool, turn |-> t[i]] : u \in UsesAt(f, i)}
    <3>1. ls[i] = Lines[f][i] /\ t[i] = ls[i].turn
      BY <1>2
    <3>. HIDE DEF ls, t
    <3>2. U(i) = V
      <4>1. CASE Lines[f][i].kind # "call"
        BY <1>4, <3>1, <4>1 DEF UsesAt
      <4>2. CASE Lines[f][i].kind = "call"
        <5>. DEFINE w == [call |-> Lines[f][i].call, tool |-> Lines[f][i].tool]
        <5>1. UsesAt(f, i) = {w}
          BY <1>4, <4>2 DEF UsesAt
        <5>2. U(i) = {[call |-> w.call, tool |-> w.tool, turn |-> t[i]]}
          BY <3>1, <4>2
        <5>. HIDE DEF w, U
        <5>. QED BY <5>1, <5>2
      <4>. QED BY <4>1, <4>2
    <3>3. {<<i, u>> : u \in U(i)} = {<<i, u>> : u \in V}
      <4>. HIDE DEF U, V
      <4>. QED BY <3>2
    <3>. QED BY <3>3
  <2>3. used = UsedIn(f, P, t)
    <3>. HIDE DEF U, t, P
    <3>. QED BY <2>2 DEF UsedIn
  <2>4. ASSUME NEW i \in P PROVE R(i) = GotAt(f, i)
    <3>1. ls[i] = Lines[f][i]
      BY <1>2
    <3>. HIDE DEF ls
    <3>. QED BY <1>4, <3>1 DEF GotAt
  <2>5. got = GotIn(f, P)
    <3>. HIDE DEF R, P
    <3>. QED BY <2>4 DEF GotIn
  <2>. HIDE DEF used, got, t, P, ls
  <2>6. CallsSound(f, PairedFrom(CallVendor(f), File[f].session, ls, UsedIn(f, P, t), GotIn(f, P)), P)
    BY <1>2, <1>4, PairedIsSound
  <2>7. CallVendor(f) = "openai"
    BY <1>4 DEF CallVendor
  <2>. QED BY <2>1, <2>3, <2>5, <2>6, <2>7 DEF P, ls
<1>. QED BY <1>3, <1>4

-----------------------------------------------------------------------------
(***************************************************************************)
(* UpsertToolCalls.                                                        *)
(***************************************************************************)
(* A call with another result is the same call.                            *)
LEMMA WithResult ==
  ASSUME NEW c, IsCall(c), NEW v
  PROVE  LET d == [c EXCEPT !.result = v]
         IN /\ IsCall(d) /\ CallOf(d) = CallOf(c) /\ d.tool = c.tool /\ d.at = c.at
            /\ d.result = v
<1>. DEFINE d == [c EXCEPT !.result = v]
<1>1. c = [vendor |-> c.vendor, session |-> c.session, call |-> c.call, turn |-> c.turn,
           tool |-> c.tool, at |-> c.at, result |-> c.result]
  BY DEF IsCall
<1>2. d = [vendor |-> c.vendor, session |-> c.session, call |-> c.call, turn |-> c.turn,
           tool |-> c.tool, at |-> c.at, result |-> v]
  BY <1>1
<1>. HIDE DEF d
<1>3. /\ d.vendor = c.vendor /\ d.session = c.session /\ d.call = c.call /\ d.turn = c.turn
      /\ d.tool = c.tool /\ d.at = c.at /\ d.result = v
  BY <1>2
<1>4. IsCall(d)
  BY <1>2, <1>3 DEF IsCall
<1>. QED BY <1>3, <1>4 DEF CallOf, d

(* The calls of a hand-over, its result-only rows left out.                *)
CallsIn(new) == {c \in new : c.tool # None}
(* What the table has of a call, and the result it keeps of it.            *)
OldOf(cs, c) == {x \in cs : CallOf(x) = CallOf(c)}
KnownOf(cs, c) == IF c.result = Nil /\ OldOf(cs, c) # {}
                  THEN (CHOOSE x \in OldOf(cs, c) : TRUE).result ELSE c.result
(* The table after the calls are written and before the results are.       *)
CallsKept(cs, new) ==
  {x \in cs : ~\E c \in CallsIn(new) : CallOf(c) = CallOf(x)}
    \cup {[c EXCEPT !.result = KnownOf(cs, c)] : c \in CallsIn(new)}
(* The result-only rows of a call, and the call with their result.         *)
LateOf(new, x) == {c \in new : c.tool = None /\ CallOf(c) = CallOf(x)}
FilledCall(new, x) == IF x.result = Nil /\ LateOf(new, x) # {}
                  THEN [x EXCEPT !.result = (CHOOSE c \in LateOf(new, x) : TRUE).result] ELSE x

(* UpsertToolCalls in these two steps.                                     *)
LEMMA UpsertIs ==
  ASSUME NEW cs, NEW new
  PROVE  UpsertToolCalls(cs, new) = {FilledCall(new, x) : x \in CallsKept(cs, new)}
BY DEF UpsertToolCalls, FilledCall, LateOf, CallsKept, KnownOf, OldOf, CallsIn

(* The first step: the calls as written, a known result kept. *)
LEMMA CallsKeptAre ==
  ASSUME NEW cs, NEW new, IsFiniteSet(cs), IsFiniteSet(new),
         \A c \in cs : IsCall(c), \A c \in new : IsCall(c),
         OnePerCall(cs), OnePerCall(CallsIn(new))
  PROVE  LET S == CallsKept(cs, new)
         IN /\ IsFiniteSet(S)
            /\ \A r \in S : IsCall(r)
            /\ OnePerCall(S)
            /\ \A r \in S :
                 \/ r \in cs /\ ~\E c \in CallsIn(new) : CallOf(c) = CallOf(r)
                 \/ \E c \in CallsIn(new) :
                      /\ CallOf(c) = CallOf(r) /\ r.tool = c.tool /\ r.at = c.at
                      /\ \/ r.result = c.result /\ (r.result = Nil => OldOf(cs, c) = {})
                         \/ c.result = Nil /\ \E x \in cs : CallOf(x) = CallOf(c) /\ r.result = x.result
            /\ \A x \in cs \cup CallsIn(new) : \E r \in S : CallOf(r) = CallOf(x)
            /\ \A x \in cs : (~\E c \in CallsIn(new) : CallOf(c) = CallOf(x)) => x \in S
<1>. DEFINE S == CallsKept(cs, new)
            W == CallsIn(new)
            K == {x \in cs : ~\E c \in W : CallOf(c) = CallOf(x)}
            h == [c \in W |-> [c EXCEPT !.result = KnownOf(cs, c)]]
            V == {h[c] : c \in W}
<1>1. S = K \cup V
  BY DEF CallsKept
<1>2. W \subseteq new /\ K \subseteq cs
  BY DEF CallsIn
<1>3. IsFiniteSet(S)
  <2>1. IsFiniteSet(K) /\ IsFiniteSet(W)
    BY <1>2, FS_Subset
  <2>2. IsFiniteSet(V)
    <3>. HIDE DEF W, h
    <3>. QED BY <2>1, ImageFinite
  <2>. HIDE DEF S, K, V
  <2>. QED BY <1>1, <2>1, <2>2, FS_Union
<1>4. \A c \in W : /\ h[c] \in V
                   /\ IsCall(h[c]) /\ CallOf(h[c]) = CallOf(c) /\ h[c].tool = c.tool /\ h[c].at = c.at
                   /\ h[c].result = KnownOf(cs, c)
  <2>1. SUFFICES ASSUME NEW c \in W
                 PROVE  /\ IsCall(h[c]) /\ CallOf(h[c]) = CallOf(c) /\ h[c].tool = c.tool
                        /\ h[c].at = c.at /\ h[c].result = KnownOf(cs, c)
    OBVIOUS
  <2>2. IsCall(c)
    BY <1>2
  <2>3. h[c] = [c EXCEPT !.result = KnownOf(cs, c)]
    OBVIOUS
  <2>. HIDE DEF h, W
  <2>. QED BY <2>2, <2>3, WithResult
<1>. HIDE DEF h, W
<1>5. \A r \in V : \E c \in W : r = h[c]
  OBVIOUS
<1>. HIDE DEF V
<1>6. \A r \in S : IsCall(r)
  BY <1>1, <1>2, <1>4, <1>5
<1>7. OnePerCall(S)
  <2>1. ASSUME NEW a \in S, NEW b \in S, CallOf(a) = CallOf(b) PROVE a = b
    <3>1. CASE a \in K /\ b \in K
      BY <2>1, <3>1, <1>2 DEF OnePerCall
    <3>2. CASE a \in V /\ b \in V
      <4>1. PICK c \in W : a = h[c]
        BY <3>2, <1>5
      <4>2. PICK d \in W : b = h[d]
        BY <3>2, <1>5
      <4>3. c = d
        BY <4>1, <4>2, <2>1, <1>4 DEF OnePerCall, W
      <4>. QED BY <4>1, <4>2, <4>3
    <3>3. CASE a \in K /\ b \in V
      BY <3>3, <2>1, <1>4, <1>5
    <3>4. CASE a \in V /\ b \in K
      BY <3>4, <2>1, <1>4, <1>5
    <3>. QED BY <1>1, <3>1, <3>2, <3>3, <3>4
  <2>. HIDE DEF S
  <2>. QED BY <2>1 DEF OnePerCall
<1>8. ASSUME NEW c \in W
      PROVE  \/ KnownOf(cs, c) = c.result /\ (KnownOf(cs, c) = Nil => OldOf(cs, c) = {})
             \/ c.result = Nil /\ \E x \in cs : CallOf(x) = CallOf(c) /\ KnownOf(cs, c) = x.result
  <2>1. CASE c.result = Nil /\ OldOf(cs, c) # {}
    <3>1. (CHOOSE x \in OldOf(cs, c) : TRUE) \in OldOf(cs, c)
      BY <2>1
    <3>2. \A x \in OldOf(cs, c) : x \in cs /\ CallOf(x) = CallOf(c)
      BY DEF OldOf
    <3>3. KnownOf(cs, c) = (CHOOSE x \in OldOf(cs, c) : TRUE).result
      BY <2>1 DEF KnownOf
    <3>. QED BY <2>1, <3>1, <3>2, <3>3
  <2>2. CASE ~(c.result = Nil /\ OldOf(cs, c) # {})
    <3>1. KnownOf(cs, c) = c.result
      BY <2>2 DEF KnownOf
    <3>. QED BY <2>2, <3>1
  <2>. QED BY <2>1, <2>2
<1>9. ASSUME NEW r \in S
      PROVE  \/ r \in cs /\ ~\E c \in W : CallOf(c) = CallOf(r)
             \/ \E c \in W :
                      /\ CallOf(c) = CallOf(r) /\ r.tool = c.tool /\ r.at = c.at
                      /\ \/ r.result = c.result /\ (r.result = Nil => OldOf(cs, c) = {})
                         \/ c.result = Nil /\ \E x \in cs : CallOf(x) = CallOf(c) /\ r.result = x.result
  <2>1. CASE r \in K
    BY <2>1
  <2>2. CASE r \in V
    <3>1. PICK c \in W : r = h[c]
      BY <2>2, <1>5
    <3>. QED BY <3>1, <1>4, <1>8
  <2>. QED BY <1>1, <2>1, <2>2
<1>10. ASSUME NEW x \in cs \cup W PROVE \E r \in S : CallOf(r) = CallOf(x)
  <2>1. CASE x \in K
    BY <2>1, <1>1
  <2>2. CASE x \in W
    BY <2>2, <1>1, <1>4
  <2>3. CASE x \in cs /\ x \notin K
    <3>1. PICK c \in W : CallOf(c) = CallOf(x)
      BY <2>3
    <3>. QED BY <3>1, <1>1, <1>4
  <2>. QED BY <2>1, <2>2, <2>3
<1>11. ASSUME NEW x \in cs, ~\E c \in W : CallOf(c) = CallOf(x) PROVE x \in S
  BY <1>1, <1>11
<1>. HIDE DEF S
<1>. QED BY <1>3, <1>6, <1>7, <1>9, <1>10, <1>11 DEF S, W

(* The second step fills in a result that was open.                        *)
LEMMA FilledCallIs ==
  ASSUME NEW new, NEW x, IsCall(x)
  PROVE  LET r == FilledCall(new, x)
         IN /\ IsCall(r) /\ CallOf(r) = CallOf(x) /\ r.tool = x.tool /\ r.at = x.at
            /\ \/ r = x /\ (x.result = Nil => LateOf(new, x) = {})
               \/ x.result = Nil /\ \E c \in LateOf(new, x) : r.result = c.result
<1>1. CASE x.result = Nil /\ LateOf(new, x) # {}
  <2>. DEFINE c == CHOOSE c \in LateOf(new, x) : TRUE
  <2>1. c \in LateOf(new, x)
    BY <1>1
  <2>2. FilledCall(new, x) = [x EXCEPT !.result = c.result]
    BY <1>1 DEF FilledCall
  <2>. HIDE DEF c
  <2>. QED BY <1>1, <2>1, <2>2, WithResult
<1>2. CASE ~(x.result = Nil /\ LateOf(new, x) # {})
  <2>1. FilledCall(new, x) = x
    BY <1>2 DEF FilledCall
  <2>. QED BY <1>2, <2>1
<1>. QED BY <1>1, <1>2

(* After an upsert the table has every call once; a row is the newest telling *)
(* of its call, with a result when either side had one.                    *)
LEMMA CallsUpserted ==
  ASSUME NEW cs, NEW new, IsFiniteSet(cs), IsFiniteSet(new),
         \A c \in cs : IsCall(c), \A c \in new : IsCall(c),
         OnePerCall(cs), OnePerCall({c \in new : c.tool # None}),
         \A c \in new : c.tool = None => c.result # Nil
  PROVE  LET R == UpsertToolCalls(cs, new)
             W == {c \in new : c.tool # None}
         IN /\ IsFiniteSet(R) /\ (\A r \in R : IsCall(r)) /\ OnePerCall(R)
            /\ \A r \in R : \E x \in cs \cup W :
                 /\ CallOf(x) = CallOf(r) /\ r.tool = x.tool /\ r.at = x.at
                 /\ x \in W \/ ~\E c \in W : CallOf(c) = CallOf(r)
            /\ \A r \in R : r.result # Nil =>
                 \E y \in cs \cup new : CallOf(y) = CallOf(r) /\ r.result = y.result
            /\ \A r \in R : r.result = Nil =>
                 \A y \in cs \cup new : CallOf(y) = CallOf(r) => y.result = Nil
            /\ \A x \in cs \cup W : \E r \in R : CallOf(r) = CallOf(x)
            /\ \A r \in R : (\A y \in new : CallOf(y) # CallOf(r)) => r \in cs
<1>. DEFINE R == UpsertToolCalls(cs, new)
            W == {c \in new : c.tool # None}
            S == CallsKept(cs, new)
            h == [x \in S |-> FilledCall(new, x)]
<1>1. W = CallsIn(new) /\ OnePerCall(CallsIn(new)) /\ OnePerCall(W) /\ W \subseteq new
  BY DEF CallsIn
<1>. HIDE DEF W
<1>2. /\ IsFiniteSet(S)
      /\ \A r \in S : IsCall(r)
      /\ OnePerCall(S)
      /\ \A r \in S :
                 \/ r \in cs /\ ~\E c \in W : CallOf(c) = CallOf(r)
                 \/ \E c \in W :
                      /\ CallOf(c) = CallOf(r) /\ r.tool = c.tool /\ r.at = c.at
                      /\ \/ r.result = c.result /\ (r.result = Nil => OldOf(cs, c) = {})
                         \/ c.result = Nil /\ \E x \in cs : CallOf(x) = CallOf(c) /\ r.result = x.result
      /\ \A x \in cs \cup W : \E r \in S : CallOf(r) = CallOf(x)
      /\ \A x \in cs : (~\E c \in W : CallOf(c) = CallOf(x)) => x \in S
  <2>1. /\ IsFiniteSet(CallsKept(cs, new))
        /\ \A r \in CallsKept(cs, new) : IsCall(r)
        /\ OnePerCall(CallsKept(cs, new))
        /\ \A r \in CallsKept(cs, new) :
                 \/ r \in cs /\ ~\E c \in CallsIn(new) : CallOf(c) = CallOf(r)
                 \/ \E c \in CallsIn(new) :
                      /\ CallOf(c) = CallOf(r) /\ r.tool = c.tool /\ r.at = c.at
                      /\ \/ r.result = c.result /\ (r.result = Nil => OldOf(cs, c) = {})
                         \/ c.result = Nil /\ \E x \in cs : CallOf(x) = CallOf(c) /\ r.result = x.result
        /\ \A x \in cs \cup CallsIn(new) : \E r \in CallsKept(cs, new) : CallOf(r) = CallOf(x)
        /\ \A x \in cs : (~\E c \in CallsIn(new) : CallOf(c) = CallOf(x)) => x \in CallsKept(cs, new)
    BY <1>1, CallsKeptAre
  <2>. HIDE DEF S
  <2>. QED BY <1>1, <2>1 DEF S
<1>. HIDE DEF S
<1>3. R = {h[x] : x \in S}
  BY UpsertIs DEF S
<1>4. \A x \in S :
        /\ h[x] \in R /\ IsCall(h[x]) /\ CallOf(h[x]) = CallOf(x) /\ h[x].tool = x.tool
        /\ h[x].at = x.at
        /\ \/ h[x] = x /\ (x.result = Nil => LateOf(new, x) = {})
           \/ x.result = Nil /\ \E c \in LateOf(new, x) : h[x].result = c.result
  <2>1. SUFFICES ASSUME NEW x \in S
                 PROVE  /\ h[x] \in R /\ IsCall(h[x]) /\ CallOf(h[x]) = CallOf(x)
                        /\ h[x].tool = x.tool /\ h[x].at = x.at
                        /\ \/ h[x] = x /\ (x.result = Nil => LateOf(new, x) = {})
                           \/ x.result = Nil /\ \E c \in LateOf(new, x) : h[x].result = c.result
    OBVIOUS
  <2>2. h[x] = FilledCall(new, x) /\ IsCall(x)
    BY <1>2
  <2>3. h[x] \in R
    <3>. HIDE DEF h, R
    <3>. QED BY <1>3
  <2>. HIDE DEF h, R
  <2>. QED BY <2>2, <2>3, FilledCallIs
<1>5. \A r \in R : \E x \in S : r = h[x]
  <2>. HIDE DEF h, R
  <2>. QED BY <1>3
<1>6. IsFiniteSet(R)
  <2>. HIDE DEF h, R
  <2>. QED BY <1>2, <1>3, ImageFinite
<1>. HIDE DEF h, R
<1>7. \A x \in S : \A c \in LateOf(new, x) : c \in new /\ c.tool = None /\ CallOf(c) = CallOf(x)
  BY DEF LateOf
<1>8. OnePerCall(R)
  <2>1. ASSUME NEW a \in R, NEW b \in R, CallOf(a) = CallOf(b) PROVE a = b
    <3>1. PICK x \in S : a = h[x]
      BY <1>5
    <3>2. PICK y \in S : b = h[y]
      BY <1>5
    <3>3. x = y
      BY <1>2, <1>4, <2>1, <3>1, <3>2 DEF OnePerCall
    <3>. QED BY <3>1, <3>2, <3>3
  <2>. QED BY <2>1 DEF OnePerCall
<1>9. ASSUME NEW r \in R
      PROVE  \E x \in cs \cup W :
                 /\ CallOf(x) = CallOf(r) /\ r.tool = x.tool /\ r.at = x.at
                 /\ x \in W \/ ~\E c \in W : CallOf(c) = CallOf(r)
  <2>1. PICK s \in S : r = h[s]
    BY <1>5
  <2>2. CallOf(r) = CallOf(s) /\ r.tool = s.tool /\ r.at = s.at
    BY <1>4, <2>1
  <2>3. CASE s \in cs /\ ~\E c \in W : CallOf(c) = CallOf(s)
    BY <2>2, <2>3
  <2>4. CASE \E c \in W : CallOf(c) = CallOf(s) /\ s.tool = c.tool /\ s.at = c.at
    BY <2>2, <2>4
  <2>. QED BY <1>2, <2>3, <2>4
<1>10. ASSUME NEW r \in R, r.result # Nil
       PROVE  \E y \in cs \cup new : CallOf(y) = CallOf(r) /\ r.result = y.result
  <2>1. PICK s \in S : r = h[s]
    BY <1>5
  <2>2. CallOf(r) = CallOf(s)
    BY <1>4, <2>1
  <2>3. CASE r = s
    <3>1. CASE s \in cs
      BY <2>3, <3>1
    <3>2. CASE \E c \in W :
                      /\ CallOf(c) = CallOf(s)
                      /\ \/ s.result = c.result
                         \/ \E x \in cs : CallOf(x) = CallOf(c) /\ s.result = x.result
      BY <2>3, <3>2, <1>1
    <3>. QED BY <1>2, <3>1, <3>2
  <2>4. CASE \E c \in LateOf(new, s) : r.result = c.result
    BY <2>2, <2>4, <1>7
  <2>. QED BY <1>4, <2>1, <2>3, <2>4
<1>11. ASSUME NEW r \in R, r.result = Nil, NEW y \in cs \cup new, CallOf(y) = CallOf(r)
       PROVE  y.result = Nil
  <2>1. PICK s \in S : r = h[s]
    BY <1>5
  <2>2. CallOf(r) = CallOf(s)
    BY <1>4, <2>1
  <2>3. r = s /\ LateOf(new, s) = {}
    BY <1>4, <1>7, <1>11, <2>1
  <2>4. (y.tool = None => y \notin new) /\ (y \in new => y.tool = None \/ y \in W)
    BY <2>2, <2>3, <1>11 DEF LateOf, W
  <2>5. CASE s \in cs /\ ~\E c \in W : CallOf(c) = CallOf(s)
    <3>1. y \in cs
      BY <2>2, <2>4, <2>5, <1>11
    <3>2. y = s
      BY <3>1, <2>2, <2>5, <1>11 DEF OnePerCall
    <3>. QED BY <3>2, <2>3, <1>11
  <2>6. CASE \E c \in W :
                      /\ CallOf(c) = CallOf(s)
                      /\ \/ s.result = c.result /\ (s.result = Nil => OldOf(cs, c) = {})
                         \/ c.result = Nil /\ \E x \in cs : CallOf(x) = CallOf(c) /\ s.result = x.result
    <3>1. PICK c \in W :
                      /\ CallOf(c) = CallOf(s)
                      /\ \/ s.result = c.result /\ (s.result = Nil => OldOf(cs, c) = {})
                         \/ c.result = Nil /\ \E x \in cs : CallOf(x) = CallOf(c) /\ s.result = x.result
      BY <2>6
    <3>2. c.result = Nil
      BY <3>1, <2>3, <1>11
    <3>3. CASE y \in new
      <4>1. y \in W
        BY <3>3, <2>4
      <4>2. y = c
        BY <4>1, <3>1, <2>2, <1>1, <1>11 DEF OnePerCall
      <4>. QED BY <4>2, <3>2
    <3>4. CASE y \in cs
      <4>1. y \in OldOf(cs, c)
        BY <3>4, <3>1, <2>2, <1>11 DEF OldOf
      <4>2. PICK x \in cs : CallOf(x) = CallOf(c) /\ s.result = x.result
        BY <4>1, <3>1, <2>3, <1>11
      <4>3. y = x
        BY <4>2, <3>1, <2>2, <3>4, <1>11 DEF OnePerCall
      <4>. QED BY <4>2, <4>3, <2>3, <1>11
    <3>. QED BY <3>3, <3>4
  <2>. QED BY <1>2, <2>5, <2>6
<1>12. ASSUME NEW x \in cs \cup W PROVE \E r \in R : CallOf(r) = CallOf(x)
  BY <1>2, <1>4
<1>13. ASSUME NEW r \in R, \A y \in new : CallOf(y) # CallOf(r) PROVE r \in cs
  <2>1. PICK s \in S : r = h[s]
    BY <1>5
  <2>2. CallOf(r) = CallOf(s)
    BY <1>4, <2>1
  <2>3. r = s
    BY <1>4, <1>7, <1>13, <2>1, <2>2
  <2>. QED BY <1>1, <1>2, <1>13, <2>2, <2>3
<1>14. \A r \in R : IsCall(r)
  BY <1>4, <1>5
<1>. QED BY <1>6, <1>8, <1>9, <1>10, <1>11, <1>12, <1>13, <1>14 DEF R, W

-----------------------------------------------------------------------------
(***************************************************************************)
(* The reads, step by step.                                                *)
(***************************************************************************)
(* A transcript's calls are of its session.                                *)
LEMMA CallsKeyIs ==
  ASSUME on \in Desks, NEW f \in Transcripts, Kind[f] \in {"claude", "codex"}
  PROVE  <<CallVendor(f), File[f].session>> \in SessionsOf(f)
BY DEF CallVendor, SessionsOf

(* What the lines of one source read so far show, after a read of the      *)
(* lines P.                                                                *)
LEMMA OwnCallsStand ==
  ASSUME on \in Desks, NEW f \in Transcripts, Kind[f] \in {"claude", "codex"},
         NEW n \in 0..Len(Lines[f]), NEW m \in 0..n, NEW from \in {0, m},
         from = 0 => n = m \/ m = 0,
         CallsInv, HasCalls(calls, f, 1..m), OnlyCalls(calls, f, 1..m),
         NEW N, CallsSound(f, N, (from + 1)..n)
  PROVE  LET R == UpsertToolCalls(calls, N)
         IN HasCalls(R, f, 1..n) /\ OnlyCalls(R, f, 1..n)
<1>. DEFINE R == UpsertToolCalls(calls, N)
            W == {c \in N : c.tool # None}
            O == 1..m
            P == (from + 1)..n
            Q == 1..n
            K(k) == <<CallVendor(f), File[f].session, k>>
<1>1. /\ PairsUp(f) /\ DOMAIN Lines[f] = 1..Len(Lines[f]) /\ Len(Lines[f]) \in Nat
      /\ f \in on.sources
  BY PairsHold DEF Transcripts
<1>2. /\ m \in Nat /\ n \in Nat /\ O \subseteq Q /\ P \subseteq Q /\ Q \subseteq DOMAIN Lines[f]
      /\ Q \subseteq O \cup P /\ Q \subseteq Int
      /\ \A i \in P : \A j \in Q : i < j => j \in P
      /\ P = Q \/ \A i \in P : \A j \in O : j < i
  BY <1>1
<1>3. /\ IsFiniteSet(N)
      /\ \A c \in N : IsCall(c) /\ KeyOf(c) = <<CallVendor(f), File[f].session>>
      /\ \A c \in N : c.tool # None => \E i \in P : \E u \in UsesAt(f, i) : ShowsCall(f, P, i, u, c)
      /\ HasCalls(W, f, P)
      /\ \A c \in N : c.tool = None => \E j \in P : \E g \in GotAt(f, j) : c.call = g.call /\ c.result = g.bytes
      /\ \A j \in P : \A g \in GotAt(f, j) :
           (\A i \in P : \A u \in UsesAt(f, i) : u.call # g.call) =>
              \E c \in N : c.tool = None /\ c.call = g.call
      /\ OnePerCall(W)
  BY DEF CallsSound
<1>4. \A i \in Q : /\ \A g \in GotAt(f, i) : g.bytes \in Nat
                   /\ \A g \in GotAt(f, i) : \A j \in Q : \A u \in UsesAt(f, j) : u.call = g.call => j < i
  BY <1>1, <1>2 DEF PairsUp
<1>. HIDE DEF O, P, Q
<1>5. \A c \in N : c.tool = None => c.result # Nil
  <2>1. SUFFICES ASSUME NEW c \in N, c.tool = None PROVE c.result # Nil
    OBVIOUS
  <2>2. PICK j \in P : \E g \in GotAt(f, j) : c.result = g.bytes
    BY <1>3, <2>1
  <2>3. c.result \in Nat
    BY <1>2, <1>4, <2>2
  <2>. QED BY <2>3 DEF Nil
<1>6. IsFiniteSet(calls) /\ (\A c \in calls : IsCall(c)) /\ OnePerCall(calls)
  BY DEF CallsInv, CallsMade
<1>7. /\ \A r \in R : \E x \in calls \cup W :
                 /\ CallOf(x) = CallOf(r) /\ r.tool = x.tool /\ r.at = x.at
                 /\ x \in W \/ ~\E c \in W : CallOf(c) = CallOf(r)
      /\ \A r \in R : r.result # Nil =>
                 \E y \in calls \cup N : CallOf(y) = CallOf(r) /\ r.result = y.result
      /\ \A r \in R : r.result = Nil =>
                 \A y \in calls \cup N : CallOf(y) = CallOf(r) => y.result = Nil
      /\ \A x \in calls \cup W : \E r \in R : CallOf(r) = CallOf(x)
      /\ \A r \in R : IsCall(r)
  BY <1>3, <1>5, <1>6, CallsUpserted
<1>8. \A c \in N : CallOf(c) = K(c.call)
  BY <1>3 DEF KeyOf, CallOf
<1>9. \A x, y : IsCall(x) /\ IsCall(y) /\ CallOf(x) = CallOf(y) => KeyOf(x) = KeyOf(y) /\ x.call = y.call
  BY DEF CallOf, KeyOf
<1>. HIDE DEF R, W
<1>w. W \subseteq N /\ \A c \in N : c.tool # None => c \in W
  BY DEF W
<1>10. HasCalls(R, f, Q)
  <2>1. SUFFICES ASSUME NEW i \in Q, NEW u \in UsesAt(f, i)
                 PROVE  \E r \in R : CallOf(r) = K(u.call)
    BY DEF HasCalls
  <2>2. \E x \in calls \cup W : CallOf(x) = K(u.call)
    <3>1. CASE i \in P
      BY <3>1, <1>3 DEF HasCalls
    <3>2. CASE i \in O
      BY <3>2 DEF HasCalls, O
    <3>. QED BY <1>2, <3>1, <3>2
  <2>. QED BY <1>7, <2>2
<1>11. ASSUME NEW r \in R, KeyOf(r) \in SessionsOf(f)
       PROVE  \E i \in Q : \E u \in UsesAt(f, i) : ShowsCall(f, Q, i, u, r)
  <2>1. PICK x \in calls \cup W :
                 /\ CallOf(x) = CallOf(r) /\ r.tool = x.tool /\ r.at = x.at
                 /\ x \in W \/ ~\E c \in W : CallOf(c) = CallOf(r)
    BY <1>7
  <2>2. /\ \A y \in calls : CallOf(y) = CallOf(r) =>
              \E i \in O : \E u \in UsesAt(f, i) : ShowsCall(f, O, i, u, y)
    <3>1. SUFFICES ASSUME NEW y \in calls, CallOf(y) = CallOf(r) PROVE KeyOf(y) \in SessionsOf(f)
      BY DEF OnlyCalls, O
    <3>2. KeyOf(y) = KeyOf(r)
      BY <1>6, <1>7, <1>9, <3>1
    <3>. QED BY <1>11, <3>2
  <2>3. \A k : CallOf(r) = K(k) /\ r.result # Nil =>
          \E j \in Q : \E g \in GotAt(f, j) : g.call = k /\ r.result = g.bytes
    <3>1. SUFFICES ASSUME NEW k, CallOf(r) = K(k), r.result # Nil
                   PROVE  \E j \in Q : \E g \in GotAt(f, j) : g.call = k /\ r.result = g.bytes
      OBVIOUS
    <3>2. PICK y \in calls \cup N : CallOf(y) = CallOf(r) /\ r.result = y.result
      BY <1>7, <3>1
    <3>3. CASE y \in calls
      <4>1. PICK i \in O : \E u \in UsesAt(f, i) : ShowsCall(f, O, i, u, y)
        BY <2>2, <3>2, <3>3
      <4>2. PICK u \in UsesAt(f, i) : ShowsCall(f, O, i, u, y)
        BY <4>1
      <4>3. u.call = k /\ ResultIs(f, O, u.call, r.result)
        BY <3>1, <3>2, <4>2 DEF ShowsCall
      <4>. QED BY <4>3, <3>1, <1>2 DEF ResultIs
    <3>4. CASE y \in N /\ y.tool # None
      <4>1. PICK i \in P : \E u \in UsesAt(f, i) : ShowsCall(f, P, i, u, y)
        BY <1>3, <3>4
      <4>2. PICK u \in UsesAt(f, i) : ShowsCall(f, P, i, u, y)
        BY <4>1
      <4>3. u.call = k /\ ResultIs(f, P, u.call, r.result)
        BY <3>1, <3>2, <4>2 DEF ShowsCall
      <4>. QED BY <4>3, <3>1, <1>2 DEF ResultIs
    <3>5. CASE y \in N /\ y.tool = None
      <4>1. PICK j \in P : \E g \in GotAt(f, j) : y.call = g.call /\ y.result = g.bytes
        BY <1>3, <3>5
      <4>2. y.call = k
        BY <3>1, <3>2, <3>5, <1>8
      <4>. QED BY <4>1, <4>2, <3>2, <1>2
    <3>. QED BY <3>3, <3>4, <3>5
  <2>4. CASE x \in W
    <3>1. PICK i \in P : \E u \in UsesAt(f, i) : ShowsCall(f, P, i, u, x)
      BY <1>3, <2>4, <1>w DEF W
    <3>2. PICK u \in UsesAt(f, i) : ShowsCall(f, P, i, u, x)
      BY <3>1
    <3>3. CallOf(r) = K(u.call) /\ r.tool = u.tool /\ r.at = Lines[f][i].at
      BY <2>1, <3>2 DEF ShowsCall
    <3>4. LastUse(f, Q, i, u.call)
      BY <1>2, <3>2 DEF LastUse, ShowsCall
    <3>5. ResultIs(f, Q, u.call, r.result)
      <4>1. CASE r.result # Nil
        BY <4>1, <3>3, <2>3 DEF ResultIs
      <4>2. CASE r.result = Nil
        <5>1. SUFFICES ASSUME NEW j \in Q, NEW g \in GotAt(f, j), g.call = u.call PROVE FALSE
          BY <4>2 DEF ResultIs
        <5>2. i < j
          BY <5>1, <1>2, <1>4
        <5>3. j \in P
          BY <5>2, <1>2
        <5>4. x.result = Nil
          BY <4>2, <2>1, <1>7, <1>w
        <5>5. g.bytes \in Nat /\ \A h \in P : \A y \in GotAt(f, h) : y.bytes \in Nat
          BY <1>2, <1>4
        <5>6. ResultIs(f, P, u.call, Nil)
          BY <5>4, <3>2 DEF ShowsCall
        <5>. QED BY <5>1, <5>3, <5>5, <5>6 DEF ResultIs, Nil
      <4>. QED BY <4>1, <4>2
    <3>6. i \in Q
      BY <1>2
    <3>. QED BY <3>3, <3>4, <3>5, <3>6 DEF ShowsCall
  <2>5. CASE x \in calls /\ ~\E c \in W : CallOf(c) = CallOf(r)
    <3>1. PICK i \in O : \E u \in UsesAt(f, i) : ShowsCall(f, O, i, u, x)
      BY <2>1, <2>2, <2>5
    <3>2. PICK u \in UsesAt(f, i) : ShowsCall(f, O, i, u, x)
      BY <3>1
    <3>3. CallOf(r) = K(u.call) /\ r.tool = u.tool /\ r.at = Lines[f][i].at
      BY <2>1, <3>2 DEF ShowsCall
    <3>n. \A j \in P : \A v \in UsesAt(f, j) : v.call # u.call
      <4>1. SUFFICES ASSUME NEW j \in P, NEW v \in UsesAt(f, j), v.call = u.call PROVE FALSE
        OBVIOUS
      <4>2. PICK c \in W : CallOf(c) = K(v.call)
        BY <1>3 DEF HasCalls
      <4>. QED BY <4>1, <4>2, <3>3, <2>5
    <3>4. LastUse(f, Q, i, u.call)
      <4>1. SUFFICES ASSUME NEW j \in Q, i < j, NEW v \in UsesAt(f, j), v.call = u.call PROVE FALSE
        BY DEF LastUse
      <4>2. j \in O
        BY <4>1, <3>n, <1>2
      <4>. QED BY <4>1, <4>2, <3>2 DEF ShowsCall, LastUse
    <3>5. ResultIs(f, Q, u.call, r.result)
      <4>1. CASE r.result # Nil
        BY <4>1, <3>3, <2>3 DEF ResultIs
      <4>2. CASE r.result = Nil
        <5>1. SUFFICES ASSUME NEW j \in Q, NEW g \in GotAt(f, j), g.call = u.call PROVE FALSE
          BY <4>2 DEF ResultIs
        <5>2. CASE j \in O
          <6>1. x.result = Nil
            BY <4>2, <2>1, <2>5, <1>7
          <6>2. g.bytes \in Nat /\ \A h \in O : \A y \in GotAt(f, h) : y.bytes \in Nat
            BY <1>2, <1>4
          <6>3. ResultIs(f, O, u.call, Nil)
            BY <6>1, <3>2 DEF ShowsCall
          <6>. QED BY <5>1, <5>2, <6>2, <6>3 DEF ResultIs, Nil
        <5>3. CASE j \in P
          <6>1. PICK c \in N : c.tool = None /\ c.call = g.call
            BY <5>1, <5>3, <3>n, <1>3
          <6>2. CallOf(c) = CallOf(r)
            BY <6>1, <5>1, <3>3, <1>8
          <6>. QED BY <6>1, <6>2, <4>2, <1>5, <1>7
        <5>. QED BY <5>2, <5>3, <1>2
      <4>. QED BY <4>1, <4>2
    <3>6. i \in Q
      BY <1>2
    <3>. QED BY <3>2, <3>3, <3>4, <3>5, <3>6 DEF ShowsCall
  <2>. QED BY <2>1, <2>4, <2>5
<1>. QED BY <1>10, <1>11 DEF OnlyCalls, R, Q

(* What a read of any transcript hands over.                               *)
LEMMA ReadCallsAre ==
  ASSUME on \in Desks, NEW f \in Transcripts, NEW n \in 0..Len(Lines[f]), NEW from \in Nat
  PROVE  LET N == ParseCalls(f, Text(f, n), from)
             P == (from + 1)..n
         IN /\ IsFiniteSet(N)
            /\ \A c \in N : IsCall(c) /\ KeyOf(c) \in SessionsOf(f) /\ Kind[f] \in {"claude", "codex"}
                              /\ KeyOf(c) = <<CallVendor(f), File[f].session>>
            /\ OnePerCall({c \in N : c.tool # None})
            /\ \A c \in N : c.tool = None => c.result # Nil
            /\ Kind[f] \in {"claude", "codex"} => CallsSound(f, N, P)
            /\ Kind[f] = "cloud" => N = {}
<1>. DEFINE N == ParseCalls(f, Text(f, n), from)
            P == (from + 1)..n
<1>1. Kind[f] \in {"claude", "cloud", "codex"}
  BY DEF Transcripts, IsTranscript
<1>2. CASE Kind[f] = "cloud"
  <2>1. N = {}
    BY <1>2 DEF ParseCalls
  <2>. HIDE DEF N
  <2>. QED BY <1>2, <2>1, FS_EmptySet DEF OnePerCall, N
<1>3. CASE Kind[f] \in {"claude", "codex"}
  <2>1. CallsSound(f, N, P)
    BY <1>3, CallsRead
  <2>2. <<CallVendor(f), File[f].session>> \in SessionsOf(f)
    BY <1>3, CallsKeyIs
  <2>3. PairsUp(f) /\ P \subseteq DOMAIN Lines[f]
    BY PairsHold
  <2>. HIDE DEF N, P
  <2>4. ASSUME NEW c \in N, c.tool = None PROVE c.result # Nil
    <3>1. PICK j \in P : \E g \in GotAt(f, j) : c.result = g.bytes
      BY <2>1, <2>4 DEF CallsSound
    <3>2. c.result \in Nat
      BY <2>3, <3>1 DEF PairsUp
    <3>. QED BY <3>2 DEF Nil
  <2>. QED BY <1>3, <2>1, <2>2, <2>4 DEF CallsSound, N, P
<1>. QED BY <1>1, <1>2, <1>3

(* A read of another transcript disturbs nothing.                          *)
LEMMA OthersCallsStand ==
  ASSUME on \in Desks, NEW f \in Transcripts, NEW g \in Transcripts, f # g, CallsInv,
         NEW Q, HasCalls(calls, g, Q), OnlyCalls(calls, g, Q),
         NEW N, IsFiniteSet(N), \A c \in N : IsCall(c) /\ KeyOf(c) \in SessionsOf(f),
         OnePerCall({c \in N : c.tool # None}), \A c \in N : c.tool = None => c.result # Nil
  PROVE  LET R == UpsertToolCalls(calls, N)
         IN HasCalls(R, g, Q) /\ OnlyCalls(R, g, Q)
<1>. DEFINE R == UpsertToolCalls(calls, N)
<1>1. /\ \A r \in R : IsCall(r)
      /\ \A x \in calls : \E r \in R : CallOf(r) = CallOf(x)
      /\ \A r \in R : (\A y \in N : CallOf(y) # CallOf(r)) => r \in calls
  BY CallsUpserted DEF CallsInv, CallsMade
<1>. HIDE DEF R
<1>2. HasCalls(R, g, Q)
  BY <1>1 DEF HasCalls
<1>3. SessionsOf(f) \cap SessionsOf(g) = {}
  <2>1. f \in on.sources /\ g \in on.sources
    BY DEF Transcripts
  <2>. QED BY <2>1, SourcesApart DEF Apart
<1>4. OnlyCalls(R, g, Q)
  <2>1. ASSUME NEW r \in R, KeyOf(r) \in SessionsOf(g) PROVE r \in calls
    <3>1. SUFFICES ASSUME NEW y \in N, CallOf(y) = CallOf(r) PROVE FALSE
      BY <1>1
    <3>2. KeyOf(y) = KeyOf(r)
      BY <3>1 DEF KeyOf, CallOf
    <3>. QED BY <3>2, <2>1, <1>3
  <2>. QED BY <2>1 DEF OnlyCalls
<1>. QED BY <1>2, <1>4 DEF R

(* Read and ReadAgain keep the invariant.                                  *)
LEMMA CallsTake ==
  ASSUME StoreInv, CallsInv, NEW f \in Transcripts, NEW n \in 0..Len(Lines[f]),
         NEW from \in {0, read[f]}, read[f] <= n, from = 0 => n = read[f] \/ read[f] = 0,
         Take(f, from, n)
  PROVE  CallsInv'
<1>. DEFINE N == ParseCalls(f, Text(f, n), from)
            P == (from + 1)..n
<1>1. /\ on \in Desks /\ ReadTyped
  BY DEF StoreInv
<1>2. /\ calls' = UpsertToolCalls(calls, N) /\ read' = [read EXCEPT ![f] = n] /\ on' = on
  BY DEF Take
<1>3. f \in on.sources /\ read[f] \in 0..n /\ from \in {0, read[f]} /\ from \in Nat
      /\ Kind[f] \in {"claude", "cloud", "codex"}
  BY <1>1 DEF Transcripts, ReadTyped, IsTranscript
<1>4. /\ IsFiniteSet(N)
      /\ \A c \in N : IsCall(c) /\ KeyOf(c) \in SessionsOf(f) /\ Kind[f] \in {"claude", "codex"}
                              /\ KeyOf(c) = <<CallVendor(f), File[f].session>>
      /\ OnePerCall({c \in N : c.tool # None})
      /\ \A c \in N : c.tool = None => c.result # Nil
      /\ Kind[f] \in {"claude", "codex"} => CallsSound(f, N, P)
      /\ Kind[f] = "cloud" => N = {}
  BY <1>1, <1>3, ReadCallsAre
<1>. HIDE DEF N, P
<1>5. /\ IsFiniteSet(calls') /\ (\A r \in calls' : IsCall(r)) /\ OnePerCall(calls')
      /\ \A r \in calls' : \E x \in calls \cup N : CallOf(x) = CallOf(r)
      /\ \A r \in calls' : (\A y \in N : CallOf(y) # CallOf(r)) => r \in calls
  <2>1. IsFiniteSet(calls) /\ (\A c \in calls : IsCall(c)) /\ OnePerCall(calls)
    BY DEF CallsInv, CallsMade
  <2>. DEFINE R == UpsertToolCalls(calls, N)
  <2>2. /\ IsFiniteSet(R) /\ (\A r \in R : IsCall(r)) /\ OnePerCall(R)
        /\ \A r \in R : \E x \in calls \cup {c \in N : c.tool # None} : CallOf(x) = CallOf(r)
        /\ \A r \in R : (\A y \in N : CallOf(y) # CallOf(r)) => r \in calls
    BY <1>4, <2>1, CallsUpserted
  <2>3. R = calls'
    BY <1>2
  <2>. HIDE DEF R
  <2>4. OnePerCall(calls')
    BY <2>2, <2>3 DEF OnePerCall
  <2>. QED BY <2>2, <2>3, <2>4
<1>6. CallsMade'
  <2>1. SUFFICES ASSUME NEW r \in calls'
                 PROVE  \E g \in on.sources : /\ Kind[g] \in {"claude", "codex"}
                                              /\ KeyOf(r) = <<CallVendor(g), File[g].session>>
    BY <1>2, <1>5 DEF CallsMade
  <2>2. PICK x \in calls \cup N : CallOf(x) = CallOf(r)
    BY <1>5
  <2>3. KeyOf(x) = KeyOf(r)
    BY <2>2 DEF CallOf, KeyOf
  <2>. QED BY <1>3, <1>4, <2>3 DEF CallsInv, CallsMade
<1>7. read'[f] = n /\ \A g \in Transcripts : g # f => read'[g] = read[g]
  BY <1>1, <1>2, <1>3 DEF ReadTyped, Transcripts
<1>8. CallsStand'
  <2>1. SUFFICES ASSUME NEW g \in Transcripts
                 PROVE  HasCalls(calls', g, 1..read'[g]) /\ OnlyCalls(calls', g, 1..read'[g])
    BY <1>2 DEF CallsStand, Transcripts, HasCalls, OnlyCalls
  <2>2. HasCalls(calls, g, 1..read[g]) /\ OnlyCalls(calls, g, 1..read[g])
    BY DEF CallsInv, CallsStand
  <2>3. CASE g # f
    BY <1>1, <1>2, <1>4, <1>7, <2>2, <2>3, OthersCallsStand
  <2>4. CASE g = f /\ Kind[f] \in {"claude", "codex"}
    <3>1. CallsSound(f, N, (from + 1)..n)
      BY <1>4, <2>4 DEF P
    <3>2. HasCalls(UpsertToolCalls(calls, N), f, 1..n) /\ OnlyCalls(UpsertToolCalls(calls, N), f, 1..n)
      BY <1>1, <1>3, <2>2, <2>4, <3>1, OwnCallsStand
    <3>. QED BY <1>2, <1>7, <2>4, <3>2
  <2>5. CASE g = f /\ Kind[f] = "cloud"
    <3>1. \A i : UsesAt(f, i) = {}
      BY <2>5 DEF UsesAt
    <3>2. HasCalls(calls', f, 1..n)
      BY <3>1 DEF HasCalls
    <3>3. OnlyCalls(calls', f, 1..n)
      <4>1. SUFFICES ASSUME NEW r \in calls', KeyOf(r) \in SessionsOf(f) PROVE FALSE
        BY DEF OnlyCalls
      <4>2. PICK h \in on.sources : /\ Kind[h] \in {"claude", "codex"}
                                    /\ KeyOf(r) = <<CallVendor(h), File[h].session>>
        BY <1>2, <1>6 DEF CallsMade
      <4>3. h # f /\ h \in Transcripts
        BY <2>5, <4>2 DEF Transcripts, IsTranscript
      <4>4. KeyOf(r) \in SessionsOf(h)
        BY <1>1, <4>2, <4>3, CallsKeyIs
      <4>5. SessionsOf(f) \cap SessionsOf(h) = {}
        BY <1>1, <1>3, <4>3, SourcesApart DEF Apart
      <4>. QED BY <4>1, <4>4, <4>5
    <3>. QED BY <1>7, <2>5, <3>2, <3>3
  <2>. QED BY <1>3, <2>3, <2>4, <2>5
<1>. QED BY <1>5, <1>6, <1>8 DEF CallsInv, OnePerCall

(* Every step keeps the invariant.                                         *)
LEMMA CallsStep == StoreInv /\ CallsInv /\ [ViewsNext]_viewVars => CallsInv'
<1>. SUFFICES ASSUME StoreInv, CallsInv, [ViewsNext]_viewVars PROVE CallsInv'
  OBVIOUS
<1>0. /\ on \in Desks /\ ReadTyped
  BY DEF StoreInv
<1>1. ASSUME NEW f \in Transcripts, Read(f) PROVE CallsInv'
  <2>1. PICK n \in Stops[f] : read[f] < n /\ n <= Written(f) /\ Take(f, read[f], n)
    BY <1>1 DEF Read
  <2>2. f \in on.sources /\ IsTranscript(f) /\ read[f] \in Nat
    BY <1>0 DEF Transcripts, ReadTyped
  <2>3. n \in Nat
    <3>1. IsDesk(on)
      BY <1>0, ViewsAssumption
    <3>. QED BY <2>2, <3>1 DEF IsDesk
  <2>4. n \in 0..Len(Lines[f]) /\ read[f] <= n
    <3>1. Written(f) \in 0..Len(Lines[f]) /\ Len(Lines[f]) \in Nat
      BY <1>0, <2>2, WrittenIs, SourceIs
    <3>. QED BY <2>1, <2>2, <2>3, <3>1
  <2>. QED BY <2>1, <2>4, CallsTake
<1>2. ASSUME NEW f \in Transcripts, ReadAgain(f) PROVE CallsInv'
  <2>1. read[f] \in 0..Len(Lines[f]) /\ read[f] <= read[f]
    <3>1. f \in on.sources
      BY DEF Transcripts
    <3>. QED BY <1>0, <3>1, SourceIs DEF ReadTyped
  <2>. QED BY <1>2, <2>1, CallsTake DEF ReadAgain
<1>3. ASSUME UNCHANGED <<on, read, calls>> PROVE CallsInv'
  BY <1>3 DEF CallsInv, CallsMade, CallsStand, OnePerCall, HasCalls, OnlyCalls, Transcripts
<1>4. (\E f \in Transcripts : Read(f) \/ ReadAgain(f)) \/ UNCHANGED <<on, read, calls>>
  BY DEF ViewsNext, viewVars, PollVSCode, RestartTail, PollHermes, PollCopilotCLI, TimePasses,
         SaveRules, Reown
<1>. QED BY <1>1, <1>2, <1>3, <1>4

(* An empty table has it.                                                  *)
LEMMA CallsInit == ViewsInit => CallsInv
<1>. SUFFICES ASSUME ViewsInit PROVE CallsInv
  OBVIOUS
<1>1. calls = {} /\ read = [f \in on.sources |-> 0]
  BY DEF ViewsInit
<1>2. \A f \in Transcripts : 1..read[f] = {}
  BY <1>1 DEF Transcripts
<1>. QED BY <1>1, <1>2, FS_EmptySet DEF CallsInv, CallsMade, OnePerCall, CallsStand, HasCalls, OnlyCalls

(* However transcripts are cut into reads and read again, the table of tool *)
(* calls has each call once, as the lines read so far tell it and with the *)
(* result they bring (store.UpsertToolCalls).                              *)
THEOREM CallsAreSound == ViewsInit /\ [][ViewsNext]_viewVars => []CallsInv
<1>1. ViewsInit => CallsInv /\ StoreInv
  BY CallsInit, StoreInit
<1>2. CallsInv /\ StoreInv /\ [ViewsNext]_viewVars => (CallsInv /\ StoreInv)'
  BY CallsStep, StoreStep
<1>. QED BY <1>1, <1>2, PTL

-----------------------------------------------------------------------------
(***************************************************************************)
(* What the store has of a transcript's calls is what one read of it gives. *)
(***************************************************************************)
(* A sum of one.                                                           *)
LEMMA SumOfOne ==
  ASSUME NEW f, NEW x, f[x] \in Int
  PROVE  SumFunctionOnSet(f, {x}) = f[x]
<1>1. IsFiniteSet({x}) /\ {x} \ {x} = {} /\ x \in {x} /\ \A y \in {x} : f[y] \in Int
  BY FS_Singleton
<1>2. SumFunctionOnSet(f, {x}) = f[x] + SumFunctionOnSet(f, {x} \ {x})
  BY <1>1, SumTakesInt
<1>. QED BY <1>1, <1>2, SumOfNone

(* Two sums whose terms pair up are one.                                   *)
LEMMA SumAlong ==
  ASSUME NEW f, NEW S, IsFiniteSet(S), \A x \in S : f[x] \in Int,
         NEW g, NEW T, IsFiniteSet(T),
         NEW h, \A x \in S : h[x] \in T /\ g[h[x]] = f[x],
         \A x, y \in S : h[x] = h[y] => x = y, \A y \in T : \E x \in S : h[x] = y
  PROVE  SumFunctionOnSet(g, T) = SumFunctionOnSet(f, S)
<1>1. ASSUME NEW c \in T PROVE g[c] = SumFunctionOnSet(f, Fibre(S, h, c))
  <2>1. PICK x \in S : h[x] = c
    OBVIOUS
  <2>2. {y \in S : h[y] = c} = {x}
    BY <2>1
  <2>3. SumFunctionOnSet(f, {x}) = f[x]
    BY SumOfOne
  <2>. QED BY <2>1, <2>2, <2>3 DEF Fibre
<1>. QED BY <1>1, SumByGroupInt

(* Every call of W is in C with its result, and the other way round.       *)
Pairs(W, C) == /\ \A c \in W : \E d \in C : Trail(d) = Trail(c)
               /\ \A d \in C : \E c \in W : Trail(d) = Trail(c)

(* A page of tool calls, and the calls it is made of.                      *)
LEMMA TotalsOfCalls ==
  ASSUME NEW C, IsFiniteSet(C), OnePerCall(C),
         \A d \in C : d.at \in Nat \ {1} /\ d.result \in Nat \cup {Nil},
         NEW W, IsFiniteSet(W), OnePerCall(W), Pairs(W, C)
  PROVE  LET totals == ToolCallTotals(C, 0)
         IN SumOver(DOMAIN totals, LAMBDA t : totals[t].bytes) = SumOver(W, LAMBDA c : Tokens(c.result))
<1>. DEFINE totals == ToolCallTotals(C, 0)
            D == {c.tool : c \in C}
            b == [t \in D |-> totals[t].bytes]
            r == [c \in C |-> Tokens(c.result)]
            k == [c \in C |-> c.tool]
            w == [c \in W |-> Tokens(c.result)]
            h == [c \in W |-> CHOOSE d \in C : Trail(d) = Trail(c)]
<1>1. {c \in C : TextGE(c.at, 0)} = C
  <2>1. ASSUME NEW d \in C PROVE TextGE(d.at, 0)
    <3>. DEFINE n == d.at
    <3>1. n \in Nat /\ n # 1
      OBVIOUS
    <3>. HIDE DEF n
    <3>2. AsText(n) >= 1 /\ AsText(0) = 1
      BY <3>1 DEF AsText
    <3>. QED BY <3>2 DEF TextGE, n
  <2>. QED BY <2>1
<1>2. /\ DOMAIN totals = D
      /\ \A t \in D : totals[t].bytes = SumOver({c \in C : c.tool = t}, LAMBDA c : Tokens(c.result))
  <2>1. totals = [t \in D |->
            [calls |-> Cardinality({c \in C : c.tool = t}),
             sessions |-> Cardinality({c.session : c \in {x \in C : x.tool = t}}),
             bytes |-> SumOver({c \in C : c.tool = t}, LAMBDA c : Tokens(c.result))]]
    BY <1>1 DEF ToolCallTotals
  <2>. HIDE DEF totals, D
  <2>. QED BY <2>1
<1>3. \A c \in C : r[c] \in Nat /\ k[c] \in D
  BY DEF Tokens
<1>4. \A t \in D : b[t] = SumFunctionOnSet(r, Fibre(C, k, t))
  <2>1. SUFFICES ASSUME NEW t \in D PROVE b[t] = SumFunctionOnSet(r, Fibre(C, k, t))
    OBVIOUS
  <2>. DEFINE G == Fibre(C, k, t)
              q == [c \in G |-> Tokens(c.result)]
  <2>2. G = {c \in C : c.tool = t}
    BY DEF Fibre
  <2>3. b[t] = SumFunctionOnSet(q, G)
    <3>. HIDE DEF totals, D
    <3>1. b[t] = SumOver({c \in C : c.tool = t}, LAMBDA c : Tokens(c.result))
      BY <1>2, <2>1
    <3>. QED BY <2>2, <3>1 DEF SumOver
  <2>4. IsFiniteSet(G)
    BY <2>2, FS_Subset
  <2>5. \A c \in G : q[c] = r[c]
    BY <2>2
  <2>. HIDE DEF q, r, G, b
  <2>6. SumFunctionOnSet(q, G) = SumFunctionOnSet(r, G)
    BY <2>4, <2>5, SumSame
  <2>. QED BY <2>3, <2>6 DEF G
<1>5. IsFiniteSet(D)
  <2>1. D = {k[c] : c \in C}
    OBVIOUS
  <2>. HIDE DEF D, k
  <2>. QED BY <2>1, ImageFinite
<1>6. SumFunctionOnSet(b, D) = SumFunctionOnSet(r, C)
  <2>1. (\A c \in C : r[c] \in Nat) /\ (\A c \in C : k[c] \in D)
    BY <1>3
  <2>. HIDE DEF b, r, k, D
  <2>. QED BY <2>1, <1>4, <1>5, SumByGroup
<1>7. /\ \A c \in W : h[c] \in C /\ r[h[c]] = w[c] /\ w[c] \in Nat
      /\ \A c, d \in W : h[c] = h[d] => c = d
      /\ \A d \in C : \E c \in W : h[c] = d
  <2>1. \A c \in W : h[c] \in C /\ Trail(h[c]) = Trail(c)
    BY DEF Pairs
  <2>. HIDE DEF h
  <2>2. \A x, y : Trail(x) = Trail(y) => CallOf(x) = CallOf(y) /\ x.result = y.result
    BY DEF Trail
  <2>3. \A c \in W : h[c] \in C /\ r[h[c]] = w[c] /\ w[c] \in Nat
    <3>1. SUFFICES ASSUME NEW c \in W PROVE h[c] \in C /\ r[h[c]] = w[c] /\ w[c] \in Nat
      OBVIOUS
    <3>2. h[c] \in C /\ h[c].result = c.result
      BY <2>1, <2>2
    <3>3. r[h[c]] = Tokens(h[c].result) /\ w[c] = Tokens(c.result)
      BY <3>2
    <3>. HIDE DEF r, w
    <3>. QED BY <3>2, <3>3, <1>3
  <2>4. ASSUME NEW c \in W, NEW d \in W, h[c] = h[d] PROVE c = d
    <3>1. CallOf(c) = CallOf(d)
      BY <2>1, <2>2, <2>4
    <3>. QED BY <3>1 DEF OnePerCall
  <2>5. ASSUME NEW d \in C PROVE \E c \in W : h[c] = d
    <3>1. PICK c \in W : Trail(d) = Trail(c)
      BY DEF Pairs
    <3>2. h[c] \in C /\ CallOf(h[c]) = CallOf(d)
      BY <2>1, <2>2, <3>1
    <3>. QED BY <3>2 DEF OnePerCall
  <2>. QED BY <2>3, <2>4, <2>5
<1>8. SumFunctionOnSet(r, C) = SumFunctionOnSet(w, W)
  <2>. HIDE DEF r, w, h
  <2>. QED BY <1>7, SumAlong
<1>9. SumOver(DOMAIN totals, LAMBDA t : totals[t].bytes) = SumFunctionOnSet(b, D)
  <2>. HIDE DEF totals, D
  <2>. QED BY <1>2 DEF SumOver
<1>10. SumOver(W, LAMBDA c : Tokens(c.result)) = SumFunctionOnSet(w, W)
  BY DEF SumOver
<1>. HIDE DEF totals, b, D, r, w
<1>11. SumOver(DOMAIN totals, LAMBDA t : totals[t].bytes) = SumOver(W, LAMBDA c : Tokens(c.result))
  BY <1>6, <1>8, <1>9, <1>10
<1>. QED BY <1>11 DEF totals

(* Two rows that show one call of one transcript are one.                  *)
LEMMA ShownOnce ==
  ASSUME on \in Desks, NEW f \in Transcripts, NEW n \in 0..Len(Lines[f]),
         NEW c, NEW d, NEW i \in 1..n, NEW j \in 1..n, NEW u \in UsesAt(f, i), NEW v \in UsesAt(f, j),
         ShowsCall(f, 1..n, i, u, c), ShowsCall(f, 1..n, j, v, d), u.call = v.call
  PROVE  Trail(d) = Trail(c) /\ c.at \in Nat \ {1} /\ c.result \in Nat \cup {Nil}
<1>1. /\ PairsUp(f) /\ DOMAIN Lines[f] = 1..Len(Lines[f]) /\ Len(Lines[f]) \in Nat
      /\ 1..n \subseteq DOMAIN Lines[f]
  BY PairsHold
<1>2. i = j
  <2>1. ~ i < j /\ ~ j < i
    BY DEF ShowsCall, LastUse
  <2>. QED BY <2>1
<1>3. u = v
  BY <1>1, <1>2 DEF PairsUp
<1>4. ResultIs(f, 1..n, u.call, c.result) /\ ResultIs(f, 1..n, u.call, d.result)
  BY DEF ShowsCall
<1>5. \A h \in 1..n : \A g \in GotAt(f, h) :
        /\ g.bytes \in Nat
        /\ \A p \in 1..n : \A s \in GotAt(f, p) : s.call = g.call => s.bytes = g.bytes
  BY <1>1 DEF PairsUp
<1>6. c.result = d.result /\ c.result \in Nat \cup {Nil}
  BY <1>4, <1>5 DEF ResultIs
<1>7. Lines[f][i].at \in Nat \ {1}
  BY <1>1 DEF PairsUp, IsStamp
<1>8. CallOf(c) = CallOf(d) /\ c.tool = d.tool /\ c.at = d.at /\ c.at = Lines[f][i].at
  BY <1>2, <1>3 DEF ShowsCall
<1>. QED BY <1>6, <1>7, <1>8 DEF Trail

(* The table's calls of a transcript pair up with those of one read of it. *)
LEMMA CallsLose ==
  ASSUME StoreInv, CallsInv, NEW f \in Transcripts
  PROVE  LET W == {c \in ParseCalls(f, Text(f, read[f]), 0) : c.tool # None}
             C == {c \in calls : KeyOf(c) \in SessionsOf(f)}
         IN /\ IsFiniteSet(W) /\ IsFiniteSet(C) /\ OnePerCall(W) /\ OnePerCall(C) /\ Pairs(W, C)
            /\ \A d \in C : d.at \in Nat \ {1} /\ d.result \in Nat \cup {Nil}
<1>. DEFINE n == read[f]
            N == ParseCalls(f, Text(f, n), 0)
            W == {c \in N : c.tool # None}
            C == {c \in calls : KeyOf(c) \in SessionsOf(f)}
<1>1. /\ on \in Desks /\ f \in on.sources /\ n \in Nat /\ n <= Len(Lines[f]) /\ Len(Lines[f]) \in Nat
      /\ Kind[f] \in {"claude", "cloud", "codex"}
  BY SourceIs DEF StoreInv, ReadTyped, Transcripts, IsTranscript
<1>2. n \in 0..Len(Lines[f]) /\ 0 \in Nat /\ (0 + 1)..n = 1..n
  BY <1>1
<1>3. /\ IsFiniteSet(N) /\ OnePerCall(W)
      /\ Kind[f] \in {"claude", "codex"} => CallsSound(f, N, (0 + 1)..n)
      /\ Kind[f] = "cloud" => N = {}
  BY <1>1, <1>2, ReadCallsAre
<1>4. /\ HasCalls(calls, f, 1..n) /\ OnlyCalls(calls, f, 1..n) /\ IsFiniteSet(calls) /\ OnePerCall(calls)
  BY DEF CallsInv, CallsStand
<1>5. IsFiniteSet(W) /\ IsFiniteSet(C) /\ OnePerCall(C)
  <2>1. W \subseteq N /\ C \subseteq calls
    OBVIOUS
  <2>2. OnePerCall(C)
    BY <1>4, <2>1 DEF OnePerCall
  <2>. HIDE DEF W, C, N
  <2>. QED BY <1>3, <1>4, <2>1, <2>2, FS_Subset
<1>. HIDE DEF N, n
<1>6. CASE Kind[f] = "cloud"
  <2>1. W = {}
    BY <1>3, <1>6
  <2>2. C = {}
    <3>1. \A i : UsesAt(f, i) = {}
      BY <1>6 DEF UsesAt
    <3>. QED BY <1>4, <3>1 DEF OnlyCalls
  <2>. QED BY <1>3, <1>5, <2>1, <2>2 DEF Pairs, N, n
<1>7. CASE Kind[f] \in {"claude", "codex"}
  <2>1. /\ HasCalls(W, f, 1..n)
        /\ \A c \in W : \E i \in 1..n : \E u \in UsesAt(f, i) : ShowsCall(f, 1..n, i, u, c)
    BY <1>2, <1>3, <1>7 DEF CallsSound
  <2>2. \A d \in C : \E i \in 1..n : \E u \in UsesAt(f, i) : ShowsCall(f, 1..n, i, u, d)
    BY <1>4 DEF OnlyCalls
  <2>3. HasCalls(C, f, 1..n)
    <3>1. <<CallVendor(f), File[f].session>> \in SessionsOf(f)
      BY <1>1, <1>7, CallsKeyIs
    <3>2. \A d \in calls : \A k : CallOf(d) = <<CallVendor(f), File[f].session, k>> => d \in C
      BY <3>1 DEF CallOf, KeyOf
    <3>. HIDE DEF C
    <3>. QED BY <1>4, <3>2 DEF HasCalls
  <2>. HIDE DEF C, W
  <2>4. ASSUME NEW c \in W PROVE \E d \in C : Trail(d) = Trail(c)
    <3>1. PICK i \in 1..n : \E u \in UsesAt(f, i) : ShowsCall(f, 1..n, i, u, c)
      BY <2>1
    <3>2. PICK u \in UsesAt(f, i) : ShowsCall(f, 1..n, i, u, c)
      BY <3>1
    <3>3. PICK d \in C : CallOf(d) = <<CallVendor(f), File[f].session, u.call>>
      BY <2>3 DEF HasCalls
    <3>4. PICK j \in 1..n : \E v \in UsesAt(f, j) : ShowsCall(f, 1..n, j, v, d)
      BY <2>2
    <3>5. PICK v \in UsesAt(f, j) : ShowsCall(f, 1..n, j, v, d)
      BY <3>4
    <3>6. u.call = v.call
      BY <3>3, <3>5 DEF ShowsCall
    <3>. QED BY <1>1, <1>2, <3>2, <3>5, <3>6, ShownOnce
  <2>5. ASSUME NEW d \in C
        PROVE  /\ \E c \in W : Trail(d) = Trail(c)
               /\ d.at \in Nat \ {1} /\ d.result \in Nat \cup {Nil}
    <3>1. PICK i \in 1..n : \E u \in UsesAt(f, i) : ShowsCall(f, 1..n, i, u, d)
      BY <2>2
    <3>2. PICK u \in UsesAt(f, i) : ShowsCall(f, 1..n, i, u, d)
      BY <3>1
    <3>3. PICK c \in W : CallOf(c) = <<CallVendor(f), File[f].session, u.call>>
      BY <2>1 DEF HasCalls
    <3>4. PICK j \in 1..n : \E v \in UsesAt(f, j) : ShowsCall(f, 1..n, j, v, c)
      BY <2>1
    <3>5. PICK v \in UsesAt(f, j) : ShowsCall(f, 1..n, j, v, c)
      BY <3>4
    <3>6. u.call = v.call
      BY <3>3, <3>5 DEF ShowsCall
    <3>7. Trail(c) = Trail(d) /\ d.at \in Nat \ {1} /\ d.result \in Nat \cup {Nil}
      BY <1>1, <1>2, <3>2, <3>5, <3>6, ShownOnce
    <3>. QED BY <3>7
  <2>. QED BY <1>3, <1>5, <2>4, <2>5 DEF Pairs, W, C, N, n
<1>. QED BY <1>1, <1>6, <1>7

(* The invariant says that the reads lose no call.                         *)
LEMMA StoreLosesNoCall == StoreInv /\ CallsInv => CallsLoseNothing
<1>. SUFFICES ASSUME StoreInv, CallsInv, NEW f \in Transcripts
              PROVE LET whole == {c \in ParseCalls(f, Text(f, read[f]), 0) : c.tool # None}
                        known == {c \in calls : KeyOf(c) \in SessionsOf(f)}
                        totals == ToolCallTotals(known, 0)
                    IN /\ \A c \in whole : \E d \in calls : Trail(d) = Trail(c)
                       /\ SumOver(DOMAIN totals, LAMBDA t : totals[t].bytes)
                            = SumOver(whole, LAMBDA c : Tokens(c.result))
  BY DEF CallsLoseNothing
<1>. DEFINE W == {c \in ParseCalls(f, Text(f, read[f]), 0) : c.tool # None}
            C == {c \in calls : KeyOf(c) \in SessionsOf(f)}
            totals == ToolCallTotals(C, 0)
<1>1. /\ IsFiniteSet(W) /\ IsFiniteSet(C) /\ OnePerCall(W) /\ OnePerCall(C) /\ Pairs(W, C)
      /\ \A d \in C : d.at \in Nat \ {1} /\ d.result \in Nat \cup {Nil}
  BY CallsLose
<1>2. C \subseteq calls
  OBVIOUS
<1>. HIDE DEF W, C
<1>3. \A c \in W : \E d \in calls : Trail(d) = Trail(c)
  BY <1>1, <1>2 DEF Pairs
<1>4. SumOver(DOMAIN totals, LAMBDA t : totals[t].bytes) = SumOver(W, LAMBDA c : Tokens(c.result))
  BY <1>1, TotalsOfCalls
<1>. QED BY <1>3, <1>4 DEF W, C

(* The store has every tool call that one read of the whole transcript     *)
(* gives, with its result, and the tool page adds up to the same bytes,    *)
(* however the reads were cut (PairCalls over store.UpsertToolCalls).      *)
THEOREM NoCallIsLost == ViewsInit /\ [][ViewsNext]_viewVars => []CallsLoseNothing
BY StoreIsSound, CallsAreSound, StoreLosesNoCall, PTL

-----------------------------------------------------------------------------
(***************************************************************************)
(* The advisor's episode rules (Episodes): what they report and what they  *)
(* leave to a report before it.                                            *)
(***************************************************************************)
(* f is what Fired's recursion gives up to m.                              *)
IsFired(f, ts, fits, cooldown, m) ==
  f = [n \in 0..m |->
         IF n = 0 THEN {}
         ELSE f[n - 1] \cup {i \in {n} : ts[i] \in fits /\ PastCooldown(ts, f[n - 1], i, cooldown)}]

(* Fired is such an f ...                                                  *)
LEMMA FiredDef ==
  ASSUME NEW ts, NEW fits, NEW cooldown
  PROVE  Fired(ts, fits, cooldown) = CHOOSE f : IsFired(f, ts, fits, cooldown, Len(ts))
BY DEF Fired, IsFired

(* ... and there is one, by the least m that had none.                     *)
LEMMA FiredExists ==
  ASSUME NEW ts, NEW fits, NEW cooldown, NEW m \in Nat
  PROVE  \E f : IsFired(f, ts, fits, cooldown, m)
<1>. DEFINE New(f, n) == {i \in {n} : ts[i] \in fits /\ PastCooldown(ts, f[n - 1], i, cooldown)}
            T == {k \in Nat : ~ \E f : IsFired(f, ts, fits, cooldown, k)}
<1>1. SUFFICES ASSUME T # {} PROVE FALSE
  OBVIOUS
<1>2. PICK k \in T : \A j \in T : k <= j
  <2>1. T \in SUBSET Nat
    OBVIOUS
  <2>. HIDE DEF T
  <2>. QED BY <1>1, <2>1, LeastNat
<1>3. k # 0
  <2>. DEFINE f == [n \in 0..0 |-> {}]
  <2>1. IsFired(f, ts, fits, cooldown, 0)
    BY DEF IsFired
  <2>. QED BY <2>1
<1>4. k \in Nat /\ k - 1 \in Nat /\ k - 1 \notin T
  <2>1. k \in Nat /\ k - 1 \in Nat
    BY <1>3
  <2>. HIDE DEF T
  <2>. QED BY <2>1, <1>2
<1>5. PICK f : IsFired(f, ts, fits, cooldown, k - 1)
  BY <1>4
<1>. DEFINE g == [n \in 0..k |-> IF n = k THEN f[k - 1] \cup New(f, k) ELSE f[n]]
<1>6. \A n \in 0..(k - 1) : f[n] = IF n = 0 THEN {} ELSE f[n - 1] \cup New(f, n)
  BY <1>4, <1>5 DEF IsFired
<1>7. \A n \in 0..k : g[n] = IF n = 0 THEN {} ELSE g[n - 1] \cup New(g, n)
  <2>1. SUFFICES ASSUME NEW n \in 0..k PROVE g[n] = IF n = 0 THEN {} ELSE g[n - 1] \cup New(g, n)
    OBVIOUS
  <2>2. CASE n = 0
    <3>1. g[n] = f[0] /\ 0 \in 0..(k - 1)
      BY <1>3, <1>4, <2>2
    <3>2. f[0] = {}
      <4>. HIDE DEF New
      <4>. QED BY <3>1, <1>6
    <3>. HIDE DEF g
    <3>. QED BY <2>2, <3>1, <3>2
  <2>3. CASE n # 0
    <3>1. n \in Nat /\ n - 1 \in 0..(k - 1) /\ n - 1 \in 0..k /\ n - 1 # k
      BY <1>4, <2>1, <2>3
    <3>2. g[n - 1] = f[n - 1]
      BY <3>1
    <3>3. New(g, n) = New(f, n)
      <4>. HIDE DEF g
      <4>. QED BY <3>2
    <3>4. g[n] = f[n - 1] \cup New(f, n)
      <4>1. CASE n = k
        <5>. HIDE DEF New
        <5>. QED BY <4>1
      <4>2. CASE n # k
        <5>1. g[n] = f[n]
          BY <4>2
        <5>2. n \in 0..(k - 1)
          BY <4>2, <3>1, <1>4, <2>1
        <5>. HIDE DEF New, g
        <5>. QED BY <5>1, <5>2, <1>6, <2>3
      <4>. QED BY <4>1, <4>2
    <3>. HIDE DEF New, g
    <3>. QED BY <2>3, <3>2, <3>3, <3>4
  <2>. QED BY <2>2, <2>3
<1>8. IsFired(g, ts, fits, cooldown, k)
  <2>1. g = [n \in 0..k |-> g[n]]
    OBVIOUS
  <2>. HIDE DEF g
  <2>. QED BY <1>7, <2>1 DEF IsFired
<1>. QED BY <1>2, <1>8

(* So Fired unfolds.                                                       *)
LEMMA FiredIs ==
  ASSUME NEW ts, Len(ts) \in Nat, NEW fits, NEW cooldown
  PROVE  LET f == Fired(ts, fits, cooldown)
         IN /\ f[0] = {}
            /\ \A n \in 1..Len(ts) :
                 f[n] = f[n - 1] \cup
                    {i \in {n} : ts[i] \in fits /\ PastCooldown(ts, f[n - 1], i, cooldown)}
<1>. DEFINE f == Fired(ts, fits, cooldown)
<1>1. IsFired(f, ts, fits, cooldown, Len(ts))
  BY FiredExists, FiredDef
<1>. HIDE DEF f
<1>2. f[0] = {}
  BY <1>1 DEF IsFired
<1>3. ASSUME NEW n \in 1..Len(ts)
      PROVE f[n] = f[n - 1] \cup
                    {i \in {n} : ts[i] \in fits /\ PastCooldown(ts, f[n - 1], i, cooldown)}
  <2>1. n \in 0..Len(ts) /\ n # 0
    OBVIOUS
  <2>2. \A m \in 0..Len(ts) :
          f[m] = IF m = 0 THEN {}
                 ELSE f[m - 1] \cup
                        {i \in {m} : ts[i] \in fits /\ PastCooldown(ts, f[m - 1], i, cooldown)}
    BY <1>1, Zenon DEF IsFired
  <2>. QED BY <2>1, <2>2, Zenon
<1>. QED BY <1>2, <1>3 DEF f

(* i is reported, or one before it of its session within the cooldown is.  *)
Covered(ts, S, i, cooldown) ==
  \/ i \in S
  \/ \E j \in S : /\ ts[j].key = ts[i].key /\ LineAt(ts[j]) <= LineAt(ts[i])
                  /\ LineAt(ts[i]) - LineAt(ts[j]) < cooldown

(* Two reports of one session are the cooldown apart.                      *)
Spaced(ts, S, cooldown) ==
  \A i, j \in S : j < i /\ ts[j].key = ts[i].key => LineAt(ts[i]) - LineAt(ts[j]) >= cooldown

(* What is true of the reports after n lines.                              *)
FiredWell(ts, S, fits, n, cooldown) ==
  /\ S \subseteq 1..n
  /\ \A i \in 1..n : ts[i] \in fits => Covered(ts, S, i, cooldown)
  /\ Spaced(ts, S, cooldown)

(* It is, as a line that fits is added or has a report in its cooldown.    *)
LEMMA FiredHolds ==
  ASSUME NEW ts, Len(ts) \in Nat, NEW fits, NEW cooldown \in Nat,
         \A i \in 1..Len(ts) : ts[i].at \in Int,
         \A i, j \in 1..Len(ts) : i < j => ts[i].at <= ts[j].at
  PROVE  FiredWell(ts, Fired(ts, fits, cooldown)[Len(ts)], fits, Len(ts), cooldown)
<1>. DEFINE f == Fired(ts, fits, cooldown)
            T == {n \in Nat : n <= Len(ts) /\ ~FiredWell(ts, f[n], fits, n, cooldown)}
<1>1. /\ f[0] = {}
      /\ \A n \in 1..Len(ts) :
           f[n] = f[n - 1] \cup
                    {i \in {n} : ts[i] \in fits /\ PastCooldown(ts, f[n - 1], i, cooldown)}
  BY FiredIs
<1>. HIDE DEF f
<1>2. SUFFICES ASSUME T # {} PROVE FALSE
  <2>1. Len(ts) \notin T
    BY <1>2
  <2>. QED BY <2>1 DEF f
<1>3. PICK k \in T : \A j \in T : k <= j
  <2>1. T \in SUBSET Nat
    OBVIOUS
  <2>. HIDE DEF T
  <2>. QED BY <1>2, <2>1, LeastNat
<1>4. k # 0
  <2>1. FiredWell(ts, {}, fits, 0, cooldown)
    BY DEF FiredWell, Spaced
  <2>. QED BY <2>1, <1>1
<1>5. k \in 1..Len(ts) /\ k - 1 \in Nat /\ k - 1 \notin T /\ k - 1 <= Len(ts)
  <2>1. k \in Nat /\ k - 1 \in Nat /\ k <= Len(ts)
    BY <1>4
  <2>. HIDE DEF T
  <2>. QED BY <2>1, <1>3
<1>. DEFINE S == f[k - 1]
            N == {i \in {k} : ts[i] \in fits /\ PastCooldown(ts, S, i, cooldown)}
<1>6. FiredWell(ts, S, fits, k - 1, cooldown) /\ f[k] = S \cup N
  BY <1>5, <1>1
<1>7. ~FiredWell(ts, f[k], fits, k, cooldown)
  OBVIOUS
<1>. HIDE DEF S, T
<1>8. S \subseteq 1..(k - 1) /\ N \subseteq {k} /\ k \in Nat
  BY <1>6, <1>5 DEF FiredWell
<1>9. \A i \in 1..k : /\ LineAt(ts[i]) \in Int
                      /\ \A j \in 1..k : i < j => LineAt(ts[i]) <= LineAt(ts[j])
  BY <1>5 DEF LineAt, Second
<1>10. Spaced(ts, S \cup N, cooldown)
  <2>1. SUFFICES ASSUME NEW i \in S \cup N, NEW j \in S \cup N, j < i, ts[j].key = ts[i].key
                 PROVE LineAt(ts[i]) - LineAt(ts[j]) >= cooldown
    BY DEF Spaced
  <2>2. CASE i \in S
    <3>1. j \in S
      BY <2>1, <2>2, <1>8
    <3>. QED BY <2>1, <2>2, <3>1, <1>6 DEF FiredWell, Spaced
  <2>3. CASE i \in N
    <3>1. i = k /\ j \in S
      BY <2>1, <2>3, <1>8
    <3>. QED BY <2>1, <2>3, <3>1 DEF PastCooldown
  <2>. QED BY <2>2, <2>3
<1>11. ASSUME NEW i \in 1..k, ts[i] \in fits PROVE Covered(ts, S \cup N, i, cooldown)
  <2>1. CASE i # k
    <3>1. i \in 1..(k - 1)
      BY <2>1, <1>8
    <3>2. Covered(ts, S, i, cooldown)
      BY <3>1, <1>6, <1>11 DEF FiredWell
    <3>. QED BY <3>2 DEF Covered
  <2>2. CASE i = k /\ PastCooldown(ts, S, k, cooldown)
    <3>1. k \in N
      BY <2>2, <1>11
    <3>. QED BY <2>2, <3>1 DEF Covered
  <2>3. CASE i = k /\ ~PastCooldown(ts, S, k, cooldown)
    <3>1. PICK j \in S : ts[j].key = ts[k].key /\ ~(LineAt(ts[k]) - LineAt(ts[j]) >= cooldown)
      BY <2>3 DEF PastCooldown
    <3>2. j \in 1..k /\ j < k /\ k \in 1..k
      BY <1>8
    <3>3. LineAt(ts[j]) <= LineAt(ts[k]) /\ LineAt(ts[k]) - LineAt(ts[j]) < cooldown
      BY <3>1, <3>2, <1>9
    <3>. QED BY <2>3, <3>1, <3>3 DEF Covered
  <2>. QED BY <2>1, <2>2, <2>3
<1>12. S \cup N \subseteq 1..k
  <2>1. k \in 1..k /\ \A x \in 1..(k - 1) : x \in 1..k
    BY <1>5
  <2>. HIDE DEF N
  <2>. QED BY <2>1, <1>8
<1>. QED BY <1>6, <1>7, <1>10, <1>11, <1>12 DEF FiredWell

(* The lines in order of time are the lines.                               *)
LEMMA SortedByTimeIs ==
  ASSUME NEW L, NEW n \in Nat, NEW turns \in [1..n -> L], \A t \in L : t.at \in Int
  PROVE  LET ts == SortedByTime(turns)
         IN /\ ts \in [1..n -> L] /\ DOMAIN ts = 1..n /\ Len(ts) = n
            /\ \A t \in Elems(turns) : \E i \in 1..n : ts[i] = t
            /\ \A i \in 1..n : ts[i] \in Elems(turns)
            /\ \A i, j \in 1..n : i < j => ts[i].at <= ts[j].at
<1>. DEFINE B(i, j) == turns[i].at < turns[j].at \/ (turns[i].at = turns[j].at /\ i < j)
            D == DOMAIN turns
            R == {p \in D \X D : B(p[1], p[2])}
            idx == SortedBy(D, R)
            ts == SortedByTime(turns)
<1>1. ts = [i \in DOMAIN idx |-> turns[idx[i]]]
  BY DEF SortedByTime, Sorted
<1>2. D = 1..n /\ IsFiniteSet(D) /\ Cardinality(D) = n /\ \A i \in D : turns[i] \in L /\ turns[i].at \in Int
  BY FS_Interval
<1>. HIDE DEF D, ts
<1>3. \A i, j \in D : <<i, j>> \in R <=> B(i, j)
  <2>. HIDE DEF B
  <2>. QED OBVIOUS
<1>4. Orders(R, D)
  <2>. HIDE DEF R
  <2>. QED BY <1>2, <1>3 DEF Orders
<1>5. /\ idx \in [1..n -> D]
      /\ \A i \in D : \E m \in 1..n : idx[m] = i
      /\ \A i, j \in 1..n : i < j => <<idx[i], idx[j]>> \in R
  <2>. HIDE DEF R
  <2>1. /\ idx \in [1..Cardinality(D) -> D]
        /\ \A i \in D : \E m \in 1..Cardinality(D) : idx[m] = i
        /\ \A i, j \in 1..Cardinality(D) : i < j => <<idx[i], idx[j]>> \in R
    <3>1. IsFiniteSet(D)
      BY <1>2
    <3>. QED BY <3>1, <1>4, SortedHas
  <2>. HIDE DEF idx
  <2>. QED BY <2>1, <1>2
<1>6. \A i, j \in 1..n : i < j => turns[idx[i]].at <= turns[idx[j]].at
  <2>1. SUFFICES ASSUME NEW i \in 1..n, NEW j \in 1..n, i < j
                 PROVE turns[idx[i]].at <= turns[idx[j]].at
    OBVIOUS
  <2>2. B(idx[i], idx[j]) /\ idx[i] \in D /\ idx[j] \in D
    <3>. HIDE DEF R, B, idx
    <3>. QED BY <1>3, <1>5, <2>1
  <2>. HIDE DEF idx
  <2>. QED BY <2>2, <1>2
<1>. HIDE DEF idx, B, R
<1>7. ts \in [1..n -> L] /\ DOMAIN ts = 1..n /\ \A i \in 1..n : ts[i] = turns[idx[i]]
  BY <1>1, <1>2, <1>5
<1>8. Len(ts) = n
  <2>1. ts \in Seq(L)
    BY <1>7
  <2>. QED BY <2>1, <1>7, LenProperties
<1>9. \A t \in Elems(turns) : \E i \in 1..n : ts[i] = t
  <2>1. SUFFICES ASSUME NEW k \in D PROVE \E i \in 1..n : ts[i] = turns[k]
    BY DEF Elems, D
  <2>2. PICK i \in 1..n : idx[i] = k
    BY <1>5
  <2>. QED BY <2>2, <1>7
<1>10. \A i \in 1..n : ts[i] \in Elems(turns)
  BY <1>5, <1>7 DEF Elems, D
<1>11. \A i, j \in 1..n : i < j => ts[i].at <= ts[j].at
  BY <1>6, <1>7
<1>. QED BY <1>7, <1>8, <1>9, <1>10, <1>11 DEF ts

(* What the two episode rules say of a sequence of lines.                  *)
LEMMA EpisodesAre ==
  ASSUME NEW L, NEW n \in Nat, NEW turns \in [1..n -> L], \A t \in L : t.at \in Int,
         NEW fits, NEW cooldown \in Nat \ {0}
  PROVE  LET E == Episodes(turns, fits, cooldown)
         IN /\ E \subseteq Elems(turns)
            /\ \A t \in Elems(turns) : t \in fits =>
                 \E u \in E : /\ u.key = t.key /\ LineAt(u) <= LineAt(t)
                              /\ LineAt(t) - LineAt(u) < cooldown
            /\ \A t, u \in E : t # u /\ t.key = u.key => Diff(LineAt(t), LineAt(u)) >= cooldown
<1>. DEFINE ts == SortedByTime(turns)
            S == Fired(ts, fits, cooldown)[Len(ts)]
            E == Episodes(turns, fits, cooldown)
<1>1. /\ ts \in [1..n -> L] /\ Len(ts) = n
      /\ \A t \in Elems(turns) : \E i \in 1..n : ts[i] = t
      /\ \A i \in 1..n : ts[i] \in Elems(turns)
      /\ \A i, j \in 1..n : i < j => ts[i].at <= ts[j].at
  BY SortedByTimeIs
<1>2. E = {ts[i] : i \in S}
  BY DEF Episodes
<1>. HIDE DEF ts, E
<1>3. FiredWell(ts, S, fits, n, cooldown)
  <2>1. \A i \in 1..Len(ts) : ts[i].at \in Int
    BY <1>1
  <2>. QED BY <2>1, <1>1, FiredHolds
<1>. HIDE DEF S
<1>4. S \subseteq 1..n /\ Spaced(ts, S, cooldown)
      /\ \A i \in 1..n : ts[i] \in fits => Covered(ts, S, i, cooldown)
  BY <1>3 DEF FiredWell
<1>5. \A i \in 1..n : LineAt(ts[i]) \in Int
  BY <1>1 DEF LineAt, Second
<1>6. E \subseteq Elems(turns)
  BY <1>1, <1>2, <1>4
<1>7. ASSUME NEW t \in Elems(turns), t \in fits
      PROVE  \E u \in E : /\ u.key = t.key /\ LineAt(u) <= LineAt(t)
                          /\ LineAt(t) - LineAt(u) < cooldown
  <2>1. PICK i \in 1..n : ts[i] = t
    BY <1>1
  <2>2. CASE i \in S
    <3>1. t \in E /\ LineAt(t) \in Int
      BY <1>2, <1>5, <2>1, <2>2
    <3>. QED BY <3>1
  <2>3. CASE i \notin S
    <3>1. PICK j \in S : /\ ts[j].key = ts[i].key /\ LineAt(ts[j]) <= LineAt(ts[i])
                         /\ LineAt(ts[i]) - LineAt(ts[j]) < cooldown
      BY <1>4, <1>7, <2>1, <2>3 DEF Covered
    <3>. QED BY <3>1, <1>2, <2>1
  <2>. QED BY <2>2, <2>3
<1>8. ASSUME NEW t \in E, NEW u \in E, t # u, t.key = u.key
      PROVE  Diff(LineAt(t), LineAt(u)) >= cooldown
  <2>1. PICK i \in S : t = ts[i]
    BY <1>2
  <2>2. PICK j \in S : u = ts[j]
    BY <1>2
  <2>3. i \in Nat /\ j \in Nat /\ i # j /\ LineAt(t) \in Int /\ LineAt(u) \in Int
    BY <1>4, <1>5, <1>8, <2>1, <2>2
  <2>4. CASE j < i
    <3>1. LineAt(t) - LineAt(u) >= cooldown
      BY <1>4, <1>8, <2>1, <2>2, <2>4 DEF Spaced
    <3>. QED BY <3>1, <2>3 DEF Diff
  <2>5. CASE i < j
    <3>1. LineAt(u) - LineAt(t) >= cooldown
      BY <1>4, <1>8, <2>1, <2>2, <2>5 DEF Spaced
    <3>. QED BY <3>1, <2>3 DEF Diff
  <2>. QED BY <2>3, <2>4, <2>5
<1>. QED BY <1>6, <1>7, <1>8 DEF E

(* A finding's rule says which of the six made it.                         *)
LEMMA RuleIs ==
  ASSUME NEW in, NEW c, NEW th, NEW x \in Advise(in, c, th)
  PROVE  /\ x.rule = "heavy-turn-pressure" => x \in HeavyTurnPressure(in, th)
         /\ x.rule = "hard-faults-memory" => x \in HardFaultsMemory(in, th)
<1>1. ASSUME NEW y \in HeavyTurnPressure(in, th) PROVE y.rule = "heavy-turn-pressure"
  <2>1. PICK t : y = Advice("heavy-turn-pressure", LineAt(t), t.key)
    BY Zenon DEF HeavyTurnPressure
  <2>. QED BY <2>1 DEF Advice
<1>2. ASSUME NEW y \in HardFaultsMemory(in, th) PROVE y.rule = "hard-faults-memory"
  <2>1. PICK t : y = Advice("hard-faults-memory", LineAt(t), t.key)
    BY Zenon DEF HardFaultsMemory
  <2>. QED BY <2>1 DEF Advice
<1>3. ASSUME NEW y \in HarnessRunaway(in, th) PROVE y.rule = "harness-runaway"
  <2>1. PICK at, h : y = Advice("harness-runaway", at, h)
    BY Zenon DEF HarnessRunaway
  <2>. QED BY <2>1 DEF Advice
<1>4. ASSUME NEW y \in CacheHitDrop(in, th) PROVE y.rule = "cache-hit-drop"
  <2>1. PICK at, k : y = Advice("cache-hit-drop", at, k)
    BY Zenon DEF CacheHitDrop
  <2>. QED BY <2>1 DEF Advice
<1>5. ASSUME NEW y \in ContextWindowRule(in, c, th) PROVE y.rule = "context-window"
  <2>1. PICK at, k : y = Advice("context-window", at, k)
    BY Zenon DEF ContextWindowRule
  <2>. QED BY <2>1 DEF Advice
<1>6. ASSUME NEW y \in SelfOverhead(in, th) PROVE y.rule = "self-overhead"
  <2>1. PICK at : y = Advice("self-overhead", at, "self")
    BY Zenon DEF SelfOverhead
  <2>. QED BY <2>1 DEF Advice
<1>. QED BY <1>1, <1>2, <1>3, <1>4, <1>5, <1>6 DEF Advise

(* Every rule but the two has one finding for each it is about.            *)
LEMMA OnePerWho ==
  ASSUME NEW in, NEW c, NEW th, NEW a \in Advise(in, c, th), NEW b \in Advise(in, c, th),
         a.rule = b.rule, a.who = b.who,
         a.rule \notin {"heavy-turn-pressure", "hard-faults-memory"}
  PROVE  a = b
<1>1. ASSUME NEW x \in HeavyTurnPressure(in, th) PROVE x.rule = "heavy-turn-pressure"
  <2>1. PICK t : x = Advice("heavy-turn-pressure", LineAt(t), t.key)
    BY Zenon DEF HeavyTurnPressure
  <2>. QED BY <2>1 DEF Advice
<1>2. ASSUME NEW x \in HardFaultsMemory(in, th) PROVE x.rule = "hard-faults-memory"
  <2>1. PICK t : x = Advice("hard-faults-memory", LineAt(t), t.key)
    BY Zenon DEF HardFaultsMemory
  <2>. QED BY <2>1 DEF Advice
<1>. DEFINE Latest(h) == Max({g.at : g \in {g \in in.groups : g.harness = h}})
<1>3. ASSUME NEW x \in HarnessRunaway(in, th)
      PROVE  x.rule = "harness-runaway" /\ x = Advice("harness-runaway", Latest(x.who), x.who)
  <2>1. PICK h : x = Advice("harness-runaway", Latest(h), h)
    BY Zenon DEF HarnessRunaway
  <2>. HIDE DEF Latest
  <2>2. x.rule = "harness-runaway" /\ x.who = h
    BY <2>1 DEF Advice
  <2>. QED BY <2>1, <2>2, Zenon
<1>. DEFINE Lined(k) == SortedByTime(SelectSeq(in.turns, LAMBDA t : t.key = k))
            LastAt(k) == LineAt(Last(Lined(k)))
<1>4. ASSUME NEW x \in CacheHitDrop(in, th)
      PROVE  x.rule = "cache-hit-drop" /\ x = Advice("cache-hit-drop", LastAt(x.who), x.who)
  <2>1. PICK k : x = Advice("cache-hit-drop", LastAt(k), k)
    BY Zenon DEF CacheHitDrop
  <2>. HIDE DEF LastAt
  <2>2. x.rule = "cache-hit-drop" /\ x.who = k
    BY <2>1 DEF Advice
  <2>. QED BY <2>1, <2>2, Zenon
<1>. DEFINE Newest(k) == CHOOSE i \in DOMAIN in.turns :
              /\ in.turns[i].key = k
              /\ \A j \in DOMAIN in.turns : in.turns[j].key = k =>
                     \/ in.turns[j].at < in.turns[i].at
                     \/ in.turns[j].at = in.turns[i].at /\ i <= j
            Instant(k) == LineAt(in.turns[Newest(k)])
<1>5. ASSUME NEW x \in ContextWindowRule(in, c, th)
      PROVE  x.rule = "context-window" /\ x = Advice("context-window", Instant(x.who), x.who)
  <2>1. PICK k : x = Advice("context-window", Instant(k), k)
    BY Zenon DEF ContextWindowRule
  <2>. HIDE DEF Instant
  <2>2. x.rule = "context-window" /\ x.who = k
    BY <2>1 DEF Advice
  <2>. QED BY <2>1, <2>2, Zenon
<1>. DEFINE Ticks == {g.at : g \in {g \in in.groups : g.harness \in {"self", "self_webview"}}}
<1>6. ASSUME NEW x \in SelfOverhead(in, th)
      PROVE  x.rule = "self-overhead" /\ x = Advice("self-overhead", Max(Ticks), "self")
  <2>1. x = Advice("self-overhead", Max(Ticks), "self")
    BY Zenon DEF SelfOverhead
  <2>. HIDE DEF Ticks
  <2>. QED BY <2>1 DEF Advice
<1>. HIDE DEF Latest, LastAt, Instant, Ticks
<1>7. \A x \in {a, b} :
        \/ x \in HeavyTurnPressure(in, th) \/ x \in HardFaultsMemory(in, th)
        \/ x \in HarnessRunaway(in, th) \/ x \in CacheHitDrop(in, th)
        \/ x \in ContextWindowRule(in, c, th) \/ x \in SelfOverhead(in, th)
  BY DEF Advise
<1>8. \A x \in {a, b} :
        \/ x.rule \in {"heavy-turn-pressure", "hard-faults-memory"}
        \/ x.rule = "harness-runaway" /\ x = Advice("harness-runaway", Latest(x.who), x.who)
        \/ x.rule = "cache-hit-drop" /\ x = Advice("cache-hit-drop", LastAt(x.who), x.who)
        \/ x.rule = "context-window" /\ x = Advice("context-window", Instant(x.who), x.who)
        \/ x.rule = "self-overhead" /\ x = Advice("self-overhead", Max(Ticks), "self")
  BY <1>1, <1>2, <1>3, <1>4, <1>5, <1>6, <1>7
<1>. QED BY <1>8

(* The findings of the page's window are the advisor's.                    *)
LEMMA BundleFound ==
  ASSUME StoreInv
  PROVE  Window < Now /\ Exported.findings =
           Advise(AdvisorInput(events, Samples, Groups, cfg, Window, Now), cfg, Thresholds)
<1>1. Now \in Nat /\ ChartBack \in Nat /\ ChartBack > 0
  BY ClockIs, LiveAssumption DEF StoreInv, ChartBack, Second
<1>2. Window < Now /\ ~(Window >= Now)
  BY <1>1 DEF Window
<1>. DEFINE b == BuildExportBundle(events, Samples, Groups, cfg, Thresholds, Window, Now)
<1>3. Exported = b
  BY <1>2 DEF Exported, RunExport, Published
<1>4. b.findings = Advise(AdvisorInput(events, Samples, Groups, cfg, Window, Now), cfg, Thresholds)
  BY DEF BuildExportBundle, Assemble
<1>. QED BY <1>2, <1>3, <1>4

(* With the store sound, its ticker's turns are reported as they should be. *)
LEMMA StoreReports == StoreInv => EpisodesReported
<1>. SUFFICES ASSUME StoreInv
              PROVE  Reports(AdvisorInput(events, Samples, Groups, cfg, Window, Now),
                             Exported.findings)
  BY DEF EpisodesReported
<1>. DEFINE in == AdvisorInput(events, Samples, Groups, cfg, Window, Now)
            found == Exported.findings
            cool == Thresholds.cooldown
            es == EventsSince(events, Window)
            lines == TickerLines(Charted(es, Window, Now), cfg)
            n == Cardinality(lines)
            heavy == {x \in Elems(in.turns) : UnderPressure(in, Thresholds, x)}
            short == {x \in Elems(in.turns) : MemoryShort(in, Thresholds, x)}
<1>1. found = Advise(in, cfg, Thresholds)
  BY BundleFound
<1>2. in.turns = BuildTurns(es, cfg, Window, Now, 0)
  BY DEF AdvisorInput
<1>. HIDE DEF in, found
<1>3. /\ n \in Nat /\ in.turns \in [1..n -> lines] /\ \A l \in lines : l.at \in Int
  <2>1. /\ IsFiniteSet(events) /\ (\A x \in events : Filled(x))
        /\ \A x, y \in events : x.row = y.row => x = y
    BY RowsApart DEF StoreInv, StoreTyped
  <2>2. es \subseteq events
    BY DEF EventsSince
  <2>3. /\ IsFiniteSet(es) /\ (\A x \in es : Filled(x))
        /\ \A x, y \in es : x.row = y.row => x = y
    BY <2>1, <2>2, FS_Subset
  <2>. HIDE DEF es
  <2>4. /\ IsFiniteSet(lines) /\ in.turns \in [1..n -> lines] /\ \A l \in lines : l.at \in Int
    BY <1>2, <2>3, TickerHas
  <2>. HIDE DEF lines
  <2>. QED BY <2>4, FS_CardinalityType
<1>4. cool \in Nat \ {0}
  BY ThresholdsAssumption
<1>. HIDE DEF lines, n, cool
<1>. DEFINE H == Episodes(in.turns, heavy, cool)
            M == Episodes(in.turns, short, cool)
<1>5. /\ H \subseteq Elems(in.turns)
      /\ \A t \in Elems(in.turns) : t \in heavy =>
                 \E u \in H : /\ u.key = t.key /\ LineAt(u) <= LineAt(t)
                              /\ LineAt(t) - LineAt(u) < cool
      /\ \A t, u \in H : t # u /\ t.key = u.key => Diff(LineAt(t), LineAt(u)) >= cool
  <2>. HIDE DEF heavy
  <2>. QED BY <1>3, <1>4, EpisodesAre
<1>6. /\ M \subseteq Elems(in.turns)
      /\ \A t \in Elems(in.turns) : t \in short =>
                 \E u \in M : /\ u.key = t.key /\ LineAt(u) <= LineAt(t)
                              /\ LineAt(t) - LineAt(u) < cool
      /\ \A t, u \in M : t # u /\ t.key = u.key => Diff(LineAt(t), LineAt(u)) >= cool
  <2>. HIDE DEF short
  <2>. QED BY <1>3, <1>4, EpisodesAre
<1>7. HeavyTurnPressure(in, Thresholds) =
        {Advice("heavy-turn-pressure", LineAt(t), t.key) : t \in H}
  BY DEF HeavyTurnPressure, cool
<1>8. HardFaultsMemory(in, Thresholds) =
        {Advice("hard-faults-memory", LineAt(t), t.key) : t \in M}
  BY DEF HardFaultsMemory, cool
<1>. HIDE DEF H, M
<1>9. HeavyTurnPressure(in, Thresholds) \subseteq found /\ HardFaultsMemory(in, Thresholds) \subseteq found
  BY <1>1 DEF Advise
<1>10. ASSUME NEW t \in Elems(in.turns), UnderPressure(in, Thresholds, t)
       PROVE  \E a \in found : /\ a.rule = "heavy-turn-pressure" /\ a.who = t.key
                               /\ a.at <= LineAt(t) /\ LineAt(t) - a.at < cool
  <2>1. PICK u \in H : u.key = t.key /\ LineAt(u) <= LineAt(t) /\ LineAt(t) - LineAt(u) < cool
    BY <1>5, <1>10
  <2>. DEFINE a == Advice("heavy-turn-pressure", LineAt(u), u.key)
  <2>2. a \in found
    BY <1>7, <1>9
  <2>3. a.rule = "heavy-turn-pressure" /\ a.who = t.key /\ a.at = LineAt(u)
    BY <2>1 DEF Advice
  <2>. HIDE DEF a
  <2>. QED BY <2>1, <2>2, <2>3
<1>11. ASSUME NEW t \in Elems(in.turns), MemoryShort(in, Thresholds, t)
       PROVE  \E a \in found : /\ a.rule = "hard-faults-memory" /\ a.who = t.key
                               /\ a.at <= LineAt(t) /\ LineAt(t) - a.at < cool
  <2>1. PICK u \in M : u.key = t.key /\ LineAt(u) <= LineAt(t) /\ LineAt(t) - LineAt(u) < cool
    BY <1>6, <1>11
  <2>. DEFINE a == Advice("hard-faults-memory", LineAt(u), u.key)
  <2>2. a \in found
    BY <1>8, <1>9
  <2>3. a.rule = "hard-faults-memory" /\ a.who = t.key /\ a.at = LineAt(u)
    BY <2>1 DEF Advice
  <2>. HIDE DEF a
  <2>. QED BY <2>1, <2>2, <2>3
<1>12. ASSUME NEW rule, NEW E, \A t, u \in E : t # u /\ t.key = u.key => Diff(LineAt(t), LineAt(u)) >= cool,
              NEW a \in {Advice(rule, LineAt(t), t.key) : t \in E},
              NEW b \in {Advice(rule, LineAt(t), t.key) : t \in E}, a # b, a.who = b.who
       PROVE  Diff(a.at, b.at) >= cool
  <2>1. PICK t \in E : a = Advice(rule, LineAt(t), t.key)
    OBVIOUS
  <2>2. PICK u \in E : b = Advice(rule, LineAt(u), u.key)
    OBVIOUS
  <2>3. a.at = LineAt(t) /\ a.who = t.key /\ b.at = LineAt(u) /\ b.who = u.key
    BY <2>1, <2>2 DEF Advice
  <2>4. t # u /\ t.key = u.key
    BY <1>12, <2>1, <2>2, <2>3
  <2>. QED BY <1>12, <2>3, <2>4
<1>13. ASSUME NEW a \in found, NEW b \in found, a # b, a.rule = b.rule, a.who = b.who
       PROVE  Diff(a.at, b.at) >= cool
  <2>1. a.rule \in {"heavy-turn-pressure", "hard-faults-memory"}
    BY <1>1, <1>13, OnePerWho
  <2>2. ASSUME NEW x \in found, x.rule \in {"heavy-turn-pressure", "hard-faults-memory"}
        PROVE  /\ x.rule = "heavy-turn-pressure" => x \in HeavyTurnPressure(in, Thresholds)
               /\ x.rule = "hard-faults-memory" => x \in HardFaultsMemory(in, Thresholds)
    BY <1>1, <2>2, RuleIs
  <2>3. CASE a.rule = "heavy-turn-pressure"
    <3>1. a \in HeavyTurnPressure(in, Thresholds) /\ b \in HeavyTurnPressure(in, Thresholds)
      BY <1>13, <2>2, <2>3
    <3>. QED BY <3>1, <1>5, <1>7, <1>12, <1>13
  <2>4. CASE a.rule = "hard-faults-memory"
    <3>1. a \in HardFaultsMemory(in, Thresholds) /\ b \in HardFaultsMemory(in, Thresholds)
      BY <1>13, <2>2, <2>4
    <3>. QED BY <3>1, <1>6, <1>8, <1>12, <1>13
  <2>. QED BY <2>1, <2>3, <2>4
<1>14. Reports(in, found)
  BY <1>10, <1>11, <1>13 DEF Reports, cool
<1>. QED BY <1>14 DEF in, found

(* EpisodesReported: every turn that fits an episode rule is reported, or  *)
(* follows a report of its session within the cooldown, and reports keep   *)
(* that distance.                                                          *)
THEOREM EpisodesAreReported == ViewsInit /\ [][ViewsNext]_viewVars => []EpisodesReported
BY StoreIsSound, StoreReports, PTL

-----------------------------------------------------------------------------
(***************************************************************************)
(* Sums of sums and of multiples.                                          *)
(***************************************************************************)
(* The sum of two functions.                                               *)
LEMMA SumPlus ==
  ASSUME NEW S, IsFiniteSet(S), NEW f, NEW g, NEW h,
         \A x \in S : f[x] \in Int /\ g[x] \in Int /\ h[x] = f[x] + g[x]
  PROVE  SumFunctionOnSet(h, S) = SumFunctionOnSet(f, S) + SumFunctionOnSet(g, S)
<1>. DEFINE Ok(t) == SumFunctionOnSet(h, t) = SumFunctionOnSet(f, t) + SumFunctionOnSet(g, t)
            C == {t \in SUBSET S : ~ Ok(t)}
<1>1. SUFFICES ASSUME C # {} PROVE FALSE
  <2>1. S \in SUBSET S /\ S \notin C
    BY <1>1
  <2>. QED BY <2>1
<1>2. \A t \in C : IsFiniteSet(t)
  BY FS_Subset
<1>3. PICK t \in C : \A u \in C : u \subseteq t => u = t
  <2>. HIDE DEF C
  <2>. QED BY <1>1, <1>2, LeastSet
<1>4. t # {} /\ IsFiniteSet(t) /\ t \in SUBSET S
  <2>1. Ok({})
    BY SumOfNone
  <2>. QED BY <2>1, <1>2
<1>. DEFINE x == Fst(t)
            r == t \ {x}
<1>5. x \in t /\ x \in S /\ r \in SUBSET S /\ IsFiniteSet(r)
  BY <1>4, FstIn, FS_RemoveElement
<1>6. Ok(r)
  <2>1. r \notin C
    <3>1. r \subseteq t /\ r # t
      BY <1>5
    <3>. HIDE DEF C, r
    <3>. QED BY <1>3, <3>1
  <2>. QED BY <2>1, <1>5
<1>7. /\ SumFunctionOnSet(h, t) = h[x] + SumFunctionOnSet(h, r)
      /\ SumFunctionOnSet(f, t) = f[x] + SumFunctionOnSet(f, r)
      /\ SumFunctionOnSet(g, t) = g[x] + SumFunctionOnSet(g, r)
  BY <1>4, SumPicks
<1>8. SumFunctionOnSet(f, r) \in Int /\ SumFunctionOnSet(g, r) \in Int
  <2>1. \A y \in r : f[y] \in Int /\ g[y] \in Int
    BY <1>5
  <2>. HIDE DEF r
  <2>. QED BY <1>5, <2>1, SumInt
<1>9. f[x] \in Int /\ g[x] \in Int /\ h[x] = f[x] + g[x]
  BY <1>5
<1>10. SumFunctionOnSet(h, r) = SumFunctionOnSet(f, r) + SumFunctionOnSet(g, r)
  BY <1>6
<1>. HIDE DEF x, r
<1>11. SumFunctionOnSet(h, t) = SumFunctionOnSet(f, t) + SumFunctionOnSet(g, t)
  BY <1>7, <1>8, <1>9, <1>10
<1>. QED BY <1>11

(* The sum of a multiple.                                                  *)
LEMMA SumScale ==
  ASSUME NEW S, IsFiniteSet(S), NEW f, NEW h, NEW r \in Int,
         \A x \in S : f[x] \in Int /\ h[x] = r * f[x]
  PROVE  SumFunctionOnSet(h, S) = r * SumFunctionOnSet(f, S)
<1>. DEFINE Ok(t) == SumFunctionOnSet(h, t) = r * SumFunctionOnSet(f, t)
            C == {t \in SUBSET S : ~ Ok(t)}
<1>1. SUFFICES ASSUME C # {} PROVE FALSE
  <2>1. S \in SUBSET S /\ S \notin C
    BY <1>1
  <2>. QED BY <2>1
<1>2. \A t \in C : IsFiniteSet(t)
  BY FS_Subset
<1>3. PICK t \in C : \A u \in C : u \subseteq t => u = t
  <2>. HIDE DEF C
  <2>. QED BY <1>1, <1>2, LeastSet
<1>4. t # {} /\ IsFiniteSet(t) /\ t \in SUBSET S
  <2>1. Ok({})
    BY SumOfNone
  <2>. QED BY <2>1, <1>2
<1>. DEFINE x == Fst(t)
            q == t \ {x}
<1>5. x \in t /\ x \in S /\ q \in SUBSET S /\ IsFiniteSet(q)
  BY <1>4, FstIn, FS_RemoveElement
<1>6. Ok(q)
  <2>1. q \notin C
    <3>1. q \subseteq t /\ q # t
      BY <1>5
    <3>. HIDE DEF C, q
    <3>. QED BY <1>3, <3>1
  <2>. QED BY <2>1, <1>5
<1>7. /\ SumFunctionOnSet(h, t) = h[x] + SumFunctionOnSet(h, q)
      /\ SumFunctionOnSet(f, t) = f[x] + SumFunctionOnSet(f, q)
  BY <1>4, SumPicks
<1>8. SumFunctionOnSet(f, q) \in Int
  <2>1. \A y \in q : f[y] \in Int
    BY <1>5
  <2>. HIDE DEF q
  <2>. QED BY <1>5, <2>1, SumInt
<1>9. f[x] \in Int /\ h[x] = r * f[x]
  BY <1>5
<1>10. SumFunctionOnSet(h, q) = r * SumFunctionOnSet(f, q)
  BY <1>6
<1>11. \A a, b \in Int : r * (a + b) = r * a + r * b
  OBVIOUS
<1>. HIDE DEF x, q
<1>12. SumFunctionOnSet(h, t) = r * SumFunctionOnSet(f, t)
  BY <1>7, <1>8, <1>9, <1>10, <1>11
<1>. QED BY <1>12

(* A cardinality is a sum of ones.                                         *)
LEMMA CountIsSum ==
  ASSUME NEW S, IsFiniteSet(S), NEW f, \A x \in S : f[x] = 1
  PROVE  SumFunctionOnSet(f, S) = Cardinality(S)
<1>. DEFINE Ok(t) == SumFunctionOnSet(f, t) = Cardinality(t)
            C == {t \in SUBSET S : ~ Ok(t)}
<1>1. SUFFICES ASSUME C # {} PROVE FALSE
  <2>1. S \in SUBSET S /\ S \notin C
    BY <1>1
  <2>. QED BY <2>1
<1>2. \A t \in C : IsFiniteSet(t)
  BY FS_Subset
<1>3. PICK t \in C : \A u \in C : u \subseteq t => u = t
  <2>. HIDE DEF C
  <2>. QED BY <1>1, <1>2, LeastSet
<1>4. t # {} /\ IsFiniteSet(t) /\ t \in SUBSET S
  <2>1. Ok({})
    BY SumOfNone, FS_EmptySet
  <2>. QED BY <2>1, <1>2
<1>. DEFINE x == Fst(t)
            q == t \ {x}
<1>5. x \in t /\ x \in S /\ q \in SUBSET S /\ IsFiniteSet(q)
  BY <1>4, FstIn, FS_RemoveElement
<1>6. Ok(q)
  <2>1. q \notin C
    <3>1. q \subseteq t /\ q # t
      BY <1>5
    <3>. HIDE DEF C, q
    <3>. QED BY <1>3, <3>1
  <2>. QED BY <2>1, <1>5
<1>7. SumFunctionOnSet(f, t) = 1 + SumFunctionOnSet(f, q)
  BY <1>4, <1>5, SumPicks
<1>8. Cardinality(q) = Cardinality(t) - 1 /\ Cardinality(t) \in Nat
  BY <1>4, <1>5, FS_RemoveElement, FS_CardinalityType
<1>9. SumFunctionOnSet(f, q) = Cardinality(q)
  BY <1>6
<1>. HIDE DEF x, q
<1>10. SumFunctionOnSet(f, t) = Cardinality(t)
  BY <1>7, <1>8, <1>9
<1>. QED BY <1>10

-----------------------------------------------------------------------------
(***************************************************************************)
(* Prices (EventCost): within a vendor and a model they are linear in the  *)
(* token classes, whichever table and rate apply.                          *)
(***************************************************************************)
(* A turn or a synthetic row with its classes counted.                     *)
Counted(e) ==
  /\ {"cw", "input", "cr", "output"} \subseteq DOMAIN e
  /\ e.input \in Int /\ e.output \in Int /\ Tokens(e.cw) \in Int /\ Tokens(e.cr) \in Int

(* What it costs at the rates a, b, c, d.                                  *)
Charge(e, a, b, c, d) == a * e.input + b * Tokens(e.cw) + c * Tokens(e.cr) + d * e.output

(* What PricesAssumption says of a config.                                 *)
RatedConfig(c) ==
  Rated(c.anthropic) /\ Rated(c.openaiPrices) /\ Rated(c.copilot) /\ c.factor \in Int

(* PricedCost is a charge.                                                 *)
LEMMA PricedIs ==
  ASSUME NEW e, Counted(e), NEW r, \A k \in {"in", "cw", "cr", "out"} : r[k] \in Int
  PROVE  /\ Priced(e, r) = Charge(e, r.in, r.cw, r.cr, r.out)
         /\ Priced([e EXCEPT !.cw = Nil], r) = Charge(e, r.in, 0, r.cr, r.out)
<1>1. /\ r.in \in Int /\ r.cw \in Int /\ r.cr \in Int /\ r.out \in Int
  OBVIOUS
<1>2. \A x, y \in Int : x * y = y * x /\ 0 * x = 0
  OBVIOUS
<1>3. /\ e.input \in Int /\ e.output \in Int /\ Tokens(e.cw) \in Int /\ Tokens(e.cr) \in Int
  BY DEF Counted
<1>. DEFINE n == [e EXCEPT !.cw = Nil]
<1>4. /\ n.input = e.input /\ n.cr = e.cr /\ n.output = e.output /\ Tokens(n.cw) = 0
  BY DEF Counted, Tokens
<1>5. Priced(n, r) = e.input * r.in + 0 * r.cw + Tokens(e.cr) * r.cr + e.output * r.out
  <2>. HIDE DEF n
  <2>. QED BY <1>4 DEF Priced
<1>6. Priced(e, r) = e.input * r.in + Tokens(e.cw) * r.cw + Tokens(e.cr) * r.cr + e.output * r.out
  BY DEF Priced
<1>. DEFINE x == e.input
            y == Tokens(e.cw)
            z == Tokens(e.cr)
            o == e.output
<1>7. /\ x * r.in = r.in * x /\ y * r.cw = r.cw * y /\ z * r.cr = r.cr * z /\ o * r.out = r.out * o
      /\ 0 * r.cw = 0 /\ 0 * y = 0
  <2>. HIDE DEF x, y, z, o
  <2>1. x \in Int /\ y \in Int /\ z \in Int /\ o \in Int
    BY <1>3 DEF x, y, z, o
  <2>. QED BY <1>1, <1>2, <2>1
<1>. HIDE DEF n
<1>8. Priced(e, r) = r.in * x + r.cw * y + r.cr * z + r.out * o
  BY <1>6, <1>7
<1>9. Priced(n, r) = r.in * x + 0 * y + r.cr * z + r.out * o
  BY <1>5, <1>7
<1>. QED BY <1>8, <1>9 DEF Charge, n

(* Turns of one vendor and model.                                          *)
OneBook(S, v, m) == \A e \in S : e.vendor = v /\ e.model = m /\ Counted(e)
(* What each of S costs is linear in its classes.                          *)
Linear(c, S) == \E p, q, r, s \in Int : \A e \in S : TurnCost(c, e) = Charge(e, p, q, r, s)

(* Of one vendor and model, what an event costs is linear in its classes.  *)
LEMMA CostIsLinear ==
  ASSUME NEW c, RatedConfig(c), NEW v, NEW m, NEW S, OneBook(S, v, m)
  PROVE  Linear(c, S)
<1>. SUFFICES \E p, q, r, s \in Int : \A e \in S : TurnCost(c, e) = Charge(e, p, q, r, s)
  BY DEF Linear
<1>b. \A e \in S : e.vendor = v /\ e.model = m /\ Counted(e)
  BY DEF OneBook
<1>. DEFINE Good(p, q, r, s) == \A e \in S : TurnCost(c, e) = Charge(e, p, q, r, s)
<1>0. \A e \in S : /\ e.input \in Int /\ e.output \in Int /\ Tokens(e.cw) \in Int /\ Tokens(e.cr) \in Int
  BY <1>b DEF Counted
<1>free. ASSUME \A e \in S : TurnCost(c, e) = 0 PROVE Good(0, 0, 0, 0)
  <2>1. ASSUME NEW e \in S PROVE Charge(e, 0, 0, 0, 0) = 0
    <3>1. \A x \in Int : 0 * x = 0
      OBVIOUS
    <3>. QED BY <3>1, <1>0 DEF Charge
  <2>. QED BY <1>free, <2>1
<1>1. CASE v = "anthropic"
  <2>1. \A e \in S : TurnCost(c, e) = AnthropicShare(c, e)
    BY <1>1, <1>b DEF TurnCost, EventCost
  <2>2. CASE m \notin DOMAIN c.anthropic
    <3>1. \A e \in S : TurnCost(c, e) = 0
      BY <1>b, <2>1, <2>2 DEF AnthropicShare, Has
    <3>. QED BY <1>free, <3>1
  <2>3. CASE m \in DOMAIN c.anthropic
    <3>. DEFINE i == c.anthropic[m]["in"]
                o == c.anthropic[m]["out"]
                k == c.factor
    <3>1. i \in Int /\ o \in Int /\ k \in Int
      BY <2>3 DEF RatedConfig, Rated
    <3>2. \A e \in S : TurnCost(c, e) = (e.output * o + e.input * i) * k
      BY <1>b, <2>1, <2>3 DEF AnthropicShare, Has
    <3>. HIDE DEF i, o, k
    <3>3. \A x, y \in Int : (x * o + y * i) * k = (i * k) * y + (o * k) * x
      BY <3>1
    <3>4. i * k \in Int /\ o * k \in Int
      BY <3>1
    <3>5. ASSUME NEW e \in S PROVE TurnCost(c, e) = Charge(e, i * k, 0, 0, o * k)
      <4>. DEFINE p == i * k
                  s == o * k
      <4>1. TurnCost(c, e) = p * e.input + s * e.output
        BY <1>0, <3>2, <3>3
      <4>2. 0 * Tokens(e.cw) = 0 /\ 0 * Tokens(e.cr) = 0
        BY <1>0
      <4>3. p * e.input \in Int /\ s * e.output \in Int
        BY <3>4, <1>0
      <4>. HIDE DEF p, s
      <4>4. TurnCost(c, e) = Charge(e, p, 0, 0, s)
        BY <4>1, <4>2, <4>3 DEF Charge
      <4>. QED BY <4>4 DEF p, s
    <3>. QED BY <3>4, <3>5
  <2>. QED BY <2>2, <2>3
<1>2. CASE v = "openai"
  <2>1. \A e \in S : TurnCost(c, e) = OpenAICost(c.openaiPrices, e)
    BY <1>2, <1>b DEF TurnCost, EventCost
  <2>2. CASE m \notin DOMAIN c.openaiPrices
    <3>1. \A e \in S : TurnCost(c, e) = 0
      BY <1>b, <2>1, <2>2 DEF OpenAICost, Has
    <3>. QED BY <1>free, <3>1
  <2>3. CASE m \in DOMAIN c.openaiPrices
    <3>. DEFINE b == c.openaiPrices[m]
    <3>1. \A k \in {"in", "cw", "cr", "out"} : b[k] \in Int
      BY <2>3 DEF RatedConfig, Rated
    <3>2. \A e \in S : TurnCost(c, e) = Priced([e EXCEPT !.cw = Nil], b)
      BY <1>b, <2>1, <2>3 DEF OpenAICost, Has
    <3>. HIDE DEF b
    <3>3. \A e \in S : TurnCost(c, e) = Charge(e, b.in, 0, b.cr, b.out)
      BY <1>b, <3>1, <3>2, PricedIs
    <3>4. 0 \in Int /\ b.in \in Int /\ b.cw \in Int /\ b.cr \in Int /\ b.out \in Int
      BY <3>1
    <3>. QED BY <3>3, <3>4
  <2>. QED BY <2>2, <2>3
<1>3. CASE v = "github"
  <2>1. \A e \in S : TurnCost(c, e) = CopilotCost(c, e)
    BY <1>3, <1>b DEF TurnCost, EventCost
  <2>2. CASE m \notin DOMAIN c.copilot
    <3>1. \A e \in S : TurnCost(c, e) = 0
      BY <1>b, <2>1, <2>2 DEF CopilotCost, Has
    <3>. QED BY <1>free, <3>1
  <2>3. CASE m \in DOMAIN c.copilot
    <3>. DEFINE b == c.copilot[m]
    <3>1. \A k \in {"in", "cw", "cr", "out"} : b[k] \in Int
      BY <2>3 DEF RatedConfig, Rated
    <3>2. \A e \in S : TurnCost(c, e) = Priced(e, b)
      BY <1>b, <2>1, <2>3 DEF CopilotCost, Has
    <3>. HIDE DEF b
    <3>3. \A e \in S : TurnCost(c, e) = Charge(e, b.in, b.cw, b.cr, b.out)
      BY <1>b, <3>1, <3>2, PricedIs
    <3>4. 0 \in Int /\ b.in \in Int /\ b.cw \in Int /\ b.cr \in Int /\ b.out \in Int
      BY <3>1
    <3>. QED BY <3>3, <3>4
  <2>. QED BY <2>2, <2>3
<1>4. CASE v \notin {"anthropic", "openai", "github"}
  <2>1. \A e \in S : TurnCost(c, e) = 0
    BY <1>4, <1>b DEF TurnCost, EventCost
  <2>. QED BY <1>free, <2>1
<1>. QED BY <1>1, <1>2, <1>3, <1>4

-----------------------------------------------------------------------------
(***************************************************************************)
(* A session's totals (SessionTotals): one row per model, with the classes *)
(* of its turns added up.                                                  *)
(***************************************************************************)
(* A set's classes, and their total.                                       *)
InputOf(S) == SumFunctionOnSet([e \in S |-> e.input], S)
WrittenOf(S) == SumFunctionOnSet([e \in S |-> Tokens(e.cw)], S)
ReadOf(S) == SumFunctionOnSet([e \in S |-> Tokens(e.cr)], S)
OutputOf(S) == SumFunctionOnSet([e \in S |-> e.output], S)
TotalOf(S) == SumFunctionOnSet([e \in S |-> TurnTotal(e)], S)

(* A stored event is counted.                                              *)
LEMMA FilledCounts ==
  ASSUME NEW e, Filled(e)
  PROVE  /\ Counted(e)
         /\ e.input \in Nat /\ Tokens(e.cw) \in Nat /\ Tokens(e.cr) \in Nat /\ e.output \in Nat
         /\ TurnTotal(e) = e.input + Tokens(e.cw) + Tokens(e.cr) + e.output
         /\ TurnTotal(e) \in Nat
<1>1. /\ e.input \in Nat /\ Tokens(e.cw) \in Nat /\ Tokens(e.cr) \in Nat /\ e.output \in Nat
  BY DEF Filled, Tokens, Nil
<1>2. IsEvent(e)
  BY DEF Filled
<1>3. {"cw", "input", "cr", "output"} \subseteq DOMAIN e
  BY <1>2 DEF IsEvent
<1>4. Counted(e)
  BY <1>1, <1>3 DEF Counted
<1>5. TurnTotal(e) = e.input + Tokens(e.cw) + Tokens(e.cr) + e.output
  BY DEF TurnTotal
<1>. QED BY <1>1, <1>4, <1>5

(* The classes of a set are these sums.                                    *)
LEMMA ClassesAre ==
  ASSUME NEW S
  PROVE  Classes(S) = [fresh |-> InputOf(S), cw |-> WrittenOf(S), cr |-> ReadOf(S), output |-> OutputOf(S)]
BY DEF Classes, InputOf, WrittenOf, ReadOf, OutputOf, SumOver

(* At one rate, what each costs adds up to what their classes cost.        *)
LEMMA ChargesAddUp ==
  ASSUME NEW S, IsFiniteSet(S), \A e \in S : Filled(e),
         NEW p \in Int, NEW q \in Int, NEW r \in Int, NEW s \in Int
  PROVE  /\ InputOf(S) \in Nat /\ WrittenOf(S) \in Nat /\ ReadOf(S) \in Nat /\ OutputOf(S) \in Nat
         /\ SumFunctionOnSet([e \in S |-> Charge(e, p, q, r, s)], S)
              = p * InputOf(S) + q * WrittenOf(S) + r * ReadOf(S) + s * OutputOf(S)
<1>. DEFINE f1 == [e \in S |-> e.input]
            f2 == [e \in S |-> Tokens(e.cw)]
            f3 == [e \in S |-> Tokens(e.cr)]
            f4 == [e \in S |-> e.output]
            g1 == [e \in S |-> p * e.input]
            g2 == [e \in S |-> q * Tokens(e.cw)]
            g3 == [e \in S |-> r * Tokens(e.cr)]
            g4 == [e \in S |-> s * e.output]
            h2 == [e \in S |-> p * e.input + q * Tokens(e.cw)]
            h3 == [e \in S |-> p * e.input + q * Tokens(e.cw) + r * Tokens(e.cr)]
            h4 == [e \in S |-> Charge(e, p, q, r, s)]
<1>1. \A e \in S : e.input \in Nat /\ Tokens(e.cw) \in Nat /\ Tokens(e.cr) \in Nat /\ e.output \in Nat
  BY FilledCounts
<1>2. \A e \in S : /\ f1[e] \in Nat /\ f2[e] \in Nat /\ f3[e] \in Nat /\ f4[e] \in Nat
                   /\ f1[e] \in Int /\ f2[e] \in Int /\ f3[e] \in Int /\ f4[e] \in Int
  BY <1>1
<1>3. \A e \in S : g1[e] = p * f1[e] /\ g2[e] = q * f2[e] /\ g3[e] = r * f3[e] /\ g4[e] = s * f4[e]
  OBVIOUS
<1>4. \A x, y \in Int : x * y \in Int
  OBVIOUS
<1>5. \A e \in S : g1[e] \in Int /\ g2[e] \in Int /\ g3[e] \in Int /\ g4[e] \in Int
  <2>. HIDE DEF f1, f2, f3, f4, g1, g2, g3, g4
  <2>. QED BY <1>2, <1>3, <1>4
<1>6. \A e \in S : h2[e] = g1[e] + g2[e] /\ h3[e] = h2[e] + g3[e] /\ h4[e] = h3[e] + g4[e]
  BY DEF Charge
<1>. HIDE DEF f1, f2, f3, f4, g1, g2, g3, g4, h2, h3, h4
<1>7. \A e \in S : h2[e] \in Int /\ h3[e] \in Int /\ h4[e] \in Int
  BY <1>5, <1>6
<1>8. /\ SumFunctionOnSet(g1, S) = p * SumFunctionOnSet(f1, S)
      /\ SumFunctionOnSet(g2, S) = q * SumFunctionOnSet(f2, S)
      /\ SumFunctionOnSet(g3, S) = r * SumFunctionOnSet(f3, S)
      /\ SumFunctionOnSet(g4, S) = s * SumFunctionOnSet(f4, S)
  BY <1>2, <1>3, SumScale
<1>9. SumFunctionOnSet(h2, S) = SumFunctionOnSet(g1, S) + SumFunctionOnSet(g2, S)
  BY <1>5, <1>6, SumPlus
<1>10. SumFunctionOnSet(h3, S) = SumFunctionOnSet(h2, S) + SumFunctionOnSet(g3, S)
  BY <1>5, <1>6, <1>7, SumPlus
<1>11. SumFunctionOnSet(h4, S) = SumFunctionOnSet(h3, S) + SumFunctionOnSet(g4, S)
  BY <1>5, <1>6, <1>7, SumPlus
<1>12. /\ SumFunctionOnSet(f1, S) \in Nat /\ SumFunctionOnSet(f2, S) \in Nat
       /\ SumFunctionOnSet(f3, S) \in Nat /\ SumFunctionOnSet(f4, S) \in Nat
  BY <1>2, SumNat
<1>13. SumFunctionOnSet(h4, S) = p * SumFunctionOnSet(f1, S) + q * SumFunctionOnSet(f2, S)
                                   + r * SumFunctionOnSet(f3, S) + s * SumFunctionOnSet(f4, S)
  BY <1>8, <1>9, <1>10, <1>11
<1>. QED BY <1>12, <1>13 DEF f1, f2, f3, f4, h4, InputOf, WrittenOf, ReadOf, OutputOf

(* The classes add up to the total.                                        *)
LEMMA TotalsAddUp ==
  ASSUME NEW S, IsFiniteSet(S), \A e \in S : Filled(e)
  PROVE  /\ InputOf(S) + WrittenOf(S) + ReadOf(S) + OutputOf(S) = TotalOf(S)
         /\ TotalOf(S) \in Nat
<1>. DEFINE f == [e \in S |-> TurnTotal(e)]
            g == [e \in S |-> Charge(e, 1, 1, 1, 1)]
<1>1. \A e \in S : f[e] = g[e] /\ f[e] \in Nat
  <2>1. SUFFICES ASSUME NEW e \in S PROVE f[e] = g[e] /\ f[e] \in Nat
    OBVIOUS
  <2>2. /\ e.input \in Nat /\ Tokens(e.cw) \in Nat /\ Tokens(e.cr) \in Nat /\ e.output \in Nat
        /\ TurnTotal(e) = e.input + Tokens(e.cw) + Tokens(e.cr) + e.output
        /\ TurnTotal(e) \in Nat
    BY FilledCounts
  <2>. QED BY <2>2 DEF Charge
<1>2. SumFunctionOnSet(g, S) = 1 * InputOf(S) + 1 * WrittenOf(S) + 1 * ReadOf(S) + 1 * OutputOf(S)
  BY ChargesAddUp
<1>3. InputOf(S) \in Nat /\ WrittenOf(S) \in Nat /\ ReadOf(S) \in Nat /\ OutputOf(S) \in Nat
  <2>1. 1 \in Int
    OBVIOUS
  <2>. QED BY <2>1, ChargesAddUp
<1>. HIDE DEF f, g
<1>4. SumFunctionOnSet(f, S) = SumFunctionOnSet(g, S)
  BY <1>1, SumSame
<1>5. SumFunctionOnSet(f, S) \in Nat
  BY <1>1, SumNat
<1>. QED BY <1>2, <1>3, <1>4, <1>5 DEF f, TotalOf

\* The row of one model.
OfModel(A, m) == {e \in A : e.model = m}
RowFor(A, k, m) ==
  [key |-> k, model |-> m, input |-> InputOf(OfModel(A, m)), cw |-> WrittenOf(OfModel(A, m)),
   cr |-> ReadOf(OfModel(A, m)), output |-> OutputOf(OfModel(A, m)),
   count |-> Cardinality(OfModel(A, m)), minAt |-> AsText(Min({AsText(e.at) : e \in OfModel(A, m)}))]
ModelsOf(A) == {e.model : e \in A}

(* SessionTotals has such a row for each model of the session.             *)
LEMMA TotalsAre ==
  ASSUME NEW es, NEW k
  PROVE  SessionTotals(es, {k}) = {RowFor(TurnSet(es, k), k, m) : m \in ModelsOf(TurnSet(es, k))}
<1>. DEFINE A == TurnSet(es, k)
            rows == {e \in Turns(es) : KeyOf(e) \in {k}}
            Group(g) == {e \in rows : KeyOf(e) = g.key /\ e.model = g.model}
            Row(g) == [key |-> g.key, model |-> g.model,
                       input |-> SumOver(Group(g), LAMBDA e : e.input),
                       cw |-> SumOver(Group(g), LAMBDA e : Tokens(e.cw)),
                       cr |-> SumOver(Group(g), LAMBDA e : Tokens(e.cr)),
                       output |-> SumOver(Group(g), LAMBDA e : e.output),
                       count |-> Cardinality(Group(g)),
                       minAt |-> AsText(Min({AsText(e.at) : e \in Group(g)}))]
            gs == {[key |-> KeyOf(e), model |-> e.model] : e \in rows}
            T == {Row(g) : g \in gs}
<1>1. SessionTotals(es, {k}) = T
  BY DEF SessionTotals
<1>2. rows = A /\ \A e \in A : KeyOf(e) = k
  BY DEF TurnSet
<1>3. ASSUME NEW m PROVE Row([key |-> k, model |-> m]) = RowFor(A, k, m)
  <2>. DEFINE g == [key |-> k, model |-> m]
  <2>1. g.key = k /\ g.model = m
    OBVIOUS
  <2>. HIDE DEF g, rows
  <2>2. Group(g) = OfModel(A, m)
    BY <1>2, <2>1 DEF OfModel
  <2>. HIDE DEF A
  <2>3. Row(g) = RowFor(A, k, m)
    BY <2>1, <2>2 DEF RowFor, InputOf, WrittenOf, ReadOf, OutputOf, SumOver
  <2>. QED BY <2>3 DEF g
<1>. HIDE DEF rows, A, Row
<1>4. gs = {[key |-> k, model |-> m] : m \in ModelsOf(A)}
  BY <1>2 DEF ModelsOf
<1>5. T = {Row([key |-> k, model |-> m]) : m \in ModelsOf(A)}
  BY <1>4
<1>6. T = {RowFor(A, k, m) : m \in ModelsOf(A)}
  BY <1>3, <1>5
<1>. QED BY <1>1, <1>6 DEF A

(* The turns of a session are cut up by their models.                      *)
LEMMA ModelGroups ==
  ASSUME NEW A, IsFiniteSet(A), NEW f, \A e \in A : f[e] \in Int,
         NEW g, \A m \in ModelsOf(A) : g[m] = SumFunctionOnSet(f, OfModel(A, m))
  PROVE  /\ IsFiniteSet(ModelsOf(A))
         /\ SumFunctionOnSet(g, ModelsOf(A)) = SumFunctionOnSet(f, A)
<1>. DEFINE k == [e \in A |-> e.model]
<1>1. ModelsOf(A) = {k[e] : e \in A}
  BY DEF ModelsOf
<1>2. \A e \in A : k[e] \in ModelsOf(A)
  BY DEF ModelsOf
<1>3. \A m : OfModel(A, m) = Fibre(A, k, m)
  BY DEF OfModel, Fibre
<1>. HIDE DEF k
<1>4. IsFiniteSet(ModelsOf(A))
  BY <1>1, ImageFinite
<1>. DEFINE K == ModelsOf(A)
<1>5. \A c \in K : g[c] = SumFunctionOnSet(f, Fibre(A, k, c))
  BY <1>3
<1>. HIDE DEF K
<1>6. SumFunctionOnSet(g, K) = SumFunctionOnSet(f, A)
  BY <1>2, <1>4, <1>5, SumByGroupInt DEF K
<1>. QED BY <1>4, <1>6 DEF K

\* A sum over the rows, of a figure F that each has for its model's turns.
LEMMA RowsAddUp ==
  ASSUME NEW A, IsFiniteSet(A), NEW k, NEW f, \A e \in A : f[e] \in Int,
         NEW r, \A m \in ModelsOf(A) : r[RowFor(A, k, m)] = SumFunctionOnSet(f, OfModel(A, m))
  PROVE  SumFunctionOnSet(r, {RowFor(A, k, m) : m \in ModelsOf(A)}) = SumFunctionOnSet(f, A)
<1>. DEFINE M == ModelsOf(A)
            g == [m \in M |-> SumFunctionOnSet(f, OfModel(A, m))]
            h == [m \in M |-> RowFor(A, k, m)]
            T == {RowFor(A, k, m) : m \in M}
<1>1. \A m \in M : g[m] = SumFunctionOnSet(f, OfModel(A, m))
  OBVIOUS
<1>2. \A m \in M : h[m] = RowFor(A, k, m) /\ h[m].model = m
  BY DEF RowFor
<1>. HIDE DEF g
<1>3. IsFiniteSet(M) /\ SumFunctionOnSet(g, M) = SumFunctionOnSet(f, A)
  BY <1>1, ModelGroups
<1>4. \A m \in M : g[m] \in Int
  <2>1. SUFFICES ASSUME NEW m \in M PROVE g[m] \in Int
    OBVIOUS
  <2>. DEFINE S == OfModel(A, m)
  <2>2. S \subseteq A
    BY DEF OfModel
  <2>3. IsFiniteSet(S) /\ \A e \in S : f[e] \in Int
    BY <2>2, FS_Subset
  <2>4. g[m] = SumFunctionOnSet(f, S)
    BY <1>1
  <2>. HIDE DEF S
  <2>. QED BY <2>3, <2>4, SumInt
<1>5. T = {h[m] : m \in M}
  OBVIOUS
<1>. HIDE DEF M, h, T
<1>6. IsFiniteSet(T)
  BY <1>3, <1>5, ImageFinite
<1>7. \A m \in M : h[m] \in T /\ r[h[m]] = g[m]
  <2>1. \A m \in M : r[RowFor(A, k, m)] = SumFunctionOnSet(f, OfModel(A, m))
    BY DEF M
  <2>. QED BY <1>1, <1>2, <1>5, <2>1
<1>8. /\ \A m, n \in M : h[m] = h[n] => m = n
      /\ \A t \in T : \E m \in M : h[m] = t
  BY <1>2, <1>5
<1>9. SumFunctionOnSet(r, T) = SumFunctionOnSet(g, M)
  BY <1>3, <1>4, <1>6, <1>7, <1>8, SumAlong
<1>. QED BY <1>3, <1>9 DEF M, T

(* All of A are turns of the session k.                                    *)
TurnsAt(A, k) == IsFiniteSet(A) /\ (\A e \in A : Filled(e)) /\ (\A e \in A : KeyOf(e) = k)

(* The rows count and cost what A does.                                    *)
AddUpTo(rows, c, A) ==
  /\ SumOver(rows, LAMBDA r : r.input + r.cw + r.cr + r.output) = SumOver(A, TurnTotal)
  /\ SumOver(rows, LAMBDA r : r.count) = Cardinality(A)
  /\ Sub(c, {Synthetic(r) : r \in rows}) = Sub(c, A)

(* So do the rows of SessionTotals: the cost of a row is that of its model's *)
(* turns, for they have one vendor and one model (CostIsLinear).           *)
LEMMA SessionAddsUp ==
  ASSUME NEW A, NEW k, TurnsAt(A, k), NEW c, RatedConfig(c)
  PROVE  AddUpTo({RowFor(A, k, m) : m \in ModelsOf(A)}, c, A)
<1>. DEFINE rows == {RowFor(A, k, m) : m \in ModelsOf(A)}
<1>a. IsFiniteSet(A) /\ (\A e \in A : Filled(e)) /\ (\A e \in A : KeyOf(e) = k)
  BY DEF TurnsAt
<1>. SUFFICES /\ SumOver(rows, LAMBDA r : r.input + r.cw + r.cr + r.output) = SumOver(A, TurnTotal)
              /\ SumOver(rows, LAMBDA r : r.count) = Cardinality(A)
              /\ Sub(c, {Synthetic(r) : r \in rows}) = Sub(c, A)
  BY DEF AddUpTo
<1>. USE <1>a
<1>0. \A m : OfModel(A, m) \subseteq A /\ IsFiniteSet(OfModel(A, m)) /\ \A e \in OfModel(A, m) : Filled(e)
  <2>1. \A m : OfModel(A, m) \subseteq A
    BY DEF OfModel
  <2>. QED BY <2>1, FS_Subset
<1>1. SumOver(rows, LAMBDA r : r.input + r.cw + r.cr + r.output) = SumOver(A, TurnTotal)
  <2>. DEFINE f == [e \in A |-> TurnTotal(e)]
              r == [x \in rows |-> x.input + x.cw + x.cr + x.output]
  <2>1. \A e \in A : f[e] \in Int
    BY FilledCounts
  <2>2. ASSUME NEW m \in ModelsOf(A)
        PROVE  r[RowFor(A, k, m)] = SumFunctionOnSet(f, OfModel(A, m))
    <3>. DEFINE S == OfModel(A, m)
                g == [e \in S |-> TurnTotal(e)]
    <3>1. RowFor(A, k, m) \in rows
      OBVIOUS
    <3>2. r[RowFor(A, k, m)] = InputOf(S) + WrittenOf(S) + ReadOf(S) + OutputOf(S)
      BY <3>1 DEF RowFor
    <3>3. \A e \in S : f[e] = g[e]
      BY <1>0
    <3>4. IsFiniteSet(S) /\ \A e \in S : Filled(e)
      BY <1>0
    <3>. HIDE DEF S, f, g, r
    <3>5. SumFunctionOnSet(f, S) = SumFunctionOnSet(g, S)
      BY <3>3, <3>4, SumSame
    <3>6. SumFunctionOnSet(g, S) = TotalOf(S)
      BY DEF TotalOf, g
    <3>. QED BY <3>2, <3>4, <3>5, <3>6, TotalsAddUp DEF S
  <2>. HIDE DEF f, r
  <2>3. SumFunctionOnSet(r, rows) = SumFunctionOnSet(f, A)
    BY <2>1, <2>2, RowsAddUp
  <2>. QED BY <2>3 DEF f, r, SumOver
<1>2. SumOver(rows, LAMBDA r : r.count) = Cardinality(A)
  <2>. DEFINE f == [e \in A |-> 1]
              r == [x \in rows |-> x.count]
  <2>1. \A e \in A : f[e] = 1 /\ f[e] \in Int
    OBVIOUS
  <2>2. ASSUME NEW m \in ModelsOf(A)
        PROVE  r[RowFor(A, k, m)] = SumFunctionOnSet(f, OfModel(A, m))
    <3>1. RowFor(A, k, m) \in rows
      OBVIOUS
    <3>2. r[RowFor(A, k, m)] = Cardinality(OfModel(A, m))
      BY <3>1 DEF RowFor
    <3>. DEFINE S == OfModel(A, m)
    <3>3. IsFiniteSet(S) /\ \A e \in S : f[e] = 1
      BY <1>0, <2>1
    <3>. HIDE DEF S, f, r
    <3>4. SumFunctionOnSet(f, S) = Cardinality(S)
      BY <3>3, CountIsSum
    <3>. QED BY <3>2, <3>4 DEF S
  <2>. HIDE DEF f, r
  <2>3. SumFunctionOnSet(r, rows) = SumFunctionOnSet(f, A)
    BY <2>1, <2>2, RowsAddUp
  <2>4. SumFunctionOnSet(f, A) = Cardinality(A)
    BY <2>1, CountIsSum
  <2>. QED BY <2>3, <2>4 DEF r, SumOver
<1>3. Sub(c, {Synthetic(r) : r \in rows}) = Sub(c, A)
  <2>. DEFINE M == ModelsOf(A)
              f == [e \in A |-> TurnCost(c, e)]
              x == [m \in M |-> Synthetic(RowFor(A, k, m))]
              X == {Synthetic(r) : r \in rows}
              g == [m \in M |-> TurnCost(c, x[m])]
              r == [y \in X |-> TurnCost(c, y)]
  <2>1. /\ X = {x[m] : m \in M}
        /\ \A m \in M : x[m].model = m /\ x[m] \in X /\ r[x[m]] = g[m]
        /\ \A y \in X : \E m \in M : x[m] = y
    <3>1. X = {x[m] : m \in M}
      OBVIOUS
    <3>2. \A m \in M : x[m].model = m
      BY DEF Synthetic, RowFor
    <3>. HIDE DEF X, x, M
    <3>. QED BY <3>1, <3>2
  <2>2. ASSUME NEW m \in M
        PROVE  g[m] = SumFunctionOnSet(f, OfModel(A, m)) /\ g[m] \in Int
    <3>. DEFINE S == OfModel(A, m)
                s == x[m]
                T == S \cup {s}
                fS == [e \in S |-> TurnCost(c, e)]
    <3>1. IsFiniteSet(S) /\ (\A e \in S : Filled(e) /\ e.model = m /\ e.vendor = k[1]) /\ S \subseteq A
      <4>1. IsFiniteSet(S) /\ S \subseteq A /\ \A e \in S : Filled(e)
        BY <1>0
      <4>2. \A e \in S : e.model = m
        BY DEF OfModel
      <4>. HIDE DEF S
      <4>3. \A e \in S : e.vendor = k[1]
        <5>1. \A e \in S : KeyOf(e) = k
          BY <4>1
        <5>. QED BY <5>1 DEF KeyOf
      <4>. QED BY <4>1, <4>2, <4>3
    <3>i. InputOf(S) \in Nat /\ WrittenOf(S) \in Nat /\ ReadOf(S) \in Nat /\ OutputOf(S) \in Nat
      <4>1. 1 \in Int
        OBVIOUS
      <4>. HIDE DEF S
      <4>. QED BY <3>1, <4>1, ChargesAddUp
    <3>2. s = [vendor |-> k[1], model |-> m, input |-> InputOf(S), cw |-> WrittenOf(S),
               cr |-> ReadOf(S), output |-> OutputOf(S)]
      BY DEF Synthetic, RowFor
    <3>. HIDE DEF S, s
    <3>3. /\ s.vendor = k[1] /\ s.model = m /\ s.input = InputOf(S) /\ s.output = OutputOf(S)
          /\ Tokens(s.cw) = WrittenOf(S) /\ Tokens(s.cr) = ReadOf(S) /\ Counted(s)
      <4>1. s.vendor = k[1] /\ s.model = m /\ s.input = InputOf(S) /\ s.output = OutputOf(S)
            /\ s.cw = WrittenOf(S) /\ s.cr = ReadOf(S) /\ {"cw", "input", "cr", "output"} \subseteq DOMAIN s
        BY <3>2
      <4>2. Tokens(s.cw) = WrittenOf(S) /\ Tokens(s.cr) = ReadOf(S)
        BY <4>1, <3>i DEF Tokens, Nil
      <4>. QED BY <4>1, <4>2, <3>i DEF Counted
    <3>4. \A e \in T : e.vendor = k[1] /\ e.model = m /\ Counted(e)
      BY <3>1, <3>3, FilledCounts
    <3>5. PICK a, b, d, o \in Int : \A e \in T : TurnCost(c, e) = Charge(e, a, b, d, o)
      <4>1. OneBook(T, k[1], m)
        BY <3>4 DEF OneBook
      <4>. HIDE DEF T
      <4>2. Linear(c, T)
        BY <4>1, CostIsLinear
      <4>. QED BY <4>2 DEF Linear
    <3>6. g[m] = a * InputOf(S) + b * WrittenOf(S) + d * ReadOf(S) + o * OutputOf(S)
      <4>1. g[m] = TurnCost(c, s)
        BY DEF s
      <4>2. TurnCost(c, s) = Charge(s, a, b, d, o)
        BY <3>5
      <4>. QED BY <4>1, <4>2, <3>3 DEF Charge
    <3>. DEFINE ch == [e \in S |-> Charge(e, a, b, d, o)]
    <3>7. SumFunctionOnSet(ch, S) = a * InputOf(S) + b * WrittenOf(S) + d * ReadOf(S) + o * OutputOf(S)
      BY <3>1, ChargesAddUp
    <3>8. \A e \in S : f[e] = ch[e]
      BY <3>1, <3>5
    <3>9. g[m] \in Int
      <4>1. \A p, q \in Int : p * q \in Int /\ p + q \in Int
        OBVIOUS
      <4>2. InputOf(S) \in Int /\ WrittenOf(S) \in Int /\ ReadOf(S) \in Int /\ OutputOf(S) \in Int
        BY <3>i
      <4>. HIDE DEF g
      <4>3. a * InputOf(S) \in Int /\ b * WrittenOf(S) \in Int /\ d * ReadOf(S) \in Int /\ o * OutputOf(S) \in Int
        BY <4>1, <4>2
      <4>. QED BY <4>1, <4>3, <3>6
    <3>. HIDE DEF ch, f, g
    <3>10. SumFunctionOnSet(f, S) = SumFunctionOnSet(ch, S)
      BY <3>1, <3>8, SumSame
    <3>. QED BY <3>6, <3>7, <3>9, <3>10 DEF S
  <2>3. \A e \in A : f[e] \in Int
    <3>1. SUFFICES ASSUME NEW e \in A PROVE TurnCost(c, e) \in Int
      OBVIOUS
    <3>2. Counted(e)
      BY FilledCounts
    <3>3. PICK a, b, d, o \in Int : \A z \in {e} : TurnCost(c, z) = Charge(z, a, b, d, o)
      <4>. DEFINE T == {e}
      <4>1. OneBook(T, e.vendor, e.model)
        BY <3>2 DEF OneBook
      <4>. HIDE DEF T
      <4>2. Linear(c, T)
        BY <4>1, CostIsLinear
      <4>. QED BY <4>2 DEF Linear, T
    <3>4. TurnCost(c, e) = a * e.input + b * Tokens(e.cw) + d * Tokens(e.cr) + o * e.output
      BY <3>3 DEF Charge
    <3>5. \A p, q \in Int : p * q \in Int /\ p + q \in Int
      OBVIOUS
    <3>6. e.input \in Int /\ Tokens(e.cw) \in Int /\ Tokens(e.cr) \in Int /\ e.output \in Int
      BY <3>2 DEF Counted
    <3>7. a * e.input \in Int /\ b * Tokens(e.cw) \in Int /\ d * Tokens(e.cr) \in Int /\ o * e.output \in Int
      BY <3>5, <3>6
    <3>. QED BY <3>4, <3>5, <3>7
  <2>. HIDE DEF f, g, r, x, X
  <2>4. \A m \in M : g[m] = SumFunctionOnSet(f, OfModel(A, m)) /\ g[m] \in Int
    BY <2>2
  <2>5. IsFiniteSet(M) /\ SumFunctionOnSet(g, M) = SumFunctionOnSet(f, A)
    BY <2>3, <2>4, ModelGroups
  <2>. HIDE DEF M
  <2>6. IsFiniteSet(X)
    BY <2>1, <2>5, ImageFinite
  <2>7. \A m, n \in M : x[m] = x[n] => m = n
    BY <2>1
  <2>8. SumFunctionOnSet(r, X) = SumFunctionOnSet(g, M)
    BY <2>1, <2>4, <2>5, <2>6, <2>7, SumAlong
  <2>. QED BY <2>5, <2>8 DEF Sub, SumOver, r, f, X
<1>. QED BY <1>1, <1>2, <1>3

-----------------------------------------------------------------------------
(***************************************************************************)
(* The Now page against the session pages: a running session's figures, and *)
(* the places of the tree.                                                 *)
(***************************************************************************)
(* A desk's config has rates.                                              *)
LEMMA RatesAre ==
  ASSUME on \in Desks, ClockTyped
  PROVE  RatedConfig(cfg)
<1>1. rules \in DOMAIN on.configs
  BY DEF ClockTyped
<1>2. cfg \in Elems(on.configs)
  BY <1>1 DEF Elems, cfg
<1>. QED BY <1>2, PricesAssumption DEF RatedConfig

(* The sound store, and what the Now page reads of it.                     *)
LEMMA RecentIs ==
  ASSUME StoreInv
  PROVE  /\ IsFiniteSet(events) /\ (\A x \in events : Filled(x))
         /\ \A x, y \in events : x.row = y.row => x = y
         /\ Recent \subseteq events /\ IsFiniteSet(Recent) /\ (\A x \in Recent : Filled(x))
         /\ \A x, y \in Recent : x.row = y.row => x = y
<1>1. /\ IsFiniteSet(events) /\ (\A x \in events : Filled(x))
      /\ \A x, y \in events : x.row = y.row => x = y
  BY RowsApart DEF StoreInv, StoreTyped
<1>2. Recent \subseteq events
  BY DEF Recent, RecentAt, EventsSince
<1>. HIDE DEF Recent
<1>. QED BY <1>1, <1>2, FS_Subset

(* What the Now page is made of.                                           *)
LEMMA LiveIs ==
  LET ks == Shown(RunningKeys(Recent, cfg, Now))
  IN /\ LiveView.sessions = [k \in ks |-> ApplySessionTotals(LiveSession(Recent, k, cfg), events, cfg)]
     /\ LiveView.tree = Tree(Recent, cfg, Now)
     /\ LiveView.chart = [i \in DOMAIN Chart(Recent, Now, SlotLength) |->
                             SlotBars(cfg, Chart(Recent, Now, SlotLength)[i])]
     /\ LiveView.turns = BuildTurns(Recent, cfg, WindowStart(Now, SlotLength), Now, TurnTickerCap)
<1>. DEFINE ks == Shown(RunningKeys(Recent, cfg, Now))
            snap == BuildSnapshot(Recent, cfg, Now, SlotLength)
<1>1. LiveView = [snap EXCEPT !.sessions =
                    [k \in DOMAIN @ |-> ApplySessionTotals(@[k], events, cfg)]]
  BY DEF LiveView, LiveViewAt, Recent
<1>2. /\ snap.sessions = [k \in ks |-> LiveSession(Recent, k, cfg)]
      /\ snap.tree = Tree(Recent, cfg, Now)
      /\ snap.chart = [i \in DOMAIN Chart(Recent, Now, SlotLength) |->
                          SlotBars(cfg, Chart(Recent, Now, SlotLength)[i])]
      /\ snap.turns = BuildTurns(Recent, cfg, WindowStart(Now, SlotLength), Now, TurnTickerCap)
      /\ DOMAIN snap = {"sessions", "tree", "chart", "turns", "agents"}
  BY DEF BuildSnapshot
<1>. HIDE DEF snap, ks
<1>3. /\ LiveView.sessions = [k \in DOMAIN snap.sessions |-> ApplySessionTotals(snap.sessions[k], events, cfg)]
      /\ LiveView.tree = snap.tree /\ LiveView.chart = snap.chart /\ LiveView.turns = snap.turns
  BY <1>1, <1>2
<1>4. LiveView.sessions = [k \in ks |-> ApplySessionTotals(LiveSession(Recent, k, cfg), events, cfg)]
  BY <1>2, <1>3
<1>. QED BY <1>2, <1>3, <1>4 DEF ks

(* A running session has a dated turn in the store.                        *)
LEMMA RunningHas ==
  ASSUME StoreInv, NEW k \in RunningKeys(Recent, cfg, Now)
  PROVE  \E e \in TurnSet(events, k) : e.at # 0
<1>. DEFINE A == TurnSet(Recent, k)
            ts == TurnsOf(Recent, k)
            n == Len(ts)
<1>1. /\ k \in {KeyOf(e) : e \in Turns(Recent)}
      /\ ts[n].at # 0
  BY DEF RunningKeys
<1>2. A # {} /\ A \subseteq TurnSet(events, k)
  BY <1>1, RecentIs DEF TurnSet, Turns
<1>3. /\ IsFiniteSet(A) /\ Cardinality(A) \in Nat /\ n = Cardinality(A)
      /\ ts \in [1..Cardinality(A) -> A]
  <2>. HIDE DEF Recent
  <2>. QED BY RecentIs, TurnsAre
<1>. HIDE DEF A, ts
<1>4. n # 0
  BY <1>2, <1>3, FS_EmptySet
<1>5. ts[n] \in A
  BY <1>3, <1>4
<1>. QED BY <1>1, <1>2, <1>5

(* An event's vendor is one of the four.                                   *)
LEMMA VendorIs ==
  ASSUME on \in Desks, StoreMade, NEW e \in events
  PROVE  e.vendor \in Range(Vendors)
<1>1. PICK f \in on.sources : MadeBy(f, e)
  BY DEF StoreMade
<1>2. KeyOf(e) \in SessionsOf(f)
  BY <1>1, KeyIsOwn
<1>3. e.vendor = KeyOf(e)[1]
  BY DEF KeyOf
<1>4. KeyOf(e)[1] \in {"anthropic", "openai", "github", "nous"}
  BY <1>2 DEF SessionsOf
<1>5. Vendors[1] = "anthropic" /\ Vendors[2] = "github" /\ Vendors[3] = "nous" /\ Vendors[4] = "openai"
  BY DEF Vendors
<1>6. DOMAIN Vendors = 1..4
  BY DEF Vendors
<1>7. 1 \in 1..4 /\ 2 \in 1..4 /\ 3 \in 1..4 /\ 4 \in 1..4
  OBVIOUS
<1>. QED BY <1>3, <1>4, <1>5, <1>6, <1>7 DEF Range

(* A running session's vendor has its place among the names.               *)
LEMMA RankIs ==
  ASSUME StoreInv, NEW k \in RunningKeys(Recent, cfg, Now)
  PROVE  VendorRank(k[1]) \in 1..4
<1>1. PICK e \in TurnSet(events, k) : e.at # 0
  BY RunningHas
<1>2. e \in events /\ k[1] = e.vendor
  BY <1>1 DEF TurnSet, Turns, KeyOf
<1>3. \E i \in DOMAIN Vendors : Vendors[i] = k[1]
  BY <1>2, VendorIs DEF Range, StoreInv
<1>4. DOMAIN Vendors = 1..4
  BY DEF Vendors
<1>5. VendorRank(k[1]) \in DOMAIN Vendors
  <2>. HIDE DEF Vendors
  <2>. QED BY <1>3 DEF VendorRank
<1>. QED BY <1>4, <1>5

(* A session the page shows is running.                                    *)
LEMMA ShownRun ==
  ASSUME StoreInv, NEW k \in Shown(RunningKeys(Recent, cfg, Now))
  PROVE  k \in RunningKeys(Recent, cfg, Now)
<1>. DEFINE ks == RunningKeys(Recent, cfg, Now)
<1>1. PICK x \in ks : k = ByID(ks, x[2])
  BY DEF Shown
<1>2. \A j \in ks : VendorRank(j[1]) \in 1..4
  BY RankIs
<1>. HIDE DEF ks
<1>. DEFINE same == {j \in ks : j[2] = x[2]}
            I == {VendorRank(j[1]) : j \in same}
<1>3. I \in SUBSET (1..4) /\ I # {}
  BY <1>2
<1>4. PICK i \in I : \A j \in I : j <= i
  <2>. HIDE DEF I
  <2>1. I \in SUBSET Int
    BY <1>3
  <2>2. IsFiniteSet(1..4)
    BY 1 \in Int, 4 \in Int, FS_Interval
  <2>3. IsFiniteSet(I)
    BY <1>3, <2>2, FS_Subset
  <2>4. Max(I) \in I /\ \A j \in I : j <= Max(I)
    BY <1>3, <2>1, <2>3, MaxIs
  <2>. QED BY <2>4
<1>5. \E m \in same : \A j \in same : VendorRank(j[1]) <= VendorRank(m[1])
  BY <1>4
<1>6. ByID(ks, x[2]) \in same
  BY <1>5 DEF ByID
<1>. QED BY <1>1, <1>6 DEF ks

(* Sessions and the Now page.                                              *)
LEMMA SessionsAdd == StoreInv => SessionsAddUp(LiveView)
<1>. SUFFICES ASSUME StoreInv PROVE SessionsAddUp(LiveView)
  OBVIOUS
<1>. DEFINE ks == Shown(RunningKeys(Recent, cfg, Now))
<1>1. LiveView.sessions = [k \in ks |-> ApplySessionTotals(LiveSession(Recent, k, cfg), events, cfg)]
  BY LiveIs
<1>. SUFFICES ASSUME NEW k \in ks
              PROVE  \E s \in Book :
                        /\ s.key = k
                        /\ s.all.tokens = LiveView.sessions[k].tokens
                        /\ s.all.calls = LiveView.sessions[k].turnCount
                        /\ s.all.sub = LiveView.sessions[k].cost
  <2>. HIDE DEF ks
  <2>. QED BY <1>1 DEF SessionsAddUp
<1>. DEFINE es == {e \in events : KeyOf(e) = k}
            A == TurnSet(events, k)
            rows == SessionTotals(events, {k})
            live == LiveView.sessions[k]
<1>2. /\ IsFiniteSet(A) /\ (\A e \in A : Filled(e)) /\ (\A e \in A : KeyOf(e) = k)
      /\ Turns(es) = A /\ A \subseteq es
  <2>1. A \subseteq events /\ (\A e \in A : KeyOf(e) = k) /\ Turns(es) = A /\ A \subseteq es
    BY DEF TurnSet, Turns
  <2>. HIDE DEF A
  <2>. QED BY <2>1, RecentIs, FS_Subset
<1>3. PICK e \in A : e.at # 0
  BY RunningHas, ShownRun
<1>4. rows = {RowFor(A, k, m) : m \in ModelsOf(A)}
  BY TotalsAre
<1>5. rows # {}
  BY <1>3, <1>4 DEF ModelsOf
<1>6. /\ live.tokens = SumOver(rows, LAMBDA r : r.input + r.cw + r.cr + r.output)
      /\ live.turnCount = SumOver(rows, LAMBDA r : r.count)
      /\ live.cost = Sub(cfg, {Synthetic(r) : r \in rows})
  <2>. DEFINE s == LiveSession(Recent, k, cfg)
  <2>1. live = ApplySessionTotals(s, events, cfg)
    <3>. HIDE DEF ks
    <3>. QED BY <1>1
  <2>2. s.key = k /\ {"key", "tokens", "turnCount", "cost", "business", "start"} \subseteq DOMAIN s
    BY DEF LiveSession, LiveCard
  <2>. HIDE DEF s, live
  <2>3. live = [s EXCEPT !.tokens = SumOver(rows, LAMBDA r : r.input + r.cw + r.cr + r.output),
                         !.turnCount = SumOver(rows, LAMBDA r : r.count),
                         !.cost = Sub(cfg, {Synthetic(r) : r \in rows}),
                         !.business = HeadlineOf(cfg, {Synthetic(r) : r \in rows}),
                         !.start = Min({r.minAt : r \in rows})]
    BY <1>5, <2>1, <2>2 DEF ApplySessionTotals
  <2>. DEFINE a == SumOver(rows, LAMBDA r : r.input + r.cw + r.cr + r.output)
              b == SumOver(rows, LAMBDA r : r.count)
              c == Sub(cfg, {Synthetic(r) : r \in rows})
  <2>. HIDE DEF a, b, c, rows
  <2>4. live.tokens = a /\ live.turnCount = b /\ live.cost = c
    BY <2>2, <2>3 DEF a, b, c
  <2>. QED BY <2>4 DEF a, b, c
<1>7. RatedConfig(cfg)
  BY RatesAre DEF StoreInv
<1>8. /\ live.tokens = SumOver(A, TurnTotal) /\ live.turnCount = Cardinality(A)
      /\ live.cost = Sub(cfg, A)
  <2>1. TurnsAt(A, k)
    BY <1>2 DEF TurnsAt
  <2>2. AddUpTo({RowFor(A, k, m) : m \in ModelsOf(A)}, cfg, A)
    BY <1>7, <2>1, SessionAddsUp
  <2>. HIDE DEF A, live
  <2>3. AddUpTo(rows, cfg, A)
    <3>. HIDE DEF rows
    <3>. QED BY <1>4, <2>2
  <2>. QED BY <1>6, <2>3 DEF AddUpTo
<1>9. PICK s \in BuildSession(es, cfg) :
         s.key = KeyOf(Sorted(es, StoreOrder)[1]) /\ s.all = Figures(cfg, Turns(es))
  <2>1. Turns(es) # {} /\ {x.at : x \in es} \ {0} # {}
    BY <1>2, <1>3
  <2>. HIDE DEF es
  <2>. QED BY <2>1 DEF BuildSession
<1>10. s.key = k
  <2>. DEFINE R == {p \in es \X es : StoreOrder(p[1], p[2])}
              n == Cardinality(es)
  <2>1. es \subseteq events /\ es # {}
    BY <1>2, <1>3
  <2>2. Sorted(es, StoreOrder) = SortedBy(es, R)
    BY DEF Sorted
  <2>3. \A x \in es : KeyOf(x) = k
    OBVIOUS
  <2>. HIDE DEF es
  <2>4. IsFiniteSet(es) /\ (\A x \in es : Filled(x)) /\ \A x, y \in es : x.row = y.row => x = y
    BY <2>1, RecentIs, FS_Subset
  <2>5. \A x, y \in es : <<x, y>> \in R <=> StoreOrder(x, y)
    OBVIOUS
  <2>. HIDE DEF R
  <2>6. Orders(R, es)
    BY <2>4, <2>5, StoreOrderIs DEF Orders
  <2>7. SortedBy(es, R) \in [1..n -> es]
    BY <2>4, <2>6, SortedHas
  <2>8. n \in Nat /\ n # 0
    BY <2>1, <2>4, FS_CardinalityType, FS_EmptySet
  <2>9. SortedBy(es, R)[1] \in es
    BY <2>7, <2>8
  <2>. QED BY <1>9, <2>2, <2>3, <2>9
<1>11. /\ s.all.tokens = SumOver(A, TurnTotal) /\ s.all.calls = Cardinality(A)
       /\ s.all.sub = Sub(cfg, A)
  <2>. HIDE DEF A, es
  <2>. QED BY <1>2, <1>9 DEF Figures, Sub, TurnCost
<1>12. s \in Book
  <2>1. k \in {KeyOf(x) : x \in events}
    <3>1. e \in events /\ KeyOf(e) = k
      BY <1>2
    <3>. QED BY <3>1
  <2>2. BuildSession(es, cfg) \subseteq SessionsFromEvents(events, cfg)
    BY <2>1 DEF SessionsFromEvents
  <2>. QED BY <1>9, <2>2 DEF Book
<1>. HIDE DEF live, A
<1>13. /\ s.all.tokens = live.tokens /\ s.all.calls = live.turnCount /\ s.all.sub = live.cost
  BY <1>8, <1>11
<1>. QED BY <1>10, <1>12, <1>13 DEF live

(* A session alone with its id has its place in the tree.                  *)
LEMMA PlacesDo == StoreInv => PlacesStand(LiveView)
<1>. SUFFICES ASSUME StoreInv PROVE PlacesStand(LiveView)
  OBVIOUS
<1>. DEFINE ks == RunningKeys(Recent, cfg, Now)
            tree == Tree(Recent, cfg, Now)
<1>1. LiveView.tree = tree
  BY LiveIs
<1>2. DOMAIN tree = ks /\ \A k \in ks : tree[k].shows = ByID(ks, k[2])
  BY DEF Tree
<1>. HIDE DEF ks, tree
<1>. SUFFICES ASSUME NEW k \in ks, \A j \in ks : j[2] = k[2] => j = k
              PROVE  ByID(ks, k[2]) = k
  BY <1>1, <1>2 DEF PlacesStand
<1>3. {j \in ks : j[2] = k[2]} = {k}
  OBVIOUS
<1>4. VendorRank(k[1]) \in Int
  BY RankIs DEF ks
<1>5. VendorRank(k[1]) <= VendorRank(k[1])
  BY <1>4
<1>6. \A x \in {k} : \A j \in {k} : VendorRank(j[1]) <= VendorRank(x[1])
  BY <1>5
<1>7. (CHOOSE x \in {k} : \A j \in {k} : VendorRank(j[1]) <= VendorRank(x[1])) = k
  <2>1. \E x \in {k} : \A j \in {k} : VendorRank(j[1]) <= VendorRank(x[1])
    BY <1>6
  <2>. QED BY <2>1
<1>. QED BY <1>3, <1>7 DEF ByID

-----------------------------------------------------------------------------
(***************************************************************************)
(* The chart: its slots hold every turn before its right edge once.        *)
(***************************************************************************)
(* x is in one of the first n slots of width w exactly if it is below n * w. *)
LEMMA SlotIs ==
  ASSUME NEW x \in Nat, NEW w \in Nat \ {0}, NEW n \in Nat
  PROVE  /\ x \div w \in Nat
         /\ x \div w \in 0..(n - 1) <=> x < n * w
<1>. DEFINE q == x \div w
            r == x % w
<1>1. x = w * q + r /\ 0 <= r /\ r < w /\ q \in Int
  OBVIOUS
<1>2. r \in Int
  OBVIOUS
<1>. HIDE DEF q, r
<1>3. q >= 0
  <2>1. SUFFICES ASSUME q <= -1 PROVE FALSE
    BY <1>1
  <2>2. \A a, b \in Int : a <= b => w * a <= w * b
    OBVIOUS
  <2>3. w * q <= w * (-1) /\ w * (-1) = -w /\ w * q \in Int
    BY <1>1, <2>1, <2>2
  <2>. QED BY <1>1, <1>2, <2>3
<1>4. q <= n - 1 => x < n * w
  <2>1. SUFFICES ASSUME q <= n - 1 PROVE x < n * w
    OBVIOUS
  <2>2. \A a, b \in Int : a <= b => w * a <= w * b
    OBVIOUS
  <2>3. w * (q + 1) <= w * n /\ w * (q + 1) = w * q + w /\ w * n = n * w
    BY <1>1, <2>1, <2>2
  <2>. QED BY <1>1, <1>2, <2>3
<1>5. q >= n => ~(x < n * w)
  <2>1. SUFFICES ASSUME q >= n PROVE x >= n * w
    OBVIOUS
  <2>2. \A a, b \in Int : a <= b => w * a <= w * b
    OBVIOUS
  <2>3. w * n <= w * q /\ w * n = n * w /\ w * q \in Int
    BY <1>1, <2>1, <2>2
  <2>. QED BY <1>1, <1>2, <2>3
<1>6. q \in Nat /\ (q \in 0..(n - 1) <=> x < n * w)
  BY <1>1, <1>3, <1>4, <1>5
<1>. QED BY <1>6 DEF q

(* The chart's right edge is not before now.                               *)
LEMMA EdgeIs ==
  ASSUME NEW t \in Nat
  PROVE  /\ WindowStart(t, SlotLength) \in Int
         /\ t <= WindowStart(t, SlotLength) + ChartBack
         /\ ChartBack \in Nat
<1>. DEFINE w == SlotLength * Second
            a == t + w - 1
            q == a \div w
<1>1. w \in Nat /\ w > 0
  BY SlotAssumption DEF Second
<1>2. ChartBack \in Nat
  BY LiveAssumption DEF ChartBack, Second
<1>3. WindowStart(t, SlotLength) = w * q - ChartBack
  BY DEF WindowStart, CeilDiv
<1>. HIDE DEF w
<1>4. a \in Nat
  BY <1>1
<1>. DEFINE r == a % w
<1>5. a = w * q + r /\ r \in Int /\ r < w /\ q \in Int /\ w * q \in Int
  <2>. HIDE DEF a
  <2>. QED BY <1>1, <1>4
<1>6. t <= w * q
  <2>. HIDE DEF q, r
  <2>. QED BY <1>1, <1>5
<1>. HIDE DEF q, a
<1>. QED BY <1>2, <1>3, <1>5, <1>6

(* The tokens of a slot's bars, and of all slots'.                         *)
BarsOf(c, S) == ClassTokens(SlotBars(c, S).bars)

SlotsHold(c, chart) == SumOver(DOMAIN chart, LAMBDA i : BarsOf(c, chart[i]))

(* A total cut into groups.                                                *)
LEMMA TotalByGroup ==
  ASSUME NEW S, IsFiniteSet(S), \A e \in S : Filled(e),
         NEW k, NEW K, IsFiniteSet(K), \A x \in S : k[x] \in K,
         NEW g, \A c \in K : g[c] = TotalOf(Fibre(S, k, c))
  PROVE  SumFunctionOnSet(g, K) = TotalOf(S)
<1>. DEFINE f == [e \in S |-> TurnTotal(e)]
<1>1. \A e \in S : f[e] \in Int
  BY FilledCounts
<1>2. \A c \in K : g[c] = SumFunctionOnSet(f, Fibre(S, k, c))
  <2>1. SUFFICES ASSUME NEW c \in K PROVE TotalOf(Fibre(S, k, c)) = SumFunctionOnSet(f, Fibre(S, k, c))
    OBVIOUS
  <2>. DEFINE T == Fibre(S, k, c)
              h == [e \in T |-> TurnTotal(e)]
  <2>2. T \subseteq S
    BY DEF Fibre
  <2>3. IsFiniteSet(T) /\ \A e \in T : f[e] = h[e]
    BY <2>2, FS_Subset
  <2>. HIDE DEF T, f, h
  <2>4. SumFunctionOnSet(f, T) = SumFunctionOnSet(h, T)
    BY <2>3, SumSame
  <2>. QED BY <2>4 DEF TotalOf, h, T
<1>. HIDE DEF f
<1>3. SumFunctionOnSet(g, K) = SumFunctionOnSet(f, S)
  BY <1>1, <1>2, SumByGroupInt
<1>. QED BY <1>3 DEF f, TotalOf

(* A slot's bars hold its turns.                                           *)
LEMMA BarsAddUp ==
  ASSUME NEW c, NEW S, IsFiniteSet(S), \A e \in S : Filled(e)
  PROVE  BarsOf(c, S) = TotalOf(S)
<1>. DEFINE k == [e \in S |-> e.session]
            K == {e.session : e \in S}
            b == SlotBars(c, S).bars
            g == [s \in K |-> b[s].fresh + b[s].cw + b[s].cr + b[s].output]
<1>1. b = [s \in K |-> Classes({e \in S : e.session = s})]
  BY DEF SlotBars
<1>2. \A s : {e \in S : e.session = s} = Fibre(S, k, s)
  BY DEF Fibre
<1>3. K = {k[e] : e \in S} /\ \A e \in S : k[e] \in K
  OBVIOUS
<1>4. DOMAIN b = K
  BY <1>1
<1>. HIDE DEF k, b, K
<1>5. IsFiniteSet(K)
  BY <1>3, ImageFinite
<1>6. ASSUME NEW s \in K PROVE g[s] = TotalOf(Fibre(S, k, s))
  <2>. DEFINE T == Fibre(S, k, s)
  <2>1. T \subseteq S
    BY DEF Fibre
  <2>2. b[s] = Classes(T)
    BY <1>1, <1>2
  <2>. HIDE DEF T
  <2>3. IsFiniteSet(T) /\ \A e \in T : Filled(e)
    BY <2>1, FS_Subset
  <2>4. b[s] = [fresh |-> InputOf(T), cw |-> WrittenOf(T), cr |-> ReadOf(T), output |-> OutputOf(T)]
    BY <2>2, ClassesAre
  <2>5. g[s] = InputOf(T) + WrittenOf(T) + ReadOf(T) + OutputOf(T)
    BY <2>4
  <2>. QED BY <2>3, <2>5, TotalsAddUp DEF T
<1>7. BarsOf(c, S) = SumFunctionOnSet(g, K)
  BY <1>4 DEF BarsOf, ClassTokens, SumOver, b
<1>. HIDE DEF g
<1>8. SumFunctionOnSet(g, K) = TotalOf(S)
  BY <1>3, <1>5, <1>6, TotalByGroup
<1>. QED BY <1>7, <1>8

(* The turns before the chart's right edge.                                *)
InChart(C, from) == {e \in C : e.at < from + ChartBack}

(* The chart's bars hold the turns before its right edge.                  *)
LEMMA ChartIs ==
  ASSUME NEW es, IsFiniteSet(es), \A x \in es : Filled(x), NEW t \in Nat, NEW c
  PROVE  LET chart == Chart(es, t, SlotLength)
             from == WindowStart(t, SlotLength)
         IN SlotsHold(c, chart) = TotalOf(InChart(Charted(es, from, t), from))
<1>. DEFINE chart == Chart(es, t, SlotLength)
            from == WindowStart(t, SlotLength)
            w == SlotLength * Second
            C == Charted(es, from, t)
            n == ChartWindow \div SlotLength
            K == 0..(n - 1)
            S == InChart(C, from)
            Slot(e) == (e.at - from) \div w
            At(i) == {e \in C : Slot(e) = i}
<1>1. w \in Nat \ {0} /\ n \in Nat /\ ChartBack = n * w
  <2>1. SlotLength \in Nat \ {0} /\ ChartWindow \in Nat /\ ChartWindow % SlotLength = 0
    BY SlotAssumption, LiveAssumption
  <2>2. ChartWindow = SlotLength * n + (ChartWindow % SlotLength) /\ n \in Int
    BY <2>1
  <2>3. n \in Nat
    BY <2>1, SlotIs
  <2>. HIDE DEF n
  <2>4. ChartWindow = SlotLength * n
    BY <2>1, <2>2
  <2>5. \A a, b \in Nat : (a * b) * 2 = b * (a * 2)
    OBVIOUS
  <2>6. ChartBack = (SlotLength * n) * 2 /\ w = SlotLength * 2
    BY <2>4 DEF ChartBack, Second
  <2>7. w \in Nat \ {0}
    BY <2>1, <2>6
  <2>. HIDE DEF w
  <2>. QED BY <2>1, <2>3, <2>5, <2>6, <2>7
<1>2. chart = [i \in K |-> At(i)]
  BY DEF Chart
<1>3. C \subseteq es /\ \A e \in C : e.at >= from
  BY DEF Charted, Turns
<1>4. from \in Int
  BY EdgeIs
<1>. HIDE DEF chart, C, w, n, from
<1>5. IsFiniteSet(C) /\ (\A e \in C : Filled(e)) /\ \A e \in C : e.at \in Nat
  <2>1. IsFiniteSet(C) /\ \A e \in C : Filled(e)
    BY <1>3, FS_Subset
  <2>. QED BY <2>1 DEF Filled
<1>6. \A e \in C : Slot(e) \in K <=> e \in S
  <2>1. SUFFICES ASSUME NEW e \in C PROVE Slot(e) \in K <=> e.at < from + ChartBack
    BY DEF InChart
  <2>. DEFINE x == e.at - from
  <2>2. x \in Nat
    BY <1>3, <1>4, <1>5
  <2>3. x < n * w <=> e.at < from + ChartBack
    <3>1. n * w \in Int
      BY <1>1
    <3>. QED BY <1>1, <1>4, <1>5, <3>1
  <2>. HIDE DEF x
  <2>4. x \div w \in 0..(n - 1) <=> x < n * w
    BY <1>1, <2>2, SlotIs
  <2>. QED BY <2>3, <2>4 DEF x
<1>. DEFINE k == [e \in S |-> Slot(e)]
            g == [i \in K |-> BarsOf(c, At(i))]
<1>7. S \subseteq C
  BY DEF InChart
<1>8. \A i \in K : At(i) = Fibre(S, k, i)
  <2>. HIDE DEF S, K, Slot
  <2>. QED BY <1>6, <1>7 DEF Fibre
<1>9. IsFiniteSet(S) /\ (\A e \in S : Filled(e)) /\ \A e \in S : k[e] \in K
  <2>. HIDE DEF S, K, Slot
  <2>. QED BY <1>5, <1>6, <1>7, FS_Subset
<1>10. IsFiniteSet(K)
  BY <1>1, FS_Interval
<1>11. \A i \in K : g[i] = TotalOf(Fibre(S, k, i))
  <2>1. SUFFICES ASSUME NEW i \in K PROVE BarsOf(c, At(i)) = TotalOf(At(i))
    <3>. HIDE DEF K, At
    <3>. QED BY <1>8
  <2>. DEFINE T == At(i)
  <2>2. T \subseteq C
    OBVIOUS
  <2>. HIDE DEF T
  <2>3. IsFiniteSet(T) /\ \A e \in T : Filled(e)
    BY <1>5, <2>2, FS_Subset
  <2>4. BarsOf(c, T) = TotalOf(T)
    BY <2>3, BarsAddUp
  <2>. QED BY <2>4 DEF T
<1>12. SlotsHold(c, chart) = SumFunctionOnSet(g, K)
  <2>1. DOMAIN chart = K /\ \A i \in K : chart[i] = At(i)
    <3>. HIDE DEF At, K
    <3>. QED BY <1>2
  <2>. HIDE DEF At, K
  <2>2. [i \in DOMAIN chart |-> BarsOf(c, chart[i])] = g
    BY <2>1
  <2>. QED BY <2>1, <2>2 DEF SumOver, SlotsHold
<1>. HIDE DEF S, K, k, g
<1>13. SumFunctionOnSet(g, K) = TotalOf(S)
  BY <1>9, <1>10, <1>11, TotalByGroup
<1>. QED BY <1>12, <1>13 DEF chart, S, C, from

-----------------------------------------------------------------------------
(***************************************************************************)
(* The chart against the ticker: a line for every turn, and a turn for every *)
(* line.                                                                   *)
(***************************************************************************)
(* Events in order, each once.                                             *)
LEMMA OrderedOnce ==
  ASSUME NEW T, IsFiniteSet(T), \A x \in T : Filled(x), \A x, y \in T : x.row = y.row => x = y
  PROVE  /\ Cardinality(T) \in Nat /\ InOrder(T) \in [1..Cardinality(T) -> T]
         /\ \A x \in T : \E i \in 1..Cardinality(T) : InOrder(T)[i] = x
         /\ \A i, j \in 1..Cardinality(T) : InOrder(T)[i] = InOrder(T)[j] => i = j
<1>. DEFINE n == Cardinality(T)
            ts == InOrder(T)
<1>1. \A x \in T : x.at \in Int /\ x.row \in Int
  BY DEF Filled
<1>2. n \in Nat /\ ts \in [1..n -> T] /\ \A x \in T : \E i \in 1..n : ts[i] = x
  BY <1>1, EventOrder, FS_CardinalityType
<1>. HIDE DEF ts
<1>3. ts \in Surjection(1..n, T)
  BY <1>2 DEF Surjection
<1>4. IsFiniteSet(1..n) /\ Cardinality(1..n) = n
  BY <1>2, FS_Interval
<1>5. ts \in Injection(1..n, T)
  BY <1>3, <1>4, FS_SurjSameCardinalityImpliesInj
<1>6. \A i, j \in 1..n : ts[i] = ts[j] => i = j
  BY <1>2, <1>5 DEF Injection, IsInjective
<1>. QED BY <1>2, <1>6 DEF ts

(* A session's turns, each once.                                           *)
LEMMA TurnsOnce ==
  ASSUME NEW es, IsFiniteSet(es), \A x \in es : Filled(x),
         \A x, y \in es : x.row = y.row => x = y, NEW k
  PROVE  LET A == TurnSet(es, k)
             ts == TurnsOf(es, k)
         IN /\ \A i \in DOMAIN ts : ts[i] \in A
            /\ \A x \in A : \E i \in DOMAIN ts : ts[i] = x
            /\ \A i, j \in DOMAIN ts : ts[i] = ts[j] => i = j
<1>. DEFINE A == TurnSet(es, k)
            ts == TurnsOf(es, k)
<1>1. IsFiniteSet(A) /\ ts = InOrder(A) /\ DOMAIN ts = 1..Cardinality(A)
  BY TurnsAre
<1>2. A \subseteq es
  BY DEF TurnSet, Turns
<1>. HIDE DEF A, ts
<1>3. (\A x \in A : Filled(x)) /\ \A x, y \in A : x.row = y.row => x = y
  BY <1>2
<1>4. /\ InOrder(A) \in [1..Cardinality(A) -> A]
      /\ \A x \in A : \E i \in 1..Cardinality(A) : InOrder(A)[i] = x
      /\ \A i, j \in 1..Cardinality(A) : InOrder(A)[i] = InOrder(A)[j] => i = j
  BY <1>1, <1>3, OrderedOnce
<1>. QED BY <1>1, <1>4 DEF A, ts

(* A line shows its turn's tokens.                                         *)
LEMMA LineCounts ==
  ASSUME NEW e, Filled(e), NEW l, l.counts = Classes({e})
  PROVE  LineTokens(l) = TurnTotal(e)
<1>. DEFINE S == {e}
<1>1. IsFiniteSet(S) /\ \A x \in S : Filled(x)
  BY FS_Singleton
<1>2. l.counts = [fresh |-> InputOf(S), cw |-> WrittenOf(S), cr |-> ReadOf(S), output |-> OutputOf(S)]
  BY ClassesAre
<1>3. TotalOf(S) = TurnTotal(e)
  <2>. DEFINE f == [x \in S |-> TurnTotal(x)]
  <2>1. f[e] = TurnTotal(e) /\ f[e] \in Int
    BY FilledCounts
  <2>. HIDE DEF f
  <2>2. SumFunctionOnSet(f, S) = f[e]
    BY <2>1, SumOfOne
  <2>. QED BY <2>1, <2>2 DEF TotalOf, f
<1>. HIDE DEF S
<1>4. LineTokens(l) = InputOf(S) + WrittenOf(S) + ReadOf(S) + OutputOf(S)
  BY <1>2 DEF LineTokens
<1>. QED BY <1>1, <1>3, <1>4, TotalsAddUp

(* The turns of an earlier second than t's.                                *)
Earlier(C, t) == {e \in C : AsSecond(e.at) < AsSecond(t)}

(* The ticker's lines before a second are the turns before it.             *)
LEMMA LinesAddUp ==
  ASSUME NEW es, IsFiniteSet(es), \A x \in es : Filled(x),
         \A x, y \in es : x.row = y.row => x = y, NEW c, NEW from, NEW t
  PROVE  LET ticker == BuildTurns(es, c, from, t, 0)
         IN TokensBefore(ticker, t) = TotalOf(Earlier(Charted(es, from, t), t))
<1>. DEFINE ticker == BuildTurns(es, c, from, t, 0)
            C == Charted(es, from, t)
            lines == TickerLines(C, c)
            n == Cardinality(lines)
            inside == {i \in DOMAIN ticker : ticker[i].at < AsSecond(t)}
            Old == Earlier(C, t)
            Turn(l) == TurnsOf(C, l.key)[l.turn]
            h == [i \in inside |-> Turn(ticker[i])]
            f == [i \in inside |-> LineTokens(ticker[i])]
            g == [e \in Old |-> TurnTotal(e)]
<1>1. /\ IsFiniteSet(lines) /\ ticker \in [1..n -> lines]
      /\ \A l \in lines : \E i \in 1..n : ticker[i] = l
      /\ \A i, j \in 1..n : ticker[i] = ticker[j] => i = j
  BY TickerHas
<1>2. C \subseteq es /\ Turns(C) = C
  BY DEF Charted, Turns
<1>. HIDE DEF C, ticker
<1>3. IsFiniteSet(C) /\ (\A x \in C : Filled(x)) /\ \A x, y \in C : x.row = y.row => x = y
  BY <1>2, FS_Subset
<1>4. \A k : /\ \A i \in DOMAIN TurnsOf(C, k) : TurnsOf(C, k)[i] \in TurnSet(C, k)
             /\ \A x \in TurnSet(C, k) : \E i \in DOMAIN TurnsOf(C, k) : TurnsOf(C, k)[i] = x
             /\ \A i, j \in DOMAIN TurnsOf(C, k) : TurnsOf(C, k)[i] = TurnsOf(C, k)[j] => i = j
  BY <1>3, TurnsOnce
<1>5. \A k : TurnSet(C, k) = {e \in C : KeyOf(e) = k}
  BY <1>2 DEF TurnSet
<1>6. ASSUME NEW l \in lines
      PROVE  /\ l.turn \in DOMAIN TurnsOf(C, l.key) /\ Turn(l) \in C /\ KeyOf(Turn(l)) = l.key
             /\ l = TickerLine(c, TurnsOf(C, l.key), l.turn)
             /\ l.at = AsSecond(Turn(l).at) /\ l.counts = Classes({Turn(l)})
  <2>1. PICK k \in {KeyOf(e) : e \in C} : \E i \in DOMAIN TurnsOf(C, k) : l = TickerLine(c, TurnsOf(C, k), i)
    BY DEF TickerLines
  <2>. DEFINE ts == TurnsOf(C, k)
  <2>2. PICK i \in DOMAIN ts : l = TickerLine(c, ts, i)
    BY <2>1
  <2>3. ts[i] \in C /\ KeyOf(ts[i]) = k
    <3>1. ts[i] \in TurnSet(C, k)
      BY <1>4, <2>2
    <3>. HIDE DEF ts
    <3>. QED BY <1>5, <3>1
  <2>. HIDE DEF ts
  <2>4. l.key = KeyOf(ts[i]) /\ l.turn = i /\ l.at = AsSecond(ts[i].at) /\ l.counts = Classes({ts[i]})
    BY <2>2 DEF TickerLine
  <2>5. l.key = k /\ TurnsOf(C, l.key) = ts /\ Turn(l) = ts[i]
    BY <2>3, <2>4 DEF ts
  <2>. QED BY <2>2, <2>3, <2>4, <2>5
<1>7. DOMAIN ticker = 1..n /\ IsFiniteSet(1..n)
  BY <1>1, FS_CardinalityType, FS_Interval
<1>. HIDE DEF lines, n
<1>8. IsFiniteSet(inside) /\ inside \subseteq 1..n
  <2>1. inside \subseteq 1..n
    BY <1>7
  <2>. HIDE DEF inside
  <2>. QED BY <1>7, <2>1, FS_Subset
<1>9. Old \subseteq C
  BY DEF Earlier
<1>10. IsFiniteSet(Old) /\ \A e \in Old : Filled(e)
  <2>. HIDE DEF Old
  <2>. QED BY <1>3, <1>9, FS_Subset
<1>11. \A i \in inside : /\ ticker[i] \in lines /\ ticker[i].at < AsSecond(t) /\ h[i] = Turn(ticker[i])
  BY <1>1, <1>7
<1>. HIDE DEF Turn
<1>12. ASSUME NEW i \in inside PROVE h[i] \in Old /\ g[h[i]] = f[i] /\ f[i] \in Int
  <2>. DEFINE l == ticker[i]
              e == h[i]
  <2>1. l \in lines /\ l.at < AsSecond(t) /\ e = Turn(l)
    BY <1>11
  <2>. HIDE DEF l, e
  <2>2. e \in C /\ AsSecond(e.at) < AsSecond(t) /\ l.counts = Classes({e})
    BY <1>6, <2>1
  <2>3. e \in Old
    BY <2>2 DEF Earlier
  <2>4. Filled(e)
    BY <1>3, <2>2
  <2>5. LineTokens(l) = TurnTotal(e) /\ TurnTotal(e) \in Int
    BY <2>2, <2>4, LineCounts, FilledCounts
  <2>6. f[i] = LineTokens(l) /\ g[e] = TurnTotal(e)
    BY <2>3 DEF l
  <2>. HIDE DEF f, g, Old
  <2>. QED BY <2>3, <2>5, <2>6 DEF e
<1>13. ASSUME NEW i \in inside, NEW j \in inside, h[i] = h[j] PROVE i = j
  <2>. DEFINE l == ticker[i]
              m == ticker[j]
  <2>1. l \in lines /\ m \in lines /\ Turn(l) = Turn(m)
    BY <1>11, <1>13
  <2>2. l = m => i = j
    <3>. HIDE DEF inside
    <3>. QED BY <1>1, <1>8
  <2>. HIDE DEF l, m
  <2>3. /\ l.turn \in DOMAIN TurnsOf(C, l.key) /\ KeyOf(Turn(l)) = l.key
        /\ l = TickerLine(c, TurnsOf(C, l.key), l.turn)
        /\ m.turn \in DOMAIN TurnsOf(C, m.key) /\ KeyOf(Turn(m)) = m.key
        /\ m = TickerLine(c, TurnsOf(C, m.key), m.turn)
    BY <1>6, <2>1
  <2>4. l.key = m.key
    BY <2>1, <2>3
  <2>5. TurnsOf(C, l.key)[l.turn] = TurnsOf(C, l.key)[m.turn]
    BY <2>1, <2>4 DEF Turn
  <2>6. l.turn = m.turn
    BY <1>4, <2>3, <2>4, <2>5
  <2>. QED BY <2>2, <2>3, <2>4, <2>6
<1>14. ASSUME NEW e \in Old PROVE \E i \in inside : h[i] = e
  <2>1. e \in C /\ AsSecond(e.at) < AsSecond(t)
    BY DEF Earlier
  <2>. DEFINE k == KeyOf(e)
              ts == TurnsOf(C, k)
  <2>2. e \in TurnSet(C, k)
    BY <1>5, <2>1
  <2>. HIDE DEF k
  <2>3. PICK i \in DOMAIN ts : ts[i] = e
    BY <1>4, <2>2
  <2>. DEFINE l == TickerLine(c, ts, i)
  <2>4. l \in lines
    BY <2>1, <2>3 DEF lines, TickerLines, k
  <2>5. l.key = k /\ l.turn = i /\ l.at = AsSecond(e.at)
    <3>. HIDE DEF ts
    <3>. QED BY <2>3 DEF TickerLine, k
  <2>6. Turn(l) = e
    BY <2>3, <2>5 DEF Turn
  <2>. HIDE DEF l
  <2>7. PICK j \in 1..n : ticker[j] = l
    BY <1>1, <2>4
  <2>8. j \in inside
    BY <1>7, <2>1, <2>5, <2>7
  <2>9. h[j] = e
    BY <2>6, <2>7, <2>8
  <2>. QED BY <2>8, <2>9
<1>15. TokensBefore(ticker, t) = SumFunctionOnSet(f, inside)
  BY DEF SumOver, TokensBefore
<1>16. TotalOf(Old) = SumFunctionOnSet(g, Old)
  BY DEF TotalOf
<1>. HIDE DEF inside, Old, h, f, g
<1>17. SumFunctionOnSet(g, Old) = SumFunctionOnSet(f, inside)
  <2>1. \A i \in inside : f[i] \in Int
    BY <1>12
  <2>2. \A i \in inside : h[i] \in Old /\ g[h[i]] = f[i]
    BY <1>12
  <2>3. \A i, j \in inside : h[i] = h[j] => i = j
    BY <1>13
  <2>4. \A e \in Old : \E i \in inside : h[i] = e
    BY <1>14
  <2>5. IsFiniteSet(inside) /\ IsFiniteSet(Old)
    BY <1>8, <1>10
  <2>. QED BY <2>1, <2>2, <2>3, <2>4, <2>5, SumAlong
<1>. QED BY <1>15, <1>16, <1>17 DEF inside, ticker, Old, C

(* The total of two disjoint sets.                                         *)
LEMMA TotalOfBoth ==
  ASSUME NEW S, NEW T, IsFiniteSet(S), IsFiniteSet(T), S \cap T = {},
         \A e \in S \cup T : Filled(e)
  PROVE  TotalOf(S \cup T) = TotalOf(S) + TotalOf(T)
<1>. DEFINE U == S \cup T
            f == [e \in U |-> TurnTotal(e)]
            g == [e \in S |-> TurnTotal(e)]
            h == [e \in T |-> TurnTotal(e)]
<1>1. \A e \in S \cup T : f[e] \in Int
  BY FilledCounts
<1>2. (\A e \in S : f[e] = g[e]) /\ \A e \in T : f[e] = h[e]
  OBVIOUS
<1>3. TotalOf(S \cup T) = SumFunctionOnSet(f, S \cup T)
  BY DEF TotalOf
<1>. HIDE DEF f, g, h
<1>4. SumFunctionOnSet(f, S \cup T) = SumFunctionOnSet(f, S) + SumFunctionOnSet(f, T)
  BY <1>1, SumOfBothInt
<1>5. SumFunctionOnSet(f, S) = SumFunctionOnSet(g, S) /\ SumFunctionOnSet(f, T) = SumFunctionOnSet(h, T)
  BY <1>2, SumSame
<1>. QED BY <1>3, <1>4, <1>5 DEF TotalOf, g, h

(* The chart and the ticker.                                               *)
LEMMA ChartAdds == StoreInv => ChartAddsUp(LiveView)
<1>. SUFFICES ASSUME StoreInv PROVE ChartAddsUp(LiveView)
  OBVIOUS
<1>. DEFINE live == LiveView
            from == WindowStart(Now, SlotLength)
            C == Charted(Recent, from, Now)
            chart == Chart(Recent, Now, SlotLength)
            edge == {e \in C : AsSecond(e.at) = AsSecond(Now) /\ e.at < from + ChartBack}
            Bars == SumOver(DOMAIN live.chart, LAMBDA i : ClassTokens(live.chart[i].bars))
            ticker == BuildTurns(Recent, cfg, from, Now, 0)
<1>1. /\ IsFiniteSet(Recent) /\ (\A x \in Recent : Filled(x))
      /\ \A x, y \in Recent : x.row = y.row => x = y
  BY RecentIs
<1>2. Now \in Nat
  BY ClockIs DEF StoreInv
<1>3. from \in Int /\ Now <= from + ChartBack /\ ChartBack \in Nat
  BY <1>2, EdgeIs
<1>4. /\ live.chart = [i \in DOMAIN chart |-> SlotBars(cfg, chart[i])]
      /\ live.turns = BuildTurns(Recent, cfg, from, Now, TurnTickerCap)
  BY LiveIs
<1>5. Bars = TotalOf(InChart(C, from))
  <2>1. Bars = SlotsHold(cfg, chart)
    <3>1. DOMAIN live.chart = DOMAIN chart
      BY <1>4
    <3>. DEFINE F(i) == ClassTokens(live.chart[i].bars)
                D == DOMAIN chart
    <3>2. \A i \in D : F(i) = BarsOf(cfg, chart[i])
      <4>1. \A i \in D : live.chart[i] = SlotBars(cfg, chart[i])
        BY <1>4
      <4>. HIDE DEF chart, live, D
      <4>. QED BY <4>1 DEF BarsOf
    <3>3. Bars = SumFunctionOnSet([i \in D |-> F(i)], D)
      <4>. HIDE DEF chart, live
      <4>. QED BY <3>1 DEF SumOver
    <3>4. SlotsHold(cfg, chart) = SumFunctionOnSet([i \in D |-> BarsOf(cfg, chart[i])], D)
      <4>. HIDE DEF chart
      <4>. QED BY DEF SumOver, SlotsHold
    <3>5. [i \in D |-> F(i)] = [i \in D |-> BarsOf(cfg, chart[i])]
      <4>. HIDE DEF F, chart, D
      <4>. QED BY <3>2
    <3>. HIDE DEF F, Bars, chart
    <3>. QED BY <3>3, <3>4, <3>5
  <2>. HIDE DEF Bars, Recent
  <2>2. SlotsHold(cfg, chart) = TotalOf(InChart(C, from))
    BY <1>1, <1>2, ChartIs
  <2>. QED BY <2>1, <2>2
<1>6. ASSUME Len(live.turns) < TurnTickerCap PROVE live.turns = ticker
  <2>1. \E lines : ticker = Capped(lines, 0) /\ live.turns = Capped(lines, TurnTickerCap)
    <3>. HIDE DEF live, Recent, from
    <3>. QED BY <1>4 DEF BuildTurns
  <2>2. PICK lines : ticker = Capped(lines, 0) /\ live.turns = Capped(lines, TurnTickerCap)
    BY <2>1
  <2>3. ticker = lines
    BY <2>2 DEF Capped
  <2>4. Len(ticker) \in Nat /\ \E L, m : m \in Nat /\ ticker \in [1..m -> L]
    <3>1. LET L == TickerLines(Charted(Recent, from, Now), cfg)
          IN IsFiniteSet(L) /\ ticker \in [1..Cardinality(L) -> L]
      <4>. HIDE DEF Recent, from
      <4>. QED BY <1>1, TickerHas
    <3>. DEFINE L == TickerLines(Charted(Recent, from, Now), cfg)
                m == Cardinality(L)
    <3>2. m \in Nat /\ ticker \in [1..m -> L]
      BY <3>1, FS_CardinalityType
    <3>. HIDE DEF ticker, L, m
    <3>. QED BY <3>2
  <2>5. ASSUME Len(ticker) > TurnTickerCap PROVE FALSE
    <3>1. live.turns = SubSeq(ticker, 1, TurnTickerCap)
      <4>. HIDE DEF ticker, live
      <4>. QED BY <2>2, <2>3, <2>5 DEF Capped, TurnTickerCap
    <3>2. Len(SubSeq(ticker, 1, TurnTickerCap)) = TurnTickerCap
      <4>. HIDE DEF ticker
      <4>1. PICK L, m : m \in Nat /\ ticker \in [1..m -> L]
        BY <2>4
      <4>2. ticker \in Seq(L) /\ Len(ticker) = m
        BY <4>1
      <4>. QED BY <4>1, <4>2, <2>5 DEF TurnTickerCap
    <3>. HIDE DEF live, ticker
    <3>. QED BY <1>6, <3>1, <3>2 DEF TurnTickerCap
  <2>6. Capped(ticker, TurnTickerCap) = ticker
    <3>. HIDE DEF ticker
    <3>. QED BY <2>4, <2>5 DEF Capped, TurnTickerCap
  <2>. HIDE DEF ticker, live
  <2>. QED BY <2>2, <2>3, <2>6
<1>7. C \subseteq Recent /\ \A e \in C : e.at <= Now
  BY DEF Charted, Turns
<1>8. InChart(C, from) = Earlier(C, Now) \cup edge /\ Earlier(C, Now) \cap edge = {}
  <2>. HIDE DEF C
  <2>1. \A e \in C : e.at \in Nat
    BY <1>1, <1>7 DEF Filled
  <2>2. \A e \in C : /\ AsSecond(e.at) <= AsSecond(Now) /\ AsSecond(e.at) \in Int
                     /\ AsSecond(e.at) < AsSecond(Now) => e.at < Now
    BY <1>2, <1>7, <2>1 DEF AsSecond
  <2>3. AsSecond(Now) \in Int
    BY <1>2 DEF AsSecond
  <2>. HIDE DEF from
  <2>4. \A e \in C : e.at < Now => e.at < from + ChartBack
    BY <1>2, <1>3, <2>1
  <2>. QED BY <2>2, <2>3, <2>4 DEF InChart, Earlier
<1>9. C = Charted(Recent, from, Now)
  OBVIOUS
<1>. HIDE DEF C
<1>10. /\ IsFiniteSet(C) /\ (\A e \in C : Filled(e)) /\ Earlier(C, Now) \subseteq C /\ edge \subseteq C
  BY <1>1, <1>7, FS_Subset DEF Earlier
<1>11. IsFiniteSet(Earlier(C, Now)) /\ IsFiniteSet(edge)
  <2>. HIDE DEF edge
  <2>. QED BY <1>10, FS_Subset
<1>12. TotalOf(InChart(C, from)) = TotalOf(Earlier(C, Now)) + TotalOf(edge)
  <2>. HIDE DEF edge
  <2>. QED BY <1>8, <1>10, <1>11, TotalOfBoth
<1>13. TotalOf(edge) = SumOver(edge, TurnTotal)
  BY DEF TotalOf, SumOver
<1>14. TokensBefore(ticker, Now) = TotalOf(Earlier(C, Now))
  <2>. HIDE DEF Recent, from
  <2>. QED BY <1>1, <1>9, LinesAddUp
<1>15. ASSUME Len(live.turns) < TurnTickerCap
       PROVE  Bars = TokensBefore(live.turns, Now) + SumOver(edge, TurnTotal)
  <2>1. live.turns = ticker
    BY <1>6, <1>15
  <2>. HIDE DEF live, ticker, Bars, edge
  <2>. QED BY <1>5, <1>12, <1>13, <1>14, <2>1
<1>. QED BY <1>15, <1>9 DEF ChartAddsUp

(* With the store sound, the Now page adds up.                             *)
LEMMA StoreAddsUp == StoreInv => LiveAddsUp
<1>1. StoreInv => SessionsAddUp(LiveView) /\ ChartAddsUp(LiveView) /\ PlacesStand(LiveView)
  BY SessionsAdd, ChartAdds, PlacesDo
<1>. QED BY <1>1 DEF LiveAddsUp, AddsUp

(* LiveAddsUp: a running session's figures are those of its session page,  *)
(* the chart's bars hold the turns of the ticker that has them all, and a  *)
(* running session has its place in the tree (BuildSnapshot, SessionTotals, *)
(* BuildTurns).                                                            *)
THEOREM LiveFiguresAddUp == ViewsInit /\ [][ViewsNext]_viewVars => []LiveAddsUp
<1>. QED BY StoreIsSound, StoreAddsUp, PTL

-----------------------------------------------------------------------------
(***************************************************************************)
(* The names the rows carry: a tool's, or what the owner rules of some save *)
(* say of a project it names.                                              *)
(***************************************************************************)
(* Every stored row's owner and client is one of them.                     *)
NamesInv == \A e \in events : e.owner \in AllNames /\ e.client \in AllNames

(* What the rules in force say of a project is one of them.                *)
LEMMA NamesKnown ==
  ASSUME StoreInv, NEW p \in DOMAIN Remote
  PROVE  OwnerFor(cfg, Remote[p], p) \in AllNames /\ ClientFor(cfg, Remote[p], p) \in AllNames
<1>. DEFINE configs == UNION {Elems(d.configs) : d \in Desks}
<1>1. cfg \in configs
  <2>1. on \in Desks /\ rules \in DOMAIN on.configs
    BY DEF StoreInv, ClockTyped
  <2>. QED BY <2>1 DEF Elems, cfg
<1>. HIDE DEF configs
<1>2. AllNames = DOMAIN Remote \cup {None}
         \cup {OwnerFor(c, Remote[q], q) : c \in configs, q \in DOMAIN Remote}
         \cup {ClientFor(c, Remote[q], q) : c \in configs, q \in DOMAIN Remote}
  BY DEF AllNames, configs
<1>. QED BY <1>1, <1>2

(* What Stamped and Owned make of an event ...                             *)
Stamp(e, o, c) == [e EXCEPT !.owner = o, !.client = c]
OwnerStamp(e, o) == [e EXCEPT !.owner = o]

(* ... carries those names and its project.                                *)
LEMMA StampedNames ==
  ASSUME NEW e, NEW o, NEW c, NEW d, IsEvent(d),
         d = Stamp(e, o, c) \/ (d = OwnerStamp(e, o) /\ e.client = c)
  PROVE  d.owner = o /\ d.client = c /\ d.project = e.project
<1>1. "owner" \in DOMAIN d /\ "client" \in DOMAIN d /\ "project" \in DOMAIN d
  BY DEF IsEvent
<1>2. CASE d = OwnerStamp(e, o) /\ e.client = c
  BY <1>1, <1>2 DEF OwnerStamp
<1>3. CASE d = Stamp(e, o, c)
  <2>. DEFINE x == [e EXCEPT !.owner = o]
  <2>1. d = [x EXCEPT !.client = c]
    BY <1>3 DEF Stamp
  <2>2. DOMAIN d = DOMAIN x /\ DOMAIN x = DOMAIN e
    BY <2>1
  <2>3. x.owner = o /\ x.project = e.project
    BY <1>1, <2>2
  <2>. HIDE DEF x
  <2>. QED BY <1>1, <2>1, <2>2, <2>3
<1>. QED BY <1>2, <1>3

(* An upsert of stamped events keeps the names known ...                   *)
LEMMA NamesUpserted ==
  ASSUME StoreInv, StoreInv', NamesInv, NEW N,
         \/ events' = UpsertEvents(events, Stamped(N))
         \/ events' = UpsertEvents(events, Owned(N)) /\ (\A e \in N : e.client = None)
  PROVE  NamesInv'
<1>1. SUFFICES ASSUME NEW d \in events' PROVE d.owner \in AllNames /\ d.client \in AllNames
  BY DEF NamesInv
<1>2. IsEvent(d) /\ d.project \in DOMAIN Remote
  BY DEF StoreInv, StoreTyped, Filled
<1>3. CASE d \in events
  BY <1>3 DEF NamesInv
<1>4. ASSUME NEW e \in N, d = [e EXCEPT !.owner = Owner(e), !.client = Client(e)]
      PROVE  d.owner \in AllNames /\ d.client \in AllNames
  <2>1. d.owner = Owner(e) /\ d.client = Client(e) /\ d.project = e.project
    <3>. DEFINE o == Owner(e)
                c == Client(e)
    <3>1. d = Stamp(e, o, c)
      BY <1>4 DEF Stamp
    <3>. HIDE DEF o, c
    <3>2. d.owner = o /\ d.client = c /\ d.project = e.project
      BY <1>2, <3>1, StampedNames
    <3>. QED BY <3>2 DEF o, c
  <2>. QED BY <1>2, <2>1, NamesKnown DEF Owner, Client
<1>5. ASSUME NEW e \in N, d = [e EXCEPT !.owner = Owner(e)], e.client = None
      PROVE  d.owner \in AllNames /\ d.client \in AllNames
  <2>1. d.owner = Owner(e) /\ d.client = None /\ d.project = e.project
    <3>. DEFINE o == Owner(e)
                c == None
    <3>1. d = OwnerStamp(e, o) /\ e.client = c
      BY <1>5 DEF OwnerStamp
    <3>. HIDE DEF o, c
    <3>2. d.owner = o /\ d.client = c /\ d.project = e.project
      BY <1>2, <3>1, StampedNames
    <3>. QED BY <3>2 DEF o, c
  <2>. QED BY <1>2, <2>1, NamesKnown DEF Owner, AllNames
<1>6. \/ d \in events \/ (\E e \in N : d = [e EXCEPT !.owner = Owner(e), !.client = Client(e)])
      \/ \E e \in N : d = [e EXCEPT !.owner = Owner(e)] /\ e.client = None
  <2>1. \A new : d \in UpsertEvents(events, new) => d \in events \/ d \in new
    BY DEF UpsertEvents
  <2>. QED BY <2>1 DEF Stamped, Owned
<1>. QED BY <1>3, <1>4, <1>5, <1>6

(* ... as does burnmon-cli reown.                                          *)
LEMMA NamesReowned ==
  ASSUME StoreInv, StoreInv', NamesInv, Reown
  PROVE  NamesInv'
<1>1. SUFFICES ASSUME NEW d \in events' PROVE d.owner \in AllNames /\ d.client \in AllNames
  BY DEF NamesInv
<1>2. IsEvent(d)
  BY DEF StoreInv, StoreTyped, Filled
<1>3. PICK e \in events : d = [e EXCEPT !.owner = OwnerFor(cfg, Remote[e.project], e.project),
                                        !.client = ClientFor(cfg, Remote[e.project], e.project)]
  BY DEF Reown, ReownEvents
<1>4. e.project \in DOMAIN Remote
  BY DEF StoreInv, StoreTyped, Filled
<1>5. /\ d.owner = OwnerFor(cfg, Remote[e.project], e.project)
      /\ d.client = ClientFor(cfg, Remote[e.project], e.project)
  <2>. DEFINE o == OwnerFor(cfg, Remote[e.project], e.project)
              c == ClientFor(cfg, Remote[e.project], e.project)
  <2>1. d = Stamp(e, o, c)
    BY <1>3 DEF Stamp
  <2>. HIDE DEF o, c
  <2>2. d.owner = o /\ d.client = c
    BY <1>2, <2>1, StampedNames
  <2>. QED BY <2>2 DEF o, c
<1>. QED BY <1>4, <1>5, NamesKnown

(* The pollers leave the client open.                                      *)
LEMMA PolledOpen ==
  ASSUME NEW file, NEW s, NEW t, NEW usage
  PROVE  /\ \A e \in HermesEvents(file, s, t) : e.client = None
         /\ \A e \in CopilotCLIEvents(file, usage) : e.client = None
<1>1. \A e \in HermesEvents(file, s, t) : e.client = None
  BY DEF HermesEvents, NewEvent
<1>2. \A e \in CopilotCLIEvents(file, usage) : e.client = None
  BY DEF CopilotCLIEvents, NewEvent
<1>. QED BY <1>1, <1>2

(* So does every step.                                                     *)
LEMMA NamesStep == StoreInv /\ NamesInv /\ [ViewsNext]_viewVars => NamesInv'
<1>. SUFFICES ASSUME StoreInv, NamesInv, [ViewsNext]_viewVars PROVE NamesInv'
  OBVIOUS
<1>0. StoreInv'
  BY StoreStep
<1>1. ASSUME NEW f, NEW from, NEW n, Take(f, from, n) PROVE NamesInv'
  <2>1. events' = UpsertEvents(events, Stamped(ParseEvents(f, Text(f, n), from)))
    BY <1>1 DEF Take
  <2>. QED BY <1>0, <2>1, NamesUpserted
<1>2. ASSUME NEW f, PollVSCode(f) PROVE NamesInv'
  <2>1. events' = UpsertEvents(events, Stamped(TailEvents(File[f], tail, Text(f, Written(f)), Now)))
    BY <1>2 DEF PollVSCode
  <2>. QED BY <1>0, <2>1, NamesUpserted
<1>3. ASSUME NEW f, PollHermes(f) PROVE NamesInv'
  <2>1. events' = UpsertEvents(events, Owned(HermesEvents(File[f], HermesAt[clock], Now)))
    BY <1>3 DEF PollHermes
  <2>. QED BY <1>0, <2>1, PolledOpen, NamesUpserted
<1>4. ASSUME NEW f, PollCopilotCLI(f) PROVE NamesInv'
  <2>1. events' = UpsertEvents(events, Owned(CopilotCLIEvents(File[f], Text(f, Written(f)))))
    BY <1>4 DEF PollCopilotCLI
  <2>. QED BY <1>0, <2>1, PolledOpen, NamesUpserted
<1>5. ASSUME UNCHANGED events PROVE NamesInv'
  BY <1>5 DEF NamesInv
<1>6. CASE Reown
  BY <1>0, <1>6, NamesReowned
<1>7. \/ \E f, from, n : Take(f, from, n)
      \/ \E f : PollVSCode(f) \/ PollHermes(f) \/ PollCopilotCLI(f)
      \/ Reown \/ UNCHANGED events
  BY DEF ViewsNext, viewVars, Read, ReadAgain, RestartTail, TimePasses, SaveRules
<1>. QED BY <1>1, <1>2, <1>3, <1>4, <1>5, <1>6, <1>7

-----------------------------------------------------------------------------
(***************************************************************************)
(* The local days, by time and in the order of text.                       *)
(***************************************************************************)
(* The order of text against that of time: only the instant inside a       *)
(* second is out of place.                                                 *)
LEMMA TextIsTime ==
  ASSUME NEW t \in Int, NEW m \in Int
  PROVE  TextGE(t, 2 * m) <=> t >= 2 * m /\ t # 2 * m + 1
<1>. DEFINE q == t \div 2
            r == t % 2
            s == 2 * m
<1>1. t = 2 * q + r /\ q \in Int /\ r \in {0, 1}
  OBVIOUS
<1>2. s \div 2 = m /\ s % 2 = 0
  OBVIOUS
<1>3. AsText(t) = 2 * q + 1 - r
  BY DEF AsText
<1>4. AsText(s) = 2 * m + 1
  <2>1. AsText(s) = 2 * (s \div 2) + 1 - (s % 2)
    BY DEF AsText
  <2>. HIDE DEF s
  <2>. QED BY <1>2, <2>1
<1>. HIDE DEF q, r
<1>5. TextGE(t, s) <=> 2 * q + 1 - r >= 2 * m + 1
  <2>. HIDE DEF s
  <2>. QED BY <1>3, <1>4 DEF TextGE
<1>. QED BY <1>1, <1>5

(* A number has one quotient.                                              *)
LEMMA QuotientIs ==
  ASSUME NEW x \in Int, NEW w \in Nat \ {0}, NEW d \in Int
  PROVE  /\ x \div w \in Int
         /\ x \div w = d <=> d * w <= x /\ x < d * w + w
<1>. DEFINE q == x \div w
            r == x % w
<1>1. x = w * q + r /\ q \in Int /\ r \in Int /\ 0 <= r /\ r < w
  OBVIOUS
<1>. HIDE DEF q, r
<1>2. \A a, b \in Int : /\ a <= b => w * a <= w * b
                        /\ w * a = a * w /\ w * a \in Int /\ w * (a + 1) = w * a + w
  OBVIOUS
<1>3. ASSUME q <= d - 1 PROVE ~(d * w <= x)
  <2>1. w * (q + 1) <= w * d /\ w * (q + 1) = w * q + w /\ w * d = d * w /\ w * q \in Int /\ w * d \in Int
    BY <1>1, <1>2, <1>3
  <2>. QED BY <1>1, <2>1
<1>4. ASSUME d + 1 <= q PROVE ~(x < d * w + w)
  <2>1. w * (d + 1) <= w * q /\ w * (d + 1) = w * d + w /\ w * d = d * w /\ w * q \in Int /\ w * d \in Int
    BY <1>1, <1>2, <1>4
  <2>. QED BY <1>1, <2>1
<1>5. ASSUME q = d PROVE d * w <= x /\ x < d * w + w
  <2>1. x = w * d + r /\ w * d = d * w /\ w * d \in Int
    BY <1>1, <1>2, <1>5
  <2>. QED BY <1>1, <2>1
<1>6. q <= d - 1 \/ d + 1 <= q \/ q = d
  BY <1>1
<1>7. q = d <=> d * w <= x /\ x < d * w + w
  BY <1>3, <1>4, <1>5, <1>6
<1>. QED BY <1>1, <1>7 DEF q

(* A local day starts on a whole second and is DayLen seconds long.        *)
LEMMA DayStarts ==
  ASSUME NEW d \in Int
  PROVE  /\ DayLen \in Nat \ {0} /\ d * DayLen \in Int /\ Zone \in Int
         /\ StartOfDay(d) = 2 * (d * DayLen - Zone)
         /\ StartOfDay(d + 1) = 2 * (d * DayLen + DayLen - Zone)
<1>1. DayLen \in Nat \ {0}
  BY SMT DEF DayLen
<1>2. (d + 1) * DayLen = d * DayLen + DayLen /\ d * DayLen \in Int
  BY <1>1
<1>3. Zone \in Int
  BY EventsAssumption
<1>. QED BY <1>1, <1>2, <1>3 DEF StartOfDay, Second

(* The instants of a local day.                                            *)
LEMMA DayIs ==
  ASSUME NEW t \in Nat, NEW d \in Int
  PROVE  /\ LocalDay(t) \in Int
         /\ LocalDay(t) = d <=> StartOfDay(d) <= t /\ t < StartOfDay(d + 1)
<1>. DEFINE q == t \div 2
            x == q + Zone
            p == d * DayLen
<1>1. t = 2 * q + (t % 2) /\ q \in Int /\ t % 2 \in {0, 1}
  OBVIOUS
<1>2. /\ DayLen \in Nat \ {0} /\ p \in Int /\ Zone \in Int
      /\ StartOfDay(d) = 2 * (p - Zone)
      /\ StartOfDay(d + 1) = 2 * (p + DayLen - Zone)
  BY DayStarts
<1>. HIDE DEF q
<1>3. LocalDay(t) = x \div DayLen
  BY DEF LocalDay, AsSecond, q
<1>4. x \in Int
  BY <1>1, <1>2
<1>. HIDE DEF x
<1>5. x \div DayLen \in Int /\ (x \div DayLen = d <=> p <= x /\ x < p + DayLen)
  BY <1>2, <1>4, QuotientIs
<1>. HIDE DEF p
<1>6. /\ p <= x <=> StartOfDay(d) <= t
      /\ x < p + DayLen <=> t < StartOfDay(d + 1)
  BY <1>1, <1>2 DEF x
<1>. QED BY <1>3, <1>5, <1>6

(* A local day's turns, those of a bundle, and those LostAt counts.        *)
DayTurns(d) == {e \in Turns(events) : LocalDay(e.at) = d}
BundleTurns(since, until) ==
  {e \in Turns(EventsSince(events, since)) : since <= e.at /\ e.at < until}
LostTurns(t) == {e \in Turns(events) : e.at > t /\ ~TextGE(e.at, t)}

(* What StoreInv says of any of the store's events.                        *)
LEMMA PartOfStore ==
  ASSUME StoreInv, NEW T, T \subseteq events
  PROVE  /\ IsFiniteSet(T) /\ (\A e \in T : Filled(e)) /\ (\A e \in T : e.at \in Nat /\ e.at # 1)
         /\ \A x, y \in T : x.row = y.row => x = y
<1>1. IsFiniteSet(T)
  BY RecentIs, FS_Subset
<1>2. (\A e \in T : Filled(e)) /\ \A x, y \in T : x.row = y.row => x = y
  BY RecentIs
<1>. QED BY <1>1, <1>2 DEF Filled

(* The export of a day and the turns that text puts before it.             *)
LEMMA DaySplits ==
  ASSUME StoreInv, NEW d \in Int
  PROVE  TotalOf(DayTurns(d))
           = TotalOf(BundleTurns(StartOfDay(d), StartOfDay(d + 1))) + LostAt(StartOfDay(d))
<1>. DEFINE s == StartOfDay(d)
            u == StartOfDay(d + 1)
            A == DayTurns(d)
            B == BundleTurns(s, u)
            L == LostTurns(s)
            m == d * DayLen - Zone
<1>1. /\ s = 2 * m /\ m \in Int /\ s + 2 <= u /\ s \in Int /\ u \in Int
  <2>. DEFINE p == d * DayLen
  <2>1. /\ DayLen \in Nat \ {0} /\ p \in Int /\ Zone \in Int /\ s = 2 * (p - Zone)
        /\ u = 2 * (p + DayLen - Zone)
    BY DayStarts
  <2>2. m = p - Zone
    OBVIOUS
  <2>. HIDE DEF m, p, s, u
  <2>. QED BY <2>1, <2>2
<1>2. Turns(events) \subseteq events /\ Turns(EventsSince(events, s)) = {e \in Turns(events) : TextGE(e.at, s)}
  BY DEF Turns, EventsSince
<1>3. /\ IsFiniteSet(Turns(events)) /\ (\A e \in Turns(events) : Filled(e))
      /\ \A e \in Turns(events) : e.at \in Nat /\ e.at # 1
  BY <1>2, PartOfStore
<1>4. \A e \in Turns(events) : /\ TextGE(e.at, s) <=> e.at >= s /\ e.at # s + 1
                               /\ LocalDay(e.at) = d <=> s <= e.at /\ e.at < u
  <2>. SUFFICES ASSUME NEW e \in Turns(events)
                PROVE  /\ TextGE(e.at, s) <=> e.at >= s /\ e.at # s + 1
                       /\ LocalDay(e.at) = d <=> s <= e.at /\ e.at < u
    OBVIOUS
  <2>. DEFINE t == e.at
  <2>1. t \in Nat
    BY <1>3
  <2>. HIDE DEF t
  <2>2. LocalDay(t) = d <=> s <= t /\ t < u
    BY <2>1, DayIs
  <2>3. TextGE(t, 2 * m) <=> t >= 2 * m /\ t # 2 * m + 1
    <3>. HIDE DEF m
    <3>. QED BY <1>1, <2>1, TextIsTime
  <2>. HIDE DEF s, m
  <2>. QED BY <1>1, <2>2, <2>3 DEF t
<1>. HIDE DEF s, u, m
<1>5. /\ A \subseteq Turns(events) /\ B \subseteq Turns(events) /\ L \subseteq Turns(events)
  BY <1>2 DEF DayTurns, BundleTurns, LostTurns
<1>6. A = B \cup L /\ B \cap L = {}
  <2>1. \A e \in Turns(events) : e \in A <=> s <= e.at /\ e.at < u
    BY <1>4 DEF DayTurns
  <2>2. \A e \in Turns(events) : e \in B <=> e.at >= s /\ e.at # s + 1 /\ e.at < u
    BY <1>2, <1>3, <1>4, <1>1 DEF BundleTurns
  <2>3. \A e \in Turns(events) : e \in L <=> e.at = s + 1
    BY <1>3, <1>4, <1>1 DEF LostTurns
  <2>4. \A e \in Turns(events) : (e \in A <=> e \in B \/ e \in L) /\ ~(e \in B /\ e \in L)
    <3>. HIDE DEF A, B, L
    <3>. QED BY <1>1, <1>3, <2>1, <2>2, <2>3
  <2>. HIDE DEF A, B, L
  <2>. QED BY <1>5, <2>4
<1>. HIDE DEF A, B
<1>7. TotalOf(L) = LostAt(s)
  BY DEF TotalOf, LostAt, SumOver, LostTurns
<1>. HIDE DEF L
<1>8. IsFiniteSet(B) /\ IsFiniteSet(L)
  BY <1>3, <1>5, FS_Subset
<1>9. \A e \in B \cup L : Filled(e)
  BY <1>3, <1>5
<1>10. TotalOf(A) = TotalOf(B) + TotalOf(L)
  BY <1>6, <1>8, <1>9, TotalOfBoth
<1>. QED BY <1>7, <1>10 DEF s, u, A, B

(* The forecast's daily totals, of the whole store.                        *)
LEMMA DailyIs ==
  ASSUME StoreInv
  PROVE  /\ DOMAIN DailyTokenTotals(events, 0, 0) = {LocalDay(e.at) : e \in Turns(events)}
         /\ \A d \in DOMAIN DailyTokenTotals(events, 0, 0) :
              d \in Int /\ DailyTokenTotals(events, 0, 0)[d] = TotalOf(DayTurns(d))
<1>. DEFINE rows == {e \in Turns(events) : TextGE(e.at, 0) /\ (0 # 0 => AsText(e.at) < AsText(0))}
            days == {LocalDay(e.at) : e \in rows}
            daily == [d \in days |-> SumOver({e \in rows : LocalDay(e.at) = d}, TurnTotal)]
<1>1. DailyTokenTotals(events, 0, 0) = daily
  BY DEF DailyTokenTotals
<1>2. \A e \in Turns(events) : e.at \in Nat /\ e.at # 1
  <2>1. Turns(events) \subseteq events
    BY DEF Turns
  <2>. QED BY <2>1, PartOfStore
<1>3. \A e \in Turns(events) : TextGE(e.at, 0)
  <2>1. SUFFICES ASSUME NEW t \in Nat, t # 1 PROVE TextGE(t, 0)
    BY <1>2
  <2>. DEFINE m == 0
  <2>2. TextGE(t, 2 * m) <=> t >= 2 * m /\ t # 2 * m + 1
    <3>1. m \in Int
      OBVIOUS
    <3>. HIDE DEF m
    <3>. QED BY <3>1, TextIsTime
  <2>3. 2 * m = 0
    OBVIOUS
  <2>. HIDE DEF m
  <2>. QED BY <2>1, <2>2, <2>3
<1>4. rows = Turns(events)
  BY <1>3
<1>. HIDE DEF rows
<1>5. \A d \in days : daily[d] = TotalOf(DayTurns(d))
  BY <1>4 DEF DayTurns, TotalOf, SumOver
<1>6. \A d \in days : d \in Int
  <2>1. \A t \in Nat : LocalDay(t) \in Int
    BY DayIs
  <2>. QED BY <1>2, <1>4, <2>1
<1>7. DOMAIN daily = days
  OBVIOUS
<1>. HIDE DEF daily
<1>. QED BY <1>1, <1>4, <1>5, <1>6, <1>7

-----------------------------------------------------------------------------
(***************************************************************************)
(* The export's bundle: its turns, and its totals by model and by day.     *)
(***************************************************************************)
(* Rows whose classes are numbers.                                         *)
RowsCounted(ts) ==
  \A i \in DOMAIN ts : /\ ts[i].counts.fresh \in Int /\ ts[i].counts.cw \in Int
                       /\ ts[i].counts.cr \in Int /\ ts[i].counts.output \in Int
(* The tokens of the rows at idx.                                          *)
TokensAt(ts, idx) == SumFunctionOnSet([i \in idx |-> LineTokens(ts[i])], idx)

(* A RowSum's classes hold the rows' tokens.                               *)
LEMMA RowSumIs ==
  ASSUME NEW ts, RowsCounted(ts), NEW idx, idx \subseteq DOMAIN ts, IsFiniteSet(idx), NEW r,
         r = RowSum(ts, idx)
  PROVE  r.fresh + r.cw + r.cr + r.output = TokensAt(ts, idx)
<1>. DEFINE a == [i \in idx |-> ts[i].counts.fresh]
            b == [i \in idx |-> ts[i].counts.cw]
            c == [i \in idx |-> ts[i].counts.cr]
            d == [i \in idx |-> ts[i].counts.output]
            ab == [i \in idx |-> a[i] + b[i]]
            abc == [i \in idx |-> ab[i] + c[i]]
            all == [i \in idx |-> LineTokens(ts[i])]
<1>1. /\ r.fresh = SumFunctionOnSet(a, idx) /\ r.cw = SumFunctionOnSet(b, idx)
      /\ r.cr = SumFunctionOnSet(c, idx) /\ r.output = SumFunctionOnSet(d, idx)
  BY DEF RowSum, SumOver
<1>2. \A i \in idx : /\ a[i] \in Int /\ b[i] \in Int /\ c[i] \in Int /\ d[i] \in Int
                     /\ ab[i] = a[i] + b[i] /\ abc[i] = ab[i] + c[i]
  BY DEF RowsCounted
<1>3. \A i \in idx : all[i] = a[i] + b[i] + c[i] + d[i]
  BY DEF LineTokens
<1>. HIDE DEF a, b, c, d, ab, abc, all
<1>4. \A i \in idx : ab[i] \in Int /\ abc[i] \in Int /\ all[i] = abc[i] + d[i]
  BY <1>2, <1>3
<1>5. SumFunctionOnSet(ab, idx) = SumFunctionOnSet(a, idx) + SumFunctionOnSet(b, idx)
  BY <1>2, SumPlus
<1>6. SumFunctionOnSet(abc, idx) = SumFunctionOnSet(ab, idx) + SumFunctionOnSet(c, idx)
  BY <1>2, <1>4, SumPlus
<1>7. SumFunctionOnSet(all, idx) = SumFunctionOnSet(abc, idx) + SumFunctionOnSet(d, idx)
  BY <1>2, <1>4, SumPlus
<1>. QED BY <1>1, <1>5, <1>6, <1>7 DEF TokensAt, all

(* However rows are grouped, the groups' sums hold them all.               *)
LEMMA GroupsAddUp ==
  ASSUME NEW ts, RowsCounted(ts), IsFiniteSet(DOMAIN ts), NEW g, NEW sums,
         sums = [k \in {g[i] : i \in DOMAIN ts} |-> RowSum(ts, {i \in DOMAIN ts : g[i] = k})]
  PROVE  ClassTokens(sums) = TokensAt(ts, DOMAIN ts)
<1>. DEFINE D == DOMAIN ts
            K == {g[i] : i \in D}
            f == [i \in D |-> LineTokens(ts[i])]
            h == [k \in K |-> sums[k].fresh + sums[k].cw + sums[k].cr + sums[k].output]
<1>1. IsFiniteSet(K)
  <2>1. IsFiniteSet(D)
    OBVIOUS
  <2>. HIDE DEF D
  <2>. QED BY <2>1, ImageFinite
<1>2. \A i \in D : f[i] \in Int
  BY DEF RowsCounted, LineTokens
<1>3. ASSUME NEW k \in K PROVE h[k] = SumFunctionOnSet(f, Fibre(D, g, k))
  <2>. DEFINE idx == Fibre(D, g, k)
              e == [i \in idx |-> LineTokens(ts[i])]
  <2>1. idx \subseteq D /\ idx = {i \in D : g[i] = k}
    BY DEF Fibre
  <2>2. sums[k] = RowSum(ts, idx)
    BY <2>1
  <2>. HIDE DEF idx
  <2>3. IsFiniteSet(idx) /\ \A i \in idx : f[i] = e[i]
    BY <2>1, FS_Subset
  <2>. HIDE DEF f, e
  <2>4. SumFunctionOnSet(f, idx) = SumFunctionOnSet(e, idx)
    BY <2>3, SumSame
  <2>5. h[k] = TokensAt(ts, idx)
    <3>1. h[k] = sums[k].fresh + sums[k].cw + sums[k].cr + sums[k].output
      OBVIOUS
    <3>. HIDE DEF h
    <3>. QED BY <2>1, <2>2, <2>3, <3>1, RowSumIs
  <2>. QED BY <2>4, <2>5 DEF TokensAt, e, idx
<1>4. ClassTokens(sums) = SumFunctionOnSet(h, K)
  <2>1. DOMAIN sums = K
    OBVIOUS
  <2>. QED BY <2>1 DEF ClassTokens, SumOver
<1>5. \A i \in D : g[i] \in K
  OBVIOUS
<1>. HIDE DEF f, h, K
<1>6. SumFunctionOnSet(h, K) = SumFunctionOnSet(f, D)
  <2>. HIDE DEF D
  <2>1. (\A i \in D : f[i] \in Int) /\ (\A k \in K : h[k] = SumFunctionOnSet(f, Fibre(D, g, k)))
    BY <1>2, <1>3
  <2>2. IsFiniteSet(D)
    BY DEF D
  <2>. QED BY <1>1, <1>5, <2>1, <2>2, SumByGroupInt
<1>. QED BY <1>4, <1>6 DEF TokensAt, f

(* The rows of a bundle.                                                   *)
TurnRows(c, T) == [i \in DOMAIN InOrder(T) |-> TurnRow(c, InOrder(T)[i])]

LEMMA TurnRowsAre ==
  ASSUME NEW T, IsFiniteSet(T), \A x \in T : Filled(x), \A x, y \in T : x.row = y.row => x = y,
         NEW c
  PROVE  LET ts == TurnRows(c, T)
         IN /\ DOMAIN ts = 1..Cardinality(T) /\ IsFiniteSet(DOMAIN ts) /\ RowsCounted(ts)
            /\ \A i \in DOMAIN ts : \E e \in T : ts[i] = TurnRow(c, e)
            /\ \A e \in T : \E i \in DOMAIN ts : ts[i] = TurnRow(c, e)
            /\ TokensAt(ts, DOMAIN ts) = TotalOf(T)
<1>. DEFINE ts == TurnRows(c, T)
            of == InOrder(T)
            D == 1..Cardinality(T)
            f == [i \in D |-> LineTokens(ts[i])]
            g == [e \in T |-> TurnTotal(e)]
<1>1. /\ Cardinality(T) \in Nat /\ of \in [D -> T] /\ (\A x \in T : \E i \in D : of[i] = x)
      /\ \A i, j \in D : of[i] = of[j] => i = j
  BY OrderedOnce
<1>2. IsFiniteSet(D)
  BY <1>1, FS_Interval
<1>. HIDE DEF D
<1>3. DOMAIN ts = D /\ \A i \in D : of[i] \in T /\ ts[i] = TurnRow(c, of[i])
  <2>1. ts = [i \in DOMAIN of |-> TurnRow(c, of[i])]
    BY DEF TurnRows
  <2>. HIDE DEF ts, of
  <2>. QED BY <1>1, <2>1
<1>. HIDE DEF ts, of
<1>4. ASSUME NEW i \in D
      PROVE  /\ LineTokens(ts[i]) = TurnTotal(of[i]) /\ TurnTotal(of[i]) \in Int
             /\ ts[i].counts.fresh \in Int /\ ts[i].counts.cw \in Int
             /\ ts[i].counts.cr \in Int /\ ts[i].counts.output \in Int
  <2>. DEFINE e == of[i]
              l == ts[i]
              S == {e}
  <2>1. Filled(e) /\ l.counts = Classes({e})
    BY <1>3 DEF TurnRow
  <2>. HIDE DEF e, l
  <2>2. LineTokens(l) = TurnTotal(e) /\ TurnTotal(e) \in Int
    BY <2>1, LineCounts, FilledCounts
  <2>3. IsFiniteSet(S) /\ \A x \in S : Filled(x)
    BY <2>1, FS_Singleton
  <2>4. l.counts = [fresh |-> InputOf(S), cw |-> WrittenOf(S), cr |-> ReadOf(S), output |-> OutputOf(S)]
    BY <2>1, ClassesAre
  <2>. HIDE DEF S
  <2>5. InputOf(S) \in Nat /\ WrittenOf(S) \in Nat /\ ReadOf(S) \in Nat /\ OutputOf(S) \in Nat
    <3>1. 0 \in Int
      OBVIOUS
    <3>. QED BY <2>3, <3>1, ChargesAddUp
  <2>. QED BY <2>2, <2>4, <2>5 DEF e, l
<1>5. RowsCounted(ts)
  BY <1>3, <1>4 DEF RowsCounted
<1>6. \A i \in D : f[i] \in Int /\ of[i] \in T /\ g[of[i]] = f[i]
  BY <1>3, <1>4
<1>7. TokensAt(ts, DOMAIN ts) = SumFunctionOnSet(f, D) /\ TotalOf(T) = SumFunctionOnSet(g, T)
  BY <1>3 DEF TokensAt, TotalOf
<1>. HIDE DEF f, g
<1>8. SumFunctionOnSet(g, T) = SumFunctionOnSet(f, D)
  <2>1. (\A i \in D : f[i] \in Int) /\ (\A i \in D : of[i] \in T /\ g[of[i]] = f[i])
    BY <1>6
  <2>2. (\A i, j \in D : of[i] = of[j] => i = j) /\ \A e \in T : \E i \in D : of[i] = e
    BY <1>1
  <2>. QED BY <1>2, <2>1, <2>2, SumAlong
<1>9. \A e \in T : \E i \in D : ts[i] = TurnRow(c, e)
  BY <1>1, <1>3
<1>. QED BY <1>2, <1>3, <1>5, <1>7, <1>8, <1>9 DEF ts, D

(* A bundle's per-model and per-day totals hold its turns.                 *)
LEMMA TotalsHoldRows ==
  ASSUME NEW ts, RowsCounted(ts), IsFiniteSet(DOMAIN ts)
  PROVE  /\ ClassTokens(HarnessModelTotals(ts)) = TokensAt(ts, DOMAIN ts)
         /\ ClassTokens(DailyRows(ts)) = TokensAt(ts, DOMAIN ts)
<1>1. ClassTokens(HarnessModelTotals(ts)) = TokensAt(ts, DOMAIN ts)
  <2>. DEFINE g == [i \in DOMAIN ts |-> <<ts[i].agent, ts[i].model>>]
              sums == HarnessModelTotals(ts)
  <2>1. sums = [k \in {<<ts[i].agent, ts[i].model>> : i \in DOMAIN ts} |->
                  RowSum(ts, {i \in DOMAIN ts : <<ts[i].agent, ts[i].model>> = k})]
    BY DEF HarnessModelTotals, Grouped
  <2>2. sums = [k \in {g[i] : i \in DOMAIN ts} |-> RowSum(ts, {i \in DOMAIN ts : g[i] = k})]
    <3>1. \A i \in DOMAIN ts : g[i] = <<ts[i].agent, ts[i].model>>
      OBVIOUS
    <3>2. /\ {<<ts[i].agent, ts[i].model>> : i \in DOMAIN ts} = {g[i] : i \in DOMAIN ts}
          /\ \A k : {i \in DOMAIN ts : <<ts[i].agent, ts[i].model>> = k} = {i \in DOMAIN ts : g[i] = k}
      <4>. HIDE DEF g
      <4>. QED BY <3>1
    <3>. HIDE DEF g, sums
    <3>. QED BY <2>1, <3>2
  <2>. HIDE DEF g, sums
  <2>3. ClassTokens(sums) = TokensAt(ts, DOMAIN ts)
    BY <2>2, GroupsAddUp
  <2>. QED BY <2>3 DEF sums
<1>2. ClassTokens(DailyRows(ts)) = TokensAt(ts, DOMAIN ts)
  <2>. DEFINE g == [i \in DOMAIN ts |-> <<LocalDay(ts[i].at), ts[i].agent, ts[i].model>>]
              sums == DailyRows(ts)
  <2>1. sums = [k \in {<<LocalDay(ts[i].at), ts[i].agent, ts[i].model>> : i \in DOMAIN ts} |->
                  RowSum(ts, {i \in DOMAIN ts : <<LocalDay(ts[i].at), ts[i].agent, ts[i].model>> = k})]
    BY DEF DailyRows, Grouped
  <2>2. sums = [k \in {g[i] : i \in DOMAIN ts} |-> RowSum(ts, {i \in DOMAIN ts : g[i] = k})]
    <3>1. \A i \in DOMAIN ts : g[i] = <<LocalDay(ts[i].at), ts[i].agent, ts[i].model>>
      OBVIOUS
    <3>2. /\ {<<LocalDay(ts[i].at), ts[i].agent, ts[i].model>> : i \in DOMAIN ts} = {g[i] : i \in DOMAIN ts}
          /\ \A k : {i \in DOMAIN ts : <<LocalDay(ts[i].at), ts[i].agent, ts[i].model>> = k}
                       = {i \in DOMAIN ts : g[i] = k}
      <4>. HIDE DEF g
      <4>. QED BY <3>1
    <3>. HIDE DEF g, sums
    <3>. QED BY <2>1, <3>2
  <2>. HIDE DEF g, sums
  <2>3. ClassTokens(sums) = TokensAt(ts, DOMAIN ts)
    BY <2>2, GroupsAddUp
  <2>. QED BY <2>3 DEF sums
<1>. QED BY <1>1, <1>2

(* What Assemble puts together.                                            *)
LEMMA RowsAre ==
  ASSUME NEW since, NEW until
  PROVE  LET ts == TurnRows(cfg, BundleTurns(since, until))
             b == Rows(since, until)
         IN /\ b.until = until /\ b.turns = ts /\ b.totals = HarnessModelTotals(ts)
            /\ b.daily = DailyRows(ts) /\ b.top = TopTurns(ts, TopTurnsCount)
BY DEF Rows, Assemble, TurnRows, BundleTurns

(* The export of a day.                                                    *)
LEMMA DayExported ==
  ASSUME StoreInv, NEW d \in Int
  PROVE  HasDay(RowsOfDay(d), d, TotalOf(DayTurns(d)))
<1>. DEFINE s == StartOfDay(d)
            u == StartOfDay(d + 1)
            T == BundleTurns(s, u)
            ts == TurnRows(cfg, T)
            b == RowsOfDay(d)
<1>1. b = Rows(s, u)
  BY DEF RowsOfDay, ParseExportTime
<1>2. b.until = u /\ b.turns = ts /\ b.totals = HarnessModelTotals(ts) /\ b.daily = DailyRows(ts)
  <2>. HIDE DEF s, u, b
  <2>. QED BY <1>1, RowsAre
<1>. HIDE DEF b
<1>3. T \subseteq events /\ \A e \in T : s <= e.at /\ e.at < u
  BY DEF BundleTurns, Turns, EventsSince
<1>4. TotalOf(DayTurns(d)) = TotalOf(T) + LostAt(s)
  BY DaySplits
<1>. HIDE DEF T, s, u
<1>5. /\ IsFiniteSet(T) /\ (\A x \in T : Filled(x)) /\ (\A e \in T : e.at \in Nat)
      /\ \A x, y \in T : x.row = y.row => x = y
  BY <1>3, PartOfStore
<1>6. /\ IsFiniteSet(DOMAIN ts) /\ RowsCounted(ts)
      /\ TokensAt(ts, DOMAIN ts) = TotalOf(T)
      /\ \A i \in DOMAIN ts : \E e \in T : ts[i] = TurnRow(cfg, e)
  BY <1>5, TurnRowsAre
<1>. HIDE DEF ts
<1>7. ClassTokens(b.totals) = TotalOf(T) /\ ClassTokens(b.daily) = TotalOf(T)
  BY <1>2, <1>6, TotalsHoldRows
<1>8. \A i \in DOMAIN ts : LocalDay(ts[i].at) = d /\ ts[i].at < u
  <2>. SUFFICES ASSUME NEW i \in DOMAIN ts PROVE LocalDay(ts[i].at) = d /\ ts[i].at < u
    OBVIOUS
  <2>1. PICK e \in T : ts[i] = TurnRow(cfg, e)
    BY <1>6
  <2>2. ts[i].at = e.at
    BY <2>1 DEF TurnRow
  <2>. QED BY <1>3, <1>5, <2>2, DayIs DEF s, u
<1>9. ASSUME NEW k \in DOMAIN b.daily PROVE k[1] = d
  <2>1. DOMAIN b.daily = {<<LocalDay(ts[i].at), ts[i].agent, ts[i].model>> : i \in DOMAIN ts}
    BY <1>2 DEF DailyRows, Grouped
  <2>2. PICK i \in DOMAIN ts : k = <<LocalDay(ts[i].at), ts[i].agent, ts[i].model>>
    BY <1>9, <2>1
  <2>. QED BY <1>8, <2>2
<1>10. TotalOf(T) + LostAt(s) = TotalOf(DayTurns(d))
  BY <1>4
<1>. QED BY <1>2, <1>7, <1>8, <1>9, <1>10 DEF HasDay, b, s

-----------------------------------------------------------------------------
(***************************************************************************)
(* Redaction.                                                              *)
(***************************************************************************)
(* A row whose names the hash tells apart.                                 *)
KnownNames(t) == t.project \in AllNames /\ t.owner \in AllNames /\ t.client \in AllNames

(* A row with its names hidden.                                            *)
LEMMA RedactedIs ==
  ASSUME NEW t, {"project", "owner", "client"} \subseteq DOMAIN t
  PROVE  Names(RedactedRow(t)) = <<Hidden("project", t.project), Hidden("owner", t.owner),
                                   Hidden("client", t.client)>>
<1>. DEFINE a == [t EXCEPT !.project = Hidden("project", @)]
            b == [a EXCEPT !.owner = Hidden("owner", @)]
            c == [b EXCEPT !.client = Hidden("client", @)]
<1>1. RedactedRow(t) = c
  BY DEF RedactedRow
<1>2. DOMAIN a = DOMAIN t /\ a.project = Hidden("project", t.project)
      /\ a.owner = t.owner /\ a.client = t.client
  OBVIOUS
<1>3. DOMAIN b = DOMAIN a /\ b.project = a.project
      /\ b.owner = Hidden("owner", a.owner) /\ b.client = a.client
  <2>. HIDE DEF a
  <2>. QED BY <1>2
<1>4. c.project = b.project /\ c.owner = b.owner /\ c.client = Hidden("client", b.client)
  <2>. HIDE DEF a, b
  <2>. QED BY <1>2, <1>3
<1>. HIDE DEF a, b, c
<1>. QED BY <1>1, <1>2, <1>3, <1>4 DEF Names

(* Rows whose names are known keep telling them apart.                     *)
LEMMA RedactionKeeps ==
  ASSUME NEW s, NEW r, r = [i \in DOMAIN s |-> RedactedRow(s[i])],
         \A i \in DOMAIN s : {"project", "owner", "client"} \subseteq DOMAIN s[i] /\ KnownNames(s[i])
  PROVE  SameRows(s, r)
<1>1. DOMAIN r = DOMAIN s
  OBVIOUS
<1>2. ASSUME NEW i \in DOMAIN s
      PROVE  /\ KnownNames(s[i])
             /\ Names(s[i]) = <<s[i].project, s[i].owner, s[i].client>>
             /\ Names(r[i]) = <<Hidden("project", s[i].project), Hidden("owner", s[i].owner),
                                Hidden("client", s[i].client)>>
  <2>1. r[i] = RedactedRow(s[i])
    OBVIOUS
  <2>2. Names(RedactedRow(s[i])) = <<Hidden("project", s[i].project), Hidden("owner", s[i].owner),
                                     Hidden("client", s[i].client)>>
    BY RedactedIs
  <2>. QED BY <2>1, <2>2 DEF Names
<1>3. ASSUME NEW i \in DOMAIN s, NEW n \in 1..3, Names(s[i])[n] # None
      PROVE  Names(r[i])[n] # Names(s[i])[n]
  BY <1>2, <1>3, HiddenAssumption DEF KnownNames
<1>4. ASSUME NEW i \in DOMAIN s, NEW j \in DOMAIN s, NEW n \in 1..3
      PROVE  (Names(s[i])[n] = Names(s[j])[n]) <=> (Names(r[i])[n] = Names(r[j])[n])
  BY <1>2, HiddenAssumption DEF KnownNames
<1>. QED BY <1>1, <1>3, <1>4 DEF SameRows

(* The top rows are rows of the bundle.                                    *)
LEMMA TopIsRows ==
  ASSUME NEW ts, RowsCounted(ts), NEW m \in Nat, DOMAIN ts = 1..m, NEW n \in Nat
  PROVE  \A i \in DOMAIN TopTurns(ts, n) : \E j \in DOMAIN ts : TopTurns(ts, n)[i] = ts[j]
<1>. DEFINE D == DOMAIN ts
            Ahead(i, j) == \/ LineTokens(ts[i]) > LineTokens(ts[j])
                           \/ LineTokens(ts[i]) = LineTokens(ts[j]) /\ i < j
            R == {p \in D \X D : Ahead(p[1], p[2])}
            idx == Sorted(D, Ahead)
            c == Cardinality(D)
<1>1. TopTurns(ts, n) = [i \in 1..Min({n, Len(idx)}) |-> ts[idx[i]]]
  BY DEF TopTurns
<1>2. idx = SortedBy(D, R)
  BY DEF Sorted
<1>3. \A i \in D : LineTokens(ts[i]) \in Int /\ i \in Int
  BY DEF RowsCounted, LineTokens
<1>4. \A i, j \in D : <<i, j>> \in R <=> Ahead(i, j)
  <2>. HIDE DEF Ahead, D
  <2>. QED OBVIOUS
<1>5. IsFiniteSet(D) /\ c \in Nat
  <2>1. IsFiniteSet(1..m)
    BY FS_Interval
  <2>. QED BY <2>1, FS_CardinalityType
<1>6. Orders(R, D)
  <2>1. \A i, j, k \in D : /\ ~Ahead(i, i)
                           /\ i # j => Ahead(i, j) \/ Ahead(j, i)
                           /\ Ahead(i, j) /\ Ahead(j, k) => Ahead(i, k)
    <3>. HIDE DEF D
    <3>. QED BY <1>3
  <2>. HIDE DEF Ahead, R, D
  <2>. QED BY <1>4, <2>1 DEF Orders
<1>. HIDE DEF R, idx
<1>7. idx \in [1..c -> D]
  <2>. HIDE DEF D
  <2>. QED BY <1>2, <1>5, <1>6, SortedHas
<1>. HIDE DEF D, c
<1>8. Len(idx) = c
  <2>1. idx \in Seq(D)
    BY <1>5, <1>7
  <2>. QED BY <1>5, <1>7, <2>1
<1>9. Min({n, Len(idx)}) \in Nat /\ Min({n, Len(idx)}) <= c
  <2>. DEFINE S == {n, Len(idx)}
  <2>1. S \in SUBSET Nat /\ S # {} /\ c \in S
    BY <1>5, <1>8
  <2>. HIDE DEF S
  <2>2. Min(S) \in Nat /\ Min(S) <= c
    BY <2>1, MinIs
  <2>. QED BY <2>2 DEF S
<1>10. ASSUME NEW i \in 1..Min({n, Len(idx)}) PROVE idx[i] \in D
  <2>1. i \in 1..c
    BY <1>5, <1>9
  <2>. QED BY <1>7, <2>1
<1>. DEFINE w == Min({n, Len(idx)})
<1>. HIDE DEF w
<1>11. TopTurns(ts, n) = [i \in 1..w |-> ts[idx[i]]] /\ \A i \in 1..w : idx[i] \in D
  BY <1>1, <1>10 DEF w
<1>. QED BY <1>11 DEF D

(* A redacted bundle has the same rows, every name replaced.               *)
LEMMA BundleRedacts ==
  ASSUME StoreInv, NamesInv, NEW since, NEW until
  PROVE  LET open == Rows(since, until) IN Redacts(open, Redact(open))
<1>. DEFINE open == Rows(since, until)
            closed == Redact(open)
            T == BundleTurns(since, until)
            ts == TurnRows(cfg, T)
            top == TopTurns(ts, TopTurnsCount)
<1>1. open.turns = ts /\ open.top = top /\ closed.totals = open.totals
      /\ closed.turns = [i \in DOMAIN ts |-> RedactedRow(ts[i])]
      /\ closed.top = [i \in DOMAIN top |-> RedactedRow(top[i])]
  BY DEF Rows, Assemble, TurnRows, BundleTurns, Redact
<1>. HIDE DEF open, closed
<1>2. T \subseteq events
  BY DEF BundleTurns, Turns, EventsSince
<1>. HIDE DEF T
<1>3. /\ IsFiniteSet(T) /\ (\A x \in T : Filled(x)) /\ \A x, y \in T : x.row = y.row => x = y
  BY <1>2, PartOfStore
<1>4. /\ DOMAIN ts = 1..Cardinality(T) /\ RowsCounted(ts)
      /\ \A i \in DOMAIN ts : \E e \in T : ts[i] = TurnRow(cfg, e)
  BY <1>3, TurnRowsAre
<1>. HIDE DEF ts, top
<1>5. ASSUME NEW i \in DOMAIN ts
      PROVE  {"project", "owner", "client"} \subseteq DOMAIN ts[i] /\ KnownNames(ts[i])
  <2>1. PICK e \in T : ts[i] = TurnRow(cfg, e)
    BY <1>4
  <2>2. e.project \in AllNames /\ e.owner \in AllNames /\ e.client \in AllNames
    <3>1. e.project \in DOMAIN Remote
      BY <1>3 DEF Filled
    <3>2. e.project \in AllNames
      BY <3>1 DEF AllNames
    <3>. QED BY <1>2, <3>2 DEF NamesInv
  <2>3. /\ ts[i].project = e.project /\ ts[i].owner = e.owner /\ ts[i].client = e.client
        /\ {"project", "owner", "client"} \subseteq DOMAIN ts[i]
    BY <2>1 DEF TurnRow
  <2>. QED BY <2>2, <2>3 DEF KnownNames
<1>6. \A i \in DOMAIN top : \E j \in DOMAIN ts : top[i] = ts[j]
  <2>1. Cardinality(T) \in Nat /\ TopTurnsCount \in Nat
    BY <1>3, FS_CardinalityType DEF TopTurnsCount
  <2>. QED BY <1>4, <2>1, TopIsRows DEF top
<1>7. SameRows(ts, closed.turns)
  BY <1>1, <1>5, RedactionKeeps
<1>8. SameRows(top, closed.top)
  <2>1. \A i \in DOMAIN top : {"project", "owner", "client"} \subseteq DOMAIN top[i] /\ KnownNames(top[i])
    BY <1>5, <1>6
  <2>. QED BY <1>1, <2>1, RedactionKeeps
<1>. QED BY <1>1, <1>7, <1>8 DEF Redacts, open, closed

(* With the store sound and its names known, the bundles agree.            *)
LEMMA StoreBundles == StoreInv /\ NamesInv => BundleAgrees
<1>. SUFFICES ASSUME StoreInv, NamesInv PROVE BundleAgrees
  OBVIOUS
<1>. DEFINE days == DailyTokenTotals(events, 0, 0)
<1>1. \A d \in DOMAIN days : HasDay(RowsOfDay(d), d, days[d])
  <2>1. \A d \in DOMAIN days : d \in Int /\ days[d] = TotalOf(DayTurns(d))
    BY DailyIs
  <2>. HIDE DEF days
  <2>. QED BY <2>1, DayExported
<1>2. Redacts(Rows(Window, Now), Redact(Rows(Window, Now)))
  BY BundleRedacts
<1>. QED BY <1>1, <1>2 DEF BundleAgrees

(* BundleAgrees: the export of a local day carries the forecast's total of *)
(* that day, but for the turn text puts before it, its totals by model and *)
(* by day hold its turns under that date, and redaction replaces every name *)
(* without confusing two (BuildExportBundle, Assemble, Redact).            *)
THEOREM BundlesAreWhole == ViewsInit /\ [][ViewsNext]_viewVars => []BundleAgrees
<1>1. ViewsInit => NamesInv
  BY DEF ViewsInit, NamesInv
<1>2. StoreInv /\ NamesInv /\ [ViewsNext]_viewVars => NamesInv'
  BY NamesStep
<1>. QED BY <1>1, <1>2, StoreIsSound, StoreBundles, PTL

=============================================================================
