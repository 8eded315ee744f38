-------------------------------- MODULE Sums --------------------------------
(***************************************************************************)
(* Sums over finite sets: SumFunction of the library, by elements.  The    *)
(* fold it is made of is a function on the subsets of its domain, so what  *)
(* it computes follows by induction on those subsets (SubsetInduction).    *)
(***************************************************************************)
EXTENDS Integers, Functions, FiniteSetTheorems, TLAPS

(* What holds of a set as soon as it holds of all its strict subsets holds of every finite set. *)
LEMMA SubsetInduction ==
  ASSUME NEW S, IsFiniteSet(S), NEW Good,
         \A T \in SUBSET S : (\A U \in SUBSET T : U # T => U \in Good) => T \in Good
  PROVE  \A T \in SUBSET S : T \in Good
<1> DEFINE Bad == (SUBSET S) \ Good
<1>1. IsWellFoundedOn(StrictSubsetOrdering(S), SUBSET S)
  BY FS_StrictSubsetOrderingWellFounded, FS_FiniteSubsetsOfFinite
<1>2. SUFFICES ASSUME Bad # {} PROVE FALSE
  OBVIOUS
<1>3. PICK T \in Bad : \A U \in Bad : <<U, T>> \notin StrictSubsetOrdering(S)
  <2>1. Bad \subseteq SUBSET S
    OBVIOUS
  <2> HIDE DEF Bad
  <2>2. QED BY <1>1, <1>2, <2>1, WFMin
<1>4. ASSUME NEW U \in SUBSET T, U # T PROVE U \in Good
  BY <1>3, <1>4 DEF StrictSubsetOrdering
<1>5. QED BY <1>3, <1>4

(* A table of the partial sums of f over the subsets of S, as the fold of the library computes it. *)
LOCAL Step(f, table, T) ==
  IF T = {} THEN 0 ELSE f[CHOOSE x \in T : TRUE] + table[T \ {CHOOSE x \in T : TRUE}]
LOCAL Adds(f, table, S) == table = [T \in SUBSET S |-> Step(f, table, T)]

LEMMA SumIsTable ==
  ASSUME NEW f, NEW S
  PROVE  SumFunctionOnSet(f, S) = (CHOOSE table : Adds(f, table, S))[S]
BY DEF SumFunctionOnSet, FoldFunctionOnSet, MapThenFoldSet, Adds, Step

(* Two tables agree wherever both are defined. *)
LEMMA TablesAgree ==
  ASSUME NEW f, NEW S, IsFiniteSet(S), NEW R, NEW s, NEW r, Adds(f, s, S), Adds(f, r, R), S \subseteq R
  PROVE  \A T \in SUBSET S : s[T] = r[T]
<1> DEFINE Same == {T \in SUBSET S : s[T] = r[T]}
<1>1. ASSUME NEW T \in SUBSET S, \A U \in SUBSET T : U # T => U \in Same
      PROVE  T \in Same
  <2>1. s[T] = Step(f, s, T) /\ r[T] = Step(f, r, T)
    BY DEF Adds
  <2>2. CASE T = {}
    BY <2>1, <2>2 DEF Step
  <2>3. CASE T # {}
    <3> DEFINE U == T \ {CHOOSE x \in T : TRUE}
    <3>1. (CHOOSE x \in T : TRUE) \in T
      BY <2>3
    <3>2. U \in SUBSET T /\ U # T
      BY <3>1
    <3>3. s[U] = r[U]
      BY <1>1, <3>2
    <3>4. QED BY <2>1, <2>3, <3>3 DEF Step
  <2>4. QED BY <2>2, <2>3
<1>2. \A T \in SUBSET S : T \in Same
  <2> HIDE DEF Same
  <2>1. QED BY <1>1, SubsetInduction
<1>3. QED BY <1>2

(* Every finite set has a table. *)
LEMMA TableExists ==
  ASSUME NEW f, NEW S, IsFiniteSet(S)
  PROVE  \E table : Adds(f, table, S)
<1> DEFINE Good == {T \in SUBSET S : \E table : Adds(f, table, T)}
           Table(T) == CHOOSE table : Adds(f, table, T)
           G == [T \in SUBSET S |-> Table(T)[T]]
<1>1. ASSUME NEW T \in SUBSET S, \A U \in SUBSET T : U # T => U \in Good
      PROVE  T \in Good
  <2> DEFINE h == [U \in SUBSET T |-> IF U = T THEN Step(f, G, T) ELSE G[U]]
  <2>1. ASSUME NEW U \in SUBSET T PROVE h[U] = Step(f, h, U)
    <3> DEFINE V == U \ {CHOOSE x \in U : TRUE}
    <3>1. U # {} => V \in SUBSET U /\ V # U
      OBVIOUS
    <3>2. U # {} => h[V] = G[V]
      BY <3>1
    <3>3. CASE U = T
      BY <3>2, <3>3 DEF Step
    <3>4. CASE U # T
      <4>1. Adds(f, Table(U), U)
        BY <1>1, <3>4
      <4>2. h[U] = Step(f, Table(U), U)
        <5> HIDE DEF Table
        <5>1. Table(U)[U] = Step(f, Table(U), U)
          BY <4>1 DEF Adds
        <5>2. QED BY <3>4, <5>1
      <4>3. CASE U = {}
        BY <4>2, <4>3 DEF Step
      <4>4. CASE U # {}
        <5>1. Adds(f, Table(V), V)
          BY <1>1, <3>1, <4>4
        <5>2. IsFiniteSet(V)
          BY FS_Subset
        <5>3. Table(V)[V] = Table(U)[V]
          <6> HIDE DEF Table, V
          <6>1. QED BY <3>1, <4>1, <4>4, <5>1, <5>2, TablesAgree
        <5>4. h[V] = Table(U)[V]
          BY <3>1, <3>2, <4>4, <5>3
        <5> HIDE DEF Table, h
        <5>5. QED BY <4>2, <4>4, <5>4 DEF Step
      <4>5. QED BY <4>3, <4>4
    <3>5. QED BY <3>3, <3>4
  <2>2. Adds(f, h, T)
    <3>1. h = [U \in SUBSET T |-> h[U]]
      OBVIOUS
    <3> HIDE DEF h
    <3>2. QED BY <2>1, <3>1 DEF Adds
  <2>3. QED BY <2>2
<1>2. \A T \in SUBSET S : T \in Good
  <2> HIDE DEF Good
  <2>1. QED BY <1>1, SubsetInduction
<1>3. QED BY <1>2

LEMMA SumUnfolds ==
  ASSUME NEW f, NEW S, IsFiniteSet(S), S # {}
  PROVE  SumFunctionOnSet(f, S) =
           f[CHOOSE x \in S : TRUE] + SumFunctionOnSet(f, S \ {CHOOSE x \in S : TRUE})
<1> DEFINE U == S \ {CHOOSE x \in S : TRUE}
           Table(T) == CHOOSE table : Adds(f, table, T)
<1>1. IsFiniteSet(U) /\ U \subseteq S
  BY FS_Subset
<1>2. Adds(f, Table(S), S) /\ Adds(f, Table(U), U)
  BY <1>1, TableExists
<1>3. Table(U)[U] = Table(S)[U]
  <2> HIDE DEF Table, U
  <2>1. QED BY <1>1, <1>2, TablesAgree
<1>4. Table(S)[S] = Step(f, Table(S), S)
  <2> HIDE DEF Table
  <2>1. QED BY <1>2 DEF Adds
<1>5. SumFunctionOnSet(f, S) = Table(S)[S] /\ SumFunctionOnSet(f, U) = Table(U)[U]
  BY SumIsTable
<1> HIDE DEF Table
<1>6. QED BY <1>3, <1>4, <1>5 DEF Step

(* Nothing adds up to zero. *)
LEMMA SumEmpty == ASSUME NEW f PROVE SumFunctionOnSet(f, {}) = 0
<1> DEFINE Table == CHOOSE table : Adds(f, table, {})
<1>1. Adds(f, Table, {})
  BY TableExists, FS_EmptySet
<1>2. Table[{}] = Step(f, Table, {})
  <2> HIDE DEF Table
  <2>1. QED BY <1>1 DEF Adds
<1>3. SumFunctionOnSet(f, {}) = Table[{}]
  BY SumIsTable
<1> HIDE DEF Table
<1>4. QED BY <1>2, <1>3 DEF Step

(* Integers add up to an integer. *)
LEMMA SumInt ==
  ASSUME NEW f, NEW S, IsFiniteSet(S), \A x \in S : f[x] \in Int
  PROVE  SumFunctionOnSet(f, S) \in Int
<1> DEFINE Good == {T \in SUBSET S : SumFunctionOnSet(f, T) \in Int}
<1>1. ASSUME NEW T \in SUBSET S, \A U \in SUBSET T : U # T => U \in Good
      PROVE  T \in Good
  <2> DEFINE c == CHOOSE x \in T : TRUE
  <2>1. CASE T = {}
    BY <2>1, SumEmpty
  <2>2. CASE T # {}
    <3>1. c \in T /\ T \ {c} \in SUBSET T /\ T \ {c} # T
      BY <2>2
    <3>2. SumFunctionOnSet(f, T) = f[c] + SumFunctionOnSet(f, T \ {c})
      BY <2>2, FS_Subset, SumUnfolds
    <3>3. SumFunctionOnSet(f, T \ {c}) \in Int
      BY <1>1, <3>1
    <3> HIDE DEF c
    <3>4. QED BY <3>1, <3>2, <3>3
  <2>3. QED BY <2>1, <2>2
<1>2. \A T \in SUBSET S : T \in Good
  <2> HIDE DEF Good
  <2>1. QED BY <1>1, SubsetInduction
<1>3. QED BY <1>2

(* The order of the addition does not matter: any member can be taken out first. *)
LEMMA SumRemove ==
  ASSUME NEW f, NEW S, IsFiniteSet(S), \A x \in S : f[x] \in Int, NEW a \in S
  PROVE  SumFunctionOnSet(f, S) = f[a] + SumFunctionOnSet(f, S \ {a})
<1> DEFINE Takes(T) == \A b \in T : SumFunctionOnSet(f, T) = f[b] + SumFunctionOnSet(f, T \ {b})
           Good == {T \in SUBSET S : Takes(T)}
<1>1. ASSUME NEW T \in SUBSET S, \A U \in SUBSET T : U # T => U \in Good
      PROVE  T \in Good
  <2> SUFFICES ASSUME NEW b \in T
               PROVE SumFunctionOnSet(f, T) = f[b] + SumFunctionOnSet(f, T \ {b})
    OBVIOUS
  <2> DEFINE c == CHOOSE x \in T : TRUE
             V == T \ {b, c}
  <2>1. c \in T
    OBVIOUS
  <2>2. SumFunctionOnSet(f, T) = f[c] + SumFunctionOnSet(f, T \ {c})
    BY FS_Subset, SumUnfolds
  <2>3. CASE b = c
    BY <2>2, <2>3
  <2>4. CASE b # c
    <3>1. T \ {c} \in Good /\ T \ {b} \in Good
      <4> HIDE DEF Good, c
      <4>1. QED BY <1>1, <2>1
    <3>2. SumFunctionOnSet(f, T \ {c}) = f[b] + SumFunctionOnSet(f, (T \ {c}) \ {b})
      <4>1. Takes(T \ {c}) /\ b \in T \ {c}
        BY <2>4, <3>1
      <4> HIDE DEF c
      <4>2. QED BY <4>1
    <3>3. SumFunctionOnSet(f, T \ {b}) = f[c] + SumFunctionOnSet(f, (T \ {b}) \ {c})
      <4>1. Takes(T \ {b}) /\ c \in T \ {b}
        BY <2>1, <2>4, <3>1
      <4> HIDE DEF c
      <4>2. QED BY <4>1
    <3>4. (T \ {c}) \ {b} = V /\ (T \ {b}) \ {c} = V
      OBVIOUS
    <3>5. SumFunctionOnSet(f, V) \in Int
      BY FS_Subset, SumInt
    <3>6. f[b] \in Int /\ f[c] \in Int
      BY <2>1
    <3>7. SumFunctionOnSet(f, T \ {c}) = f[b] + SumFunctionOnSet(f, V)
      BY <3>2, <3>4
    <3>8. SumFunctionOnSet(f, T \ {b}) = f[c] + SumFunctionOnSet(f, V)
      BY <3>3, <3>4
    <3> HIDE DEF c, V
    <3>9. QED BY <2>2, <3>5, <3>6, <3>7, <3>8
  <2>5. QED BY <2>3, <2>4
<1>2. \A T \in SUBSET S : T \in Good
  <2> HIDE DEF Good
  <2>1. QED BY <1>1, SubsetInduction
<1>3. QED BY <1>2

-----------------------------------------------------------------------------
(* Induction over a finite set, one member at a time. *)
LEMMA OneByOne ==
  ASSUME NEW S, IsFiniteSet(S), NEW Good, {} \in Good,
         \A T \in SUBSET S, x \in S : x \in T /\ T \ {x} \in Good => T \in Good
  PROVE  S \in Good
<1>1. ASSUME NEW T \in SUBSET S, \A U \in SUBSET T : U # T => U \in Good
      PROVE  T \in Good
  <2>1. CASE T = {}
    BY <2>1
  <2>2. CASE T # {}
    <3>1. PICK x \in T : TRUE
      BY <2>2
    <3>2. T \ {x} \in Good
      BY <1>1
    <3>3. QED BY <3>1, <3>2
  <2>3. QED BY <2>1, <2>2
<1>2. QED BY <1>1, SubsetInduction

(* Two functions that agree on a set have the same sum over it. *)
LEMMA SumSame ==
  ASSUME NEW f, NEW g, NEW S, IsFiniteSet(S), \A x \in S : f[x] = g[x] /\ f[x] \in Int
  PROVE  SumFunctionOnSet(f, S) = SumFunctionOnSet(g, S)
<1> DEFINE Good == {T \in SUBSET S : SumFunctionOnSet(f, T) = SumFunctionOnSet(g, T)}
<1>1. {} \in Good
  BY SumEmpty
<1>2. ASSUME NEW T \in SUBSET S, NEW x \in S, x \in T, T \ {x} \in Good PROVE T \in Good
  <2>1. IsFiniteSet(T)
    BY FS_Subset
  <2>2. SumFunctionOnSet(f, T) = f[x] + SumFunctionOnSet(f, T \ {x})
    BY <1>2, <2>1, SumRemove
  <2>3. SumFunctionOnSet(g, T) = g[x] + SumFunctionOnSet(g, T \ {x})
    BY <1>2, <2>1, SumRemove
  <2>4. QED BY <1>2, <2>2, <2>3
<1>3. S \in Good
  <2> HIDE DEF Good
  <2>1. QED BY <1>1, <1>2, OneByOne
<1>4. QED BY <1>3

(* A larger function has a larger sum. *)
LEMMA SumMonotone ==
  ASSUME NEW f, NEW g, NEW S, IsFiniteSet(S),
         \A x \in S : f[x] \in Int /\ g[x] \in Int /\ f[x] <= g[x]
  PROVE  SumFunctionOnSet(f, S) <= SumFunctionOnSet(g, S)
<1> DEFINE Good == {T \in SUBSET S : SumFunctionOnSet(f, T) <= SumFunctionOnSet(g, T)}
<1>1. {} \in Good
  BY SumEmpty
<1>2. ASSUME NEW T \in SUBSET S, NEW x \in S, x \in T, T \ {x} \in Good PROVE T \in Good
  <2>1. IsFiniteSet(T) /\ IsFiniteSet(T \ {x})
    BY FS_Subset
  <2>2. SumFunctionOnSet(f, T) = f[x] + SumFunctionOnSet(f, T \ {x})
    BY <1>2, <2>1, SumRemove
  <2>3. SumFunctionOnSet(g, T) = g[x] + SumFunctionOnSet(g, T \ {x})
    BY <1>2, <2>1, SumRemove
  <2>4. SumFunctionOnSet(f, T \ {x}) \in Int /\ SumFunctionOnSet(g, T \ {x}) \in Int
    BY <2>1, SumInt
  <2>5. QED BY <1>2, <2>2, <2>3, <2>4
<1>3. S \in Good
  <2> HIDE DEF Good
  <2>1. QED BY <1>1, <1>2, OneByOne
<1>4. QED BY <1>3

(* Nothing but zeros adds up to zero. *)
LEMMA SumZero ==
  ASSUME NEW f, NEW S, IsFiniteSet(S), \A x \in S : f[x] = 0
  PROVE  SumFunctionOnSet(f, S) = 0
<1> DEFINE Good == {T \in SUBSET S : SumFunctionOnSet(f, T) = 0}
<1>1. {} \in Good
  BY SumEmpty
<1>2. ASSUME NEW T \in SUBSET S, NEW x \in S, x \in T, T \ {x} \in Good PROVE T \in Good
  <2>1. SumFunctionOnSet(f, T) = f[x] + SumFunctionOnSet(f, T \ {x})
    BY <1>2, FS_Subset, SumRemove
  <2>2. QED BY <1>2, <2>1
<1>3. S \in Good
  <2> HIDE DEF Good
  <2>1. QED BY <1>1, <1>2, OneByOne
<1>4. QED BY <1>3

(* Sums are added term by term. *)
LEMMA SumAdd ==
  ASSUME NEW f, NEW g, NEW h, NEW S, IsFiniteSet(S),
         \A x \in S : f[x] \in Int /\ g[x] \in Int /\ h[x] = f[x] + g[x]
  PROVE  SumFunctionOnSet(h, S) = SumFunctionOnSet(f, S) + SumFunctionOnSet(g, S)
<1> DEFINE Good == {T \in SUBSET S :
                      SumFunctionOnSet(h, T) = SumFunctionOnSet(f, T) + SumFunctionOnSet(g, T)}
<1>1. {} \in Good
  BY SumEmpty
<1>2. ASSUME NEW T \in SUBSET S, NEW x \in S, x \in T, T \ {x} \in Good PROVE T \in Good
  <2>1. IsFiniteSet(T) /\ IsFiniteSet(T \ {x})
    BY FS_Subset
  <2>2. SumFunctionOnSet(f, T) = f[x] + SumFunctionOnSet(f, T \ {x})
    BY <1>2, <2>1, SumRemove
  <2>3. SumFunctionOnSet(g, T) = g[x] + SumFunctionOnSet(g, T \ {x})
    BY <1>2, <2>1, SumRemove
  <2>4. SumFunctionOnSet(h, T) = h[x] + SumFunctionOnSet(h, T \ {x})
    <3>1. \A y \in T : h[y] \in Int
      OBVIOUS
    <3>2. QED BY <1>2, <2>1, <3>1, SumRemove
  <2>5. SumFunctionOnSet(f, T \ {x}) \in Int /\ SumFunctionOnSet(g, T \ {x}) \in Int
    BY <2>1, SumInt
  <2>6. SumFunctionOnSet(h, T \ {x}) = SumFunctionOnSet(f, T \ {x}) + SumFunctionOnSet(g, T \ {x})
    BY <1>2
  <2>7. QED BY <1>2, <2>2, <2>3, <2>4, <2>5, <2>6
<1>3. S \in Good
  <2> HIDE DEF Good
  <2>1. QED BY <1>1, <1>2, OneByOne
<1>4. QED BY <1>3

(* The members of a part and of the rest add up to the whole. *)
LEMMA SumSplit ==
  ASSUME NEW f, NEW S, IsFiniteSet(S), \A x \in S : f[x] \in Int, NEW R \in SUBSET S
  PROVE  SumFunctionOnSet(f, S) = SumFunctionOnSet(f, R) + SumFunctionOnSet(f, S \ R)
<1> DEFINE Good == {T \in SUBSET R :
                      SumFunctionOnSet(f, S) = SumFunctionOnSet(f, T) + SumFunctionOnSet(f, S \ T)}
<1>1. {} \in Good
  <2>1. SumFunctionOnSet(f, S) \in Int /\ S \ {} = S
    BY SumInt
  <2>2. QED BY <2>1, SumEmpty
<1>2. ASSUME NEW T \in SUBSET R, NEW x \in R, x \in T, T \ {x} \in Good PROVE T \in Good
  <2> DEFINE Rest == S \ (T \ {x})
  <2>1. IsFiniteSet(T) /\ IsFiniteSet(T \ {x}) /\ IsFiniteSet(Rest) /\ IsFiniteSet(S \ T)
    BY FS_Subset
  <2>2. SumFunctionOnSet(f, T) = f[x] + SumFunctionOnSet(f, T \ {x})
    BY <1>2, <2>1, SumRemove
  <2>3. SumFunctionOnSet(f, Rest) = f[x] + SumFunctionOnSet(f, S \ T)
    <3>1. Rest \ {x} = S \ T /\ x \in Rest
      BY <1>2
    <3>2. \A y \in Rest : f[y] \in Int
      OBVIOUS
    <3> HIDE DEF Rest
    <3>3. QED BY <2>1, <3>1, <3>2, SumRemove
  <2>4. SumFunctionOnSet(f, T \ {x}) \in Int /\ SumFunctionOnSet(f, S \ T) \in Int
    BY <2>1, SumInt
  <2>5. SumFunctionOnSet(f, S) = SumFunctionOnSet(f, T \ {x}) + SumFunctionOnSet(f, Rest)
    BY <1>2
  <2>6. f[x] \in Int
    OBVIOUS
  <2> HIDE DEF Rest
  <2>7. QED BY <2>2, <2>3, <2>4, <2>5, <2>6
<1>3. R \in Good
  <2>1. IsFiniteSet(R)
    BY FS_Subset
  <2> HIDE DEF Good
  <2>2. QED BY <1>1, <1>2, <2>1, OneByOne
<1>4. QED BY <1>3

(* Natural numbers add up to a natural number. *)
LEMMA SumNat ==
  ASSUME NEW f, NEW S, IsFiniteSet(S), \A x \in S : f[x] \in Nat
  PROVE  SumFunctionOnSet(f, S) \in Nat
<1> DEFINE Good == {T \in SUBSET S : SumFunctionOnSet(f, T) \in Nat}
<1>1. {} \in Good
  BY SumEmpty
<1>2. ASSUME NEW T \in SUBSET S, NEW x \in S, x \in T, T \ {x} \in Good PROVE T \in Good
  <2>1. SumFunctionOnSet(f, T) = f[x] + SumFunctionOnSet(f, T \ {x})
    BY <1>2, FS_Subset, SumRemove
  <2>2. QED BY <1>2, <2>1
<1>3. S \in Good
  <2> HIDE DEF Good
  <2>1. QED BY <1>1, <1>2, OneByOne
<1>4. QED BY <1>3

(* A part of natural numbers is no more than the whole. *)
LEMMA SumPart ==
  ASSUME NEW f, NEW S, IsFiniteSet(S), \A x \in S : f[x] \in Nat, NEW R \in SUBSET S
  PROVE  /\ SumFunctionOnSet(f, R) <= SumFunctionOnSet(f, S)
         /\ SumFunctionOnSet(f, S) \in Nat /\ SumFunctionOnSet(f, R) \in Nat
<1>1. IsFiniteSet(R) /\ IsFiniteSet(S \ R)
  BY FS_Subset
<1>2. SumFunctionOnSet(f, S) = SumFunctionOnSet(f, R) + SumFunctionOnSet(f, S \ R)
  BY SumSplit
<1>3. SumFunctionOnSet(f, R) \in Nat /\ SumFunctionOnSet(f, S \ R) \in Nat
  BY <1>1, SumNat
<1>4. QED BY <1>2, <1>3

-----------------------------------------------------------------------------
(* The same of whole functions, as the modules of the project use them. *)

LEMMA TotalInt ==
  ASSUME NEW S, IsFiniteSet(S), NEW f \in [S -> Int]
  PROVE  SumFunction(f) \in Int
BY SumInt DEF SumFunction

LEMMA TotalNat ==
  ASSUME NEW S, IsFiniteSet(S), NEW f \in [S -> Nat]
  PROVE  SumFunction(f) \in Nat
BY SumNat DEF SumFunction

LEMMA TotalNothing == ASSUME NEW f, DOMAIN f = {} PROVE SumFunction(f) = 0
BY SumEmpty DEF SumFunction

(* The sum over some members, as a function of those members only. *)
LEMMA TotalOnSet ==
  ASSUME NEW S, IsFiniteSet(S), NEW f \in [S -> Int], NEW R \in SUBSET S
  PROVE  SumFunction([x \in R |-> f[x]]) = SumFunctionOnSet(f, R)
<1> DEFINE g == [x \in R |-> f[x]]
<1>1. \A x \in R : g[x] = f[x] /\ g[x] \in Int
  OBVIOUS
<1>2. IsFiniteSet(R)
  BY FS_Subset
<1>3. SumFunctionOnSet(g, R) = SumFunctionOnSet(f, R)
  <2> HIDE DEF g
  <2>1. QED BY <1>1, <1>2, SumSame
<1>4. QED BY <1>3 DEF SumFunction

(* One member apart. *)
LEMMA TotalRemove ==
  ASSUME NEW S, IsFiniteSet(S), NEW f \in [S -> Int], NEW a \in S
  PROVE  SumFunction(f) = f[a] + SumFunction([x \in S \ {a} |-> f[x]])
<1>1. SumFunctionOnSet(f, S) = f[a] + SumFunctionOnSet(f, S \ {a})
  BY SumRemove
<1>2. QED BY <1>1, TotalOnSet DEF SumFunction

(* Terms that are added, term by term. *)
LEMMA TotalAdd ==
  ASSUME NEW S, IsFiniteSet(S), NEW f \in [S -> Int], NEW g \in [S -> Int]
  PROVE  SumFunction([x \in S |-> f[x] + g[x]]) = SumFunction(f) + SumFunction(g)
<1> DEFINE h == [x \in S |-> f[x] + g[x]]
<1>1. \A x \in S : f[x] \in Int /\ g[x] \in Int /\ h[x] = f[x] + g[x]
  OBVIOUS
<1>2. DOMAIN h = S
  OBVIOUS
<1> HIDE DEF h
<1>3. SumFunctionOnSet(h, S) = SumFunctionOnSet(f, S) + SumFunctionOnSet(g, S)
  BY <1>1, SumAdd
<1>4. SumFunction(h) = SumFunction(f) + SumFunction(g)
  BY <1>2, <1>3 DEF SumFunction
<1>5. QED BY <1>4 DEF h

(* A common factor. *)
LEMMA TotalScale ==
  ASSUME NEW S, IsFiniteSet(S), NEW f \in [S -> Int], NEW k \in Int
  PROVE  SumFunction([x \in S |-> k * f[x]]) = k * SumFunction(f)
<1> DEFINE g == [x \in S |-> k * f[x]]
           Good == {T \in SUBSET S : SumFunctionOnSet(g, T) = k * SumFunctionOnSet(f, T)}
<1>0. g \in [S -> Int] /\ \A x \in S : g[x] = k * f[x]
  OBVIOUS
<1> HIDE DEF g
<1>1. {} \in Good
  BY SumEmpty
<1>2. ASSUME NEW T \in SUBSET S, NEW x \in S, x \in T, T \ {x} \in Good PROVE T \in Good
  <2>1. IsFiniteSet(T) /\ IsFiniteSet(T \ {x})
    BY FS_Subset
  <2>2. SumFunctionOnSet(f, T) = f[x] + SumFunctionOnSet(f, T \ {x})
    BY <1>2, <2>1, SumRemove
  <2>3. SumFunctionOnSet(g, T) = g[x] + SumFunctionOnSet(g, T \ {x})
    BY <1>0, <1>2, <2>1, SumRemove
  <2>4. SumFunctionOnSet(f, T \ {x}) \in Int
    BY <2>1, SumInt
  <2>5. k * (f[x] + SumFunctionOnSet(f, T \ {x})) = k * f[x] + k * SumFunctionOnSet(f, T \ {x})
    BY <2>4
  <2>6. QED BY <1>0, <1>2, <2>2, <2>3, <2>5
<1>3. S \in Good
  <2> HIDE DEF Good
  <2>1. QED BY <1>1, <1>2, OneByOne
<1>4. SumFunction(g) = k * SumFunction(f)
  BY <1>0, <1>3 DEF SumFunction
<1>5. QED BY <1>4 DEF g

(* A table adds up to the same by rows and by columns. *)
LEMMA TotalSwap ==
  ASSUME NEW S, IsFiniteSet(S), NEW R, IsFiniteSet(R), NEW f \in [S -> [R -> Int]]
  PROVE  SumFunction([x \in S |-> SumFunction(f[x])])
           = SumFunction([y \in R |-> SumFunction([x \in S |-> f[x][y]])])
<1> DEFINE row == [x \in S |-> SumFunction(f[x])]
           column(y) == [x \in S |-> f[x][y]]
           columns(T) == [y \in R |-> SumFunctionOnSet(column(y), T)]
           Good == {T \in SUBSET S : SumFunctionOnSet(row, T) = SumFunctionOnSet(columns(T), R)}
<1>0. row \in [S -> Int] /\ \A y \in R : column(y) \in [S -> Int]
  <2>1. ASSUME NEW x \in S PROVE SumFunction(f[x]) \in Int
    BY TotalInt
  <2>2. QED BY <2>1
<1>1. {} \in Good
  <2> DEFINE none == columns({})
  <2>1. \A y \in R : none[y] = 0
    BY SumEmpty
  <2> HIDE DEF none
  <2>2. SumFunctionOnSet(none, R) = 0
    BY <2>1, SumZero
  <2>3. QED BY <2>2, SumEmpty DEF none
<1>2. ASSUME NEW T \in SUBSET S, NEW x \in S, x \in T, T \ {x} \in Good PROVE T \in Good
  <2>1. IsFiniteSet(T) /\ IsFiniteSet(T \ {x})
    BY FS_Subset
  <2>2. SumFunctionOnSet(row, T) = row[x] + SumFunctionOnSet(row, T \ {x})
    <3> HIDE DEF row
    <3>1. QED BY <1>0, <1>2, <2>1, SumRemove
  <2>3. ASSUME NEW y \in R
        PROVE  /\ columns(T)[y] = f[x][y] + columns(T \ {x})[y]
               /\ f[x][y] \in Int /\ columns(T \ {x})[y] \in Int
    <3>1. column(y) \in [S -> Int] /\ column(y)[x] = f[x][y]
      BY <1>0
    <3> HIDE DEF column
    <3>2. SumFunctionOnSet(column(y), T) = column(y)[x] + SumFunctionOnSet(column(y), T \ {x})
      BY <1>2, <2>1, <3>1, SumRemove
    <3>3. SumFunctionOnSet(column(y), T \ {x}) \in Int
      BY <2>1, <3>1, SumInt
    <3>4. QED BY <3>1, <3>2, <3>3
  <2>4. SumFunctionOnSet(columns(T), R) = SumFunctionOnSet(f[x], R) + SumFunctionOnSet(columns(T \ {x}), R)
    <3> DEFINE with == columns(T)
               without == columns(T \ {x})
    <3>1. \A y \in R : f[x][y] \in Int /\ without[y] \in Int /\ with[y] = f[x][y] + without[y]
      BY <2>3
    <3> HIDE DEF with, without
    <3>2. SumFunctionOnSet(with, R) = SumFunctionOnSet(f[x], R) + SumFunctionOnSet(without, R)
      BY <3>1, SumAdd
    <3>3. QED BY <3>2 DEF with, without
  <2>5. row[x] = SumFunctionOnSet(f[x], R)
    BY DEF SumFunction
  <2>6. SumFunctionOnSet(row, T \ {x}) = SumFunctionOnSet(columns(T \ {x}), R)
    BY <1>2
  <2> HIDE DEF row, columns
  <2>7. SumFunctionOnSet(row, T) = SumFunctionOnSet(columns(T), R)
    BY <2>2, <2>4, <2>5, <2>6
  <2>8. QED BY <2>7
<1>3. S \in Good
  <2> HIDE DEF Good
  <2>1. QED BY <1>1, <1>2, OneByOne
<1>4. SumFunction(row) = SumFunction([y \in R |-> SumFunction(column(y))])
  <2>1. \A y \in R : SumFunctionOnSet(column(y), S) = SumFunction(column(y))
    BY DEF SumFunction
  <2>2. columns(S) = [y \in R |-> SumFunction(column(y))]
    BY <2>1
  <2>3. SumFunction(row) = SumFunctionOnSet(row, S) /\ SumFunction(columns(S)) = SumFunctionOnSet(columns(S), R)
    BY DEF SumFunction
  <2>4. SumFunctionOnSet(row, S) = SumFunctionOnSet(columns(S), R)
    BY <1>3
  <2> HIDE DEF row, columns
  <2>5. QED BY <2>2, <2>3, <2>4
<1>5. QED BY <1>4

-----------------------------------------------------------------------------
(* One of finitely many is the largest. *)
LEMMA Largest ==
  ASSUME NEW S, IsFiniteSet(S), S # {}, NEW f, \A x \in S : f[x] \in Int
  PROVE  \E x \in S : \A y \in S : f[y] <= f[x]
<1> DEFINE Tops(T) == \E x \in T : \A y \in T : f[y] <= f[x]
           Good == {T \in SUBSET S : T = {} \/ Tops(T)}
<1>1. {} \in Good
  OBVIOUS
<1>2. ASSUME NEW T \in SUBSET S, NEW a \in S, a \in T, T \ {a} \in Good PROVE T \in Good
  <2>1. CASE T = {a}
    BY <2>1
  <2>2. CASE T # {a}
    <3>1. PICK x \in T \ {a} : \A y \in T \ {a} : f[y] <= f[x]
      BY <1>2, <2>2
    <3>2. CASE f[a] <= f[x]
      BY <3>1, <3>2
    <3>3. CASE f[x] <= f[a]
      <4>1. \A y \in T : f[y] <= f[a]
        BY <3>1, <3>3
      <4>2. QED BY <1>2, <4>1
    <3>4. QED BY <3>2, <3>3
  <2>3. QED BY <2>1, <2>2
<1>3. S \in Good
  <2> HIDE DEF Good
  <2>1. QED BY <1>1, <1>2, OneByOne
<1>4. QED BY <1>3

(* One of finitely many numbers is the least. *)
LEMMA Least ==
  ASSUME NEW S, IsFiniteSet(S), S # {}, S \subseteq Int
  PROVE  \E x \in S : \A y \in S : x <= y
<1> DEFINE f == [x \in S |-> -x]
<1>1. \A x \in S : f[x] \in Int
  OBVIOUS
<1>2. PICK x \in S : \A y \in S : f[y] <= f[x]
  <2> HIDE DEF f
  <2>1. QED BY <1>1, Largest
<1>3. \A y \in S : x <= y
  BY <1>2
<1>4. QED BY <1>3

(* So is some natural number of any. *)
LEMMA LeastOfAny ==
  ASSUME NEW S, S \subseteq Nat, S # {}
  PROVE  \E x \in S : \A y \in S : x <= y
<1>1. PICK n \in S : TRUE
  OBVIOUS
<1>2. n \in Nat
  OBVIOUS
<1> DEFINE Low == {x \in S : x <= n}
<1>3. Low \subseteq 0..n /\ Low \subseteq Int /\ n \in Low
  <2>1. \A x \in Low : x \in Nat /\ x <= n
    OBVIOUS
  <2>2. n \in Low
    BY <1>2
  <2> HIDE DEF Low
  <2>3. QED BY <1>2, <2>1, <2>2
<1>4. \A y \in S : y \in Low \/ n <= y
  BY <1>2
<1>5. Low \subseteq S
  OBVIOUS
<1> HIDE DEF Low
<1>6. IsFiniteSet(Low)
  <2>1. IsFiniteSet(0..n)
    BY <1>2, FS_Interval
  <2>2. QED BY <1>3, <2>1, FS_Subset
<1>7. \E x \in Low : \A y \in Low : x <= y
  BY <1>3, <1>6, Least
<1>8. PICK x \in Low : \A y \in Low : x <= y
  BY <1>7
<1>9. x \in Int /\ x <= n /\ x \in S
  BY <1>3, <1>5, <1>8
<1>10. \A y \in S : x <= y
  BY <1>2, <1>4, <1>8, <1>9
<1>11. QED BY <1>9, <1>10
=============================================================================
