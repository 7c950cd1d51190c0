-------------------------------- MODULE Sums --------------------------------
(***************************************************************************)
(* Facts about SumFunctionOnSet(f, S), the sum of f[x] over the x in a     *)
(* finite set S, which is how this project adds up quantities, money and   *)
(* votes.                                                                  *)
(*                                                                         *)
(* The sum is defined by recursion over the subsets of S.  What it comes   *)
(* to is proved from the well-founded order of those subsets: a claim that *)
(* fails for some subset fails for a least one.                            *)
(***************************************************************************)
EXTENDS FiniteSetTheorems, TLAPS

-----------------------------------------------------------------------------
(* Induction.                                                              *)

\* Among natural numbers there is a least one.
LEMMA LeastNumber ==
    ASSUME NEW T \in SUBSET Nat, T # {}
    PROVE  \E n \in T : \A m \in T : n <= m
<1>1. OpToRel(<, Nat) = {ss \in Nat \X Nat : ss[1] < ss[2]}
  BY DEF OpToRel
<1>2. PICK n \in T : \A m \in T : ~(<<m, n>> \in OpToRel(<, Nat))
  BY WFMin, NatLessThanWellFounded
<1>3. \A m \in T : ~(m < n)
  BY <1>1, <1>2
<1>4. QED
  BY <1>3

\* Among subsets of a finite set there is a least one.
LEMMA LeastSubset ==
    ASSUME NEW S, IsFiniteSet(S), NEW Bad \in SUBSET SUBSET S, Bad # {}
    PROVE  \E T \in Bad : \A U \in SUBSET T : U # T => U \notin Bad
<1>1. IsWellFoundedOn(StrictSubsetOrdering(S), FiniteSubsetsOf(S))
  BY FS_StrictSubsetOrderingWellFounded
<1>2. FiniteSubsetsOf(S) = SUBSET S
  BY FS_FiniteSubsetsOfFinite
<1>3. PICK T \in Bad : \A U \in Bad : <<U, T>> \notin StrictSubsetOrdering(S)
  BY <1>1, <1>2, WFMin
<1>4. QED
  BY <1>3 DEF StrictSubsetOrdering

\* What holds of a set if it holds of its proper subsets, holds of every subset
\* of a finite set.
LEMMA SubsetInduction ==
    ASSUME NEW S, IsFiniteSet(S), NEW Good,
           \A T \in SUBSET S : (\A U \in SUBSET T : U # T => U \in Good) => T \in Good
    PROVE  \A T \in SUBSET S : T \in Good
<1> DEFINE Bad == (SUBSET S) \ Good
<1>1. Bad \in SUBSET SUBSET S
  OBVIOUS
<1>2. ASSUME NEW T \in Bad, \A U \in SUBSET T : U # T => U \notin Bad
      PROVE  FALSE
  <2>1. \A U \in SUBSET T : U # T => U \in Good
    BY <1>2
  <2>2. QED
    BY <2>1
<1>3. Bad = {}
  <2> HIDE DEF Bad
  <2>1. QED
    BY <1>1, <1>2, LeastSubset
<1>4. QED
  BY <1>3

-----------------------------------------------------------------------------
(* The recursion has a solution.                                           *)

Chosen(s) == CHOOSE x \in s : TRUE
Others(s) == s \ {Chosen(s)}

\* What the recursion says of one set, given the sums g of smaller ones.
SumStep(g, f, s) == IF s = {} THEN 0 ELSE f[Chosen(s)] + g[Others(s)]

\* The sums of all subsets of S.
IsSumTable(g, f, S) == g = [s \in SUBSET S |-> SumStep(g, f, s)]
SumTable(f, S) == CHOOSE g : IsSumTable(g, f, S)

\* A sum is the last entry of its table.
LEMMA SumIsInTable ==
    ASSUME NEW f, NEW S
    PROVE  SumFunctionOnSet(f, S) = SumTable(f, S)[S]
BY DEF SumFunctionOnSet, FoldFunctionOnSet, MapThenFoldSet, SumTable, IsSumTable, SumStep,
       Chosen, Others

\* What is chosen of a set with members is one of them.
LEMMA ChosenIsIn ==
    ASSUME NEW s, s # {}
    PROVE  Chosen(s) \in s
BY DEF Chosen

\* The subsets with at most n members.
SubsetsUpTo(S, n) == {s \in SUBSET S : Cardinality(s) <= n}

\* The others of a set are one fewer.
LEMMA OthersAreFewer ==
    ASSUME NEW S, IsFiniteSet(S), NEW n \in Nat, NEW s \in SubsetsUpTo(S, n), s # {}
    PROVE  n > 0 /\ Others(s) \in SubsetsUpTo(S, n - 1)
<1>1. IsFiniteSet(s) /\ Cardinality(s) \in Nat /\ Cardinality(s) <= n
  BY FS_Subset, FS_CardinalityType DEF SubsetsUpTo
<1>2. Cardinality(Others(s)) = Cardinality(s) - 1 /\ Cardinality(s) # 0
  BY <1>1, ChosenIsIn, FS_RemoveElement, FS_EmptySet DEF Others
<1>3. QED
  BY <1>1, <1>2 DEF SubsetsUpTo, Others

\* There is a table of the subsets up to every size.
LEMMA PartialTables ==
    ASSUME NEW f, NEW S, IsFiniteSet(S), NEW n \in Nat
    PROVE  \E g : g = [s \in SubsetsUpTo(S, n) |-> SumStep(g, f, s)]
<1> DEFINE Good(k) == \E g : g = [s \in SubsetsUpTo(S, k) |-> SumStep(g, f, s)]
           Bad == {k \in Nat : ~Good(k)}
<1>1. SUFFICES ASSUME n \in Bad
               PROVE  FALSE
  OBVIOUS
<1>2. PICK k \in Bad : \A m \in Bad : k <= m
  BY <1>1, LeastNumber
<1>3. CASE k = 0
  <2>1. \A s \in SubsetsUpTo(S, 0) : s = {}
    BY OthersAreFewer
  <2> DEFINE g == [s \in SubsetsUpTo(S, 0) |-> 0]
  <2>2. g = [s \in SubsetsUpTo(S, 0) |-> SumStep(g, f, s)]
    BY <2>1 DEF SumStep
  <2>3. QED
    BY <1>2, <1>3, <2>2
<1>4. CASE k # 0
  <2>1. k \in Nat /\ k - 1 \in Nat /\ k - 1 \notin Bad
    BY <1>2, <1>4
  <2>2. PICK g : g = [s \in SubsetsUpTo(S, k - 1) |-> SumStep(g, f, s)]
    BY <2>1
  <2> DEFINE h == [s \in SubsetsUpTo(S, k) |->
                      IF s \in SubsetsUpTo(S, k - 1) THEN g[s] ELSE SumStep(g, f, s)]
  <2>3. \A s \in SubsetsUpTo(S, k) : h[s] = SumStep(h, f, s)
    <3> SUFFICES ASSUME NEW s \in SubsetsUpTo(S, k)
                 PROVE  h[s] = SumStep(h, f, s)
      OBVIOUS
    <3>1. h[s] = SumStep(g, f, s)
      BY <2>2
    <3>2. s # {} => Others(s) \in SubsetsUpTo(S, k - 1) /\ Others(s) \in SubsetsUpTo(S, k)
      <4>1. SubsetsUpTo(S, k - 1) \subseteq SubsetsUpTo(S, k)
        <5>1. ASSUME NEW t \in SUBSET S PROVE Cardinality(t) \in Nat
          BY FS_Subset, FS_CardinalityType
        <5>2. QED
          BY <2>1, <5>1 DEF SubsetsUpTo
      <4>2. QED
        BY <2>1, <4>1, OthersAreFewer
    <3>3. s # {} => h[Others(s)] = g[Others(s)]
      BY <3>2
    <3>4. QED
      BY <3>1, <3>3 DEF SumStep
  <2>4. h = [s \in SubsetsUpTo(S, k) |-> SumStep(h, f, s)]
    BY <2>3
  <2>5. QED
    BY <1>2, <2>4
<1>5. QED
  BY <1>3, <1>4

\* All subsets of a finite set have their sums.
LEMMA TableExists ==
    ASSUME NEW f, NEW S, IsFiniteSet(S)
    PROVE  IsSumTable(SumTable(f, S), f, S)
<1>1. Cardinality(S) \in Nat
  BY FS_CardinalityType
<1>2. SubsetsUpTo(S, Cardinality(S)) = SUBSET S
  BY FS_Subset DEF SubsetsUpTo
<1>3. \E g : g = [s \in SubsetsUpTo(S, Cardinality(S)) |-> SumStep(g, f, s)]
  BY <1>1, PartialTables
<1>4. \E g : IsSumTable(g, f, S)
  BY <1>2, <1>3 DEF IsSumTable
<1>5. QED
  BY <1>4 DEF SumTable

\* A table of S holds the sum of each subset of S.
LEMMA TableHoldsSums ==
    ASSUME NEW f, NEW S, IsFiniteSet(S), NEW U \in SUBSET S
    PROVE  SumTable(f, S)[U] = SumFunctionOnSet(f, U)
<1> DEFINE g == SumTable(f, S)
           h == SumTable(f, U)
           Bad == {s \in SUBSET U : g[s] # h[s]}
<1>1. IsFiniteSet(U) /\ IsSumTable(g, f, S) /\ IsSumTable(h, f, U)
  BY FS_Subset, TableExists
<1>2. /\ \A s \in SUBSET S : g[s] = SumStep(g, f, s)
      /\ \A s \in SUBSET U : h[s] = SumStep(h, f, s)
  BY <1>1 DEF IsSumTable
<1> HIDE DEF g, h
<1>3. Bad = {}
  <2> SUFFICES ASSUME Bad # {}
               PROVE  FALSE
    OBVIOUS
  <2>1. PICK s \in Bad : \A t \in SUBSET s : t # s => t \notin Bad
    <3>1. Bad \in SUBSET SUBSET U
      OBVIOUS
    <3> HIDE DEF Bad
    <3>2. QED
      BY <1>1, <3>1, LeastSubset
  <2>2. s \in SUBSET U /\ s \in SUBSET S /\ g[s] # h[s]
    BY <2>1
  <2>3. s # {}
    BY <1>2, <2>2 DEF SumStep
  <2>4. Others(s) \in SUBSET s /\ Others(s) # s
    BY <2>3, ChosenIsIn DEF Others
  <2>5. g[Others(s)] = h[Others(s)]
    BY <2>1, <2>2, <2>4
  <2>6. QED
    BY <1>2, <2>2, <2>3, <2>5 DEF SumStep
<1>4. QED
  BY <1>3, SumIsInTable DEF g, h

-----------------------------------------------------------------------------
(* What a sum comes to.                                                    *)

\* The empty sum.
LEMMA SumEmpty ==
    ASSUME NEW f
    PROVE  SumFunctionOnSet(f, {}) = 0
<1>1. IsSumTable(SumTable(f, {}), f, {})
  BY TableExists, FS_EmptySet
<1>2. QED
  BY <1>1, SumIsInTable DEF IsSumTable, SumStep

\* A sum is that of the first member and the rest.
LEMMA SumUnfold ==
    ASSUME NEW f, NEW S, IsFiniteSet(S), S # {}
    PROVE  /\ Chosen(S) \in S /\ Others(S) \in SUBSET S /\ Others(S) # S
           /\ SumFunctionOnSet(f, S) = f[Chosen(S)] + SumFunctionOnSet(f, Others(S))
<1>1. Chosen(S) \in S /\ Others(S) \in SUBSET S /\ Others(S) # S
  BY ChosenIsIn DEF Others
<1> DEFINE g == SumTable(f, S)
<1>2. g[S] = SumStep(g, f, S)
  <2>1. IsSumTable(g, f, S)
    BY TableExists
  <2> HIDE DEF g
  <2>2. QED
    BY <2>1 DEF IsSumTable
<1>3. SumTable(f, S)[Others(S)] = SumFunctionOnSet(f, Others(S))
  BY <1>1, TableHoldsSums
<1>4. QED
  BY <1>1, <1>2, <1>3, SumIsInTable DEF SumStep

\* Integers add up to an integer, natural numbers to a natural number.
LEMMA SumType ==
    ASSUME NEW S, IsFiniteSet(S), NEW f, \A x \in S : f[x] \in Int
    PROVE  /\ SumFunctionOnSet(f, S) \in Int
           /\ (\A x \in S : f[x] >= 0) => SumFunctionOnSet(f, S) >= 0
<1> DEFINE Fine(T) == /\ SumFunctionOnSet(f, T) \in Int
                      /\ (\A x \in T : f[x] >= 0) => SumFunctionOnSet(f, T) >= 0
           Good == {T \in SUBSET S : Fine(T)}
<1>1. ASSUME NEW T \in SUBSET S, \A U \in SUBSET T : U # T => U \in Good
      PROVE  T \in Good
  <2>1. CASE T = {}
    BY <2>1, SumEmpty
  <2>2. CASE T # {}
    <3> DEFINE a == f[Chosen(T)]
               b == SumFunctionOnSet(f, Others(T))
               c == SumFunctionOnSet(f, T)
    <3>1. IsFiniteSet(T)
      BY FS_Subset
    <3>2. Chosen(T) \in T /\ Others(T) \in SUBSET T /\ Others(T) # T /\ c = a + b
      BY <2>2, <3>1, SumUnfold
    <3>3. Fine(Others(T)) /\ a \in Int
      BY <1>1, <3>2
    <3>4. (\A x \in T : f[x] >= 0) => a >= 0 /\ b >= 0
      BY <3>2, <3>3
    <3>5. b \in Int
      BY <3>3
    <3>6. c \in Int /\ (a >= 0 /\ b >= 0 => c >= 0)
      <4> HIDE DEF a, b, c
      <4>1. QED
        BY <3>2, <3>3, <3>5
    <3>7. QED
      BY <3>4, <3>6
  <2>3. QED
    BY <2>1, <2>2
<1>2. S \in Good
  <2> HIDE DEF Good
  <2>1. QED
    BY <1>1, SubsetInduction
<1>3. QED
  BY <1>2

\* Any member may be taken out first.
LEMMA SumRemove ==
    ASSUME NEW S, IsFiniteSet(S), NEW f, \A x \in S : f[x] \in Int, NEW a \in S
    PROVE  SumFunctionOnSet(f, S) = f[a] + SumFunctionOnSet(f, S \ {a})
<1> DEFINE Fine(T) == \A x \in T :
                         SumFunctionOnSet(f, T) = f[x] + SumFunctionOnSet(f, T \ {x})
           Good == {T \in SUBSET S : Fine(T)}
<1>1. ASSUME NEW T \in SUBSET S, \A U \in SUBSET T : U # T => U \in Good
      PROVE  T \in Good
  <2> SUFFICES ASSUME NEW x \in T
               PROVE  SumFunctionOnSet(f, T) = f[x] + SumFunctionOnSet(f, T \ {x})
    OBVIOUS
  <2> DEFINE y == Chosen(T)
             both == (T \ {x}) \ {y}
             rest == SumFunctionOnSet(f, both)
             sx == SumFunctionOnSet(f, T \ {x})
             sy == SumFunctionOnSet(f, T \ {y})
             all == SumFunctionOnSet(f, T)
  <2>1. IsFiniteSet(T)
    BY FS_Subset
  <2>2. y \in T /\ Others(T) = T \ {y} /\ all = f[y] + sy
    BY <2>1, SumUnfold DEF Others
  <2>3. CASE x = y
    BY <2>2, <2>3
  <2>4. CASE x # y
    <3>1. Fine(T \ {y}) /\ Fine(T \ {x})
      BY <1>1, <2>2
    <3>2. (T \ {y}) \ {x} = both /\ x \in T \ {y} /\ y \in T \ {x}
      BY <2>2, <2>4
    <3>3. sy = f[x] + rest /\ sx = f[y] + rest
      BY <3>1, <3>2
    <3>4. f[x] \in Int /\ f[y] \in Int /\ rest \in Int
      <4>1. IsFiniteSet(both) /\ \A z \in both : f[z] \in Int
        BY <2>1, FS_Subset
      <4>2. rest \in Int
        BY <4>1, SumType
      <4>3. QED
        BY <2>2, <4>2
    <3> HIDE DEF rest, sx, sy, all, y
    <3>5. all = f[x] + sx
      BY <2>2, <3>3, <3>4
    <3>6. QED
      BY <3>5 DEF all, sx
  <2>5. QED
    BY <2>3, <2>4
<1>2. S \in Good
  <2> HIDE DEF Good
  <2>1. QED
    BY <1>1, SubsetInduction
<1>3. QED
  BY <1>2

\* A new member adds what it counts for.
LEMMA SumAdd ==
    ASSUME NEW S, IsFiniteSet(S), NEW a, a \notin S, NEW f,
           \A x \in S \cup {a} : f[x] \in Int
    PROVE  SumFunctionOnSet(f, S \cup {a}) = f[a] + SumFunctionOnSet(f, S)
<1>1. IsFiniteSet(S \cup {a}) /\ (S \cup {a}) \ {a} = S
  BY FS_AddElement
<1>2. QED
  BY <1>1, SumRemove

\* Functions that agree on a set have the same sum over it.
LEMMA SumAgree ==
    ASSUME NEW S, IsFiniteSet(S), NEW f, NEW g, \A x \in S : f[x] = g[x]
    PROVE  SumFunctionOnSet(f, S) = SumFunctionOnSet(g, S)
<1> DEFINE Good == {T \in SUBSET S : SumFunctionOnSet(f, T) = SumFunctionOnSet(g, T)}
<1>1. ASSUME NEW T \in SUBSET S, \A U \in SUBSET T : U # T => U \in Good
      PROVE  T \in Good
  <2>1. CASE T = {}
    BY <2>1, SumEmpty
  <2>2. CASE T # {}
    <3>1. IsFiniteSet(T)
      BY FS_Subset
    <3>2. /\ Chosen(T) \in T /\ Others(T) \in SUBSET T /\ Others(T) # T
          /\ SumFunctionOnSet(f, T) = f[Chosen(T)] + SumFunctionOnSet(f, Others(T))
          /\ SumFunctionOnSet(g, T) = g[Chosen(T)] + SumFunctionOnSet(g, Others(T))
      BY <2>2, <3>1, SumUnfold
    <3>3. SumFunctionOnSet(f, Others(T)) = SumFunctionOnSet(g, Others(T))
      BY <1>1, <3>2
    <3>4. f[Chosen(T)] = g[Chosen(T)]
      BY <3>2
    <3>5. QED
      BY <3>2, <3>3, <3>4
  <2>3. QED
    BY <2>1, <2>2
<1>2. S \in Good
  <2> HIDE DEF Good
  <2>1. QED
    BY <1>1, SubsetInduction
<1>3. QED
  BY <1>2

\* A sum in which one summand changes, changes by as much.
LEMMA SumChange ==
    ASSUME NEW S, IsFiniteSet(S), NEW f, NEW g, NEW a \in S,
           \A x \in S : f[x] \in Int /\ g[x] \in Int,
           \A x \in S \ {a} : f[x] = g[x]
    PROVE  SumFunctionOnSet(g, S) = SumFunctionOnSet(f, S) + g[a] - f[a]
<1> DEFINE rest == SumFunctionOnSet(f, S \ {a})
           sf == SumFunctionOnSet(f, S)
           sg == SumFunctionOnSet(g, S)
<1>1. IsFiniteSet(S \ {a})
  BY FS_Subset
<1>2. rest = SumFunctionOnSet(g, S \ {a}) /\ rest \in Int
  BY <1>1, SumAgree, SumType
<1>3. sf = f[a] + rest /\ sg = g[a] + rest
  BY <1>2, SumRemove
<1> HIDE DEF rest, sf, sg
<1>4. sg = sf + g[a] - f[a]
  BY <1>2, <1>3
<1>5. QED
  BY <1>4 DEF sf, sg

\* Larger summands have a larger sum.
LEMMA SumMonotone ==
    ASSUME NEW S, IsFiniteSet(S), NEW f, NEW g,
           \A x \in S : f[x] \in Int /\ g[x] \in Int /\ f[x] <= g[x]
    PROVE  SumFunctionOnSet(f, S) <= SumFunctionOnSet(g, S)
<1> DEFINE Good == {T \in SUBSET S : SumFunctionOnSet(f, T) <= SumFunctionOnSet(g, T)}
<1>1. ASSUME NEW T \in SUBSET S, \A U \in SUBSET T : U # T => U \in Good
      PROVE  T \in Good
  <2>1. CASE T = {}
    BY <2>1, SumEmpty
  <2>2. CASE T # {}
    <3> DEFINE af == f[Chosen(T)]
               ag == g[Chosen(T)]
               bf == SumFunctionOnSet(f, Others(T))
               bg == SumFunctionOnSet(g, Others(T))
               cf == SumFunctionOnSet(f, T)
               cg == SumFunctionOnSet(g, T)
    <3>1. IsFiniteSet(T)
      BY FS_Subset
    <3>2. /\ Chosen(T) \in T /\ Others(T) \in SUBSET T /\ Others(T) # T
          /\ cf = af + bf /\ cg = ag + bg
      BY <2>2, <3>1, SumUnfold
    <3>3. IsFiniteSet(Others(T)) /\ (\A x \in Others(T) : f[x] \in Int /\ g[x] \in Int)
      BY <3>1, <3>2, FS_Subset
    <3>4. bf \in Int /\ bg \in Int
      BY <3>3, SumType
    <3>5. bf <= bg /\ af <= ag /\ af \in Int /\ ag \in Int
      BY <1>1, <3>2
    <3> HIDE DEF af, ag, bf, bg, cf, cg
    <3>6. cf <= cg
      BY <3>2, <3>4, <3>5
    <3>7. QED
      BY <3>6 DEF cf, cg
  <2>3. QED
    BY <2>1, <2>2
<1>2. S \in Good
  <2> HIDE DEF Good
  <2>1. QED
    BY <1>1, SubsetInduction
<1>3. QED
  BY <1>2

\* Disjoint sets add up.
LEMMA SumUnion ==
    ASSUME NEW A, IsFiniteSet(A), NEW B, IsFiniteSet(B), A \cap B = {}, NEW f,
           \A x \in A \cup B : f[x] \in Int
    PROVE  SumFunctionOnSet(f, A \cup B) = SumFunctionOnSet(f, A) + SumFunctionOnSet(f, B)
<1> DEFINE sa == SumFunctionOnSet(f, A)
           Good == {T \in SUBSET B :
                       SumFunctionOnSet(f, A \cup T) = sa + SumFunctionOnSet(f, T)}
<1>1. sa \in Int
  BY SumType
<1>2. ASSUME NEW T \in SUBSET B, \A U \in SUBSET T : U # T => U \in Good
      PROVE  T \in Good
  <2>1. CASE T = {}
    <3>1. A \cup T = A /\ SumFunctionOnSet(f, T) = 0
      BY <2>1, SumEmpty
    <3>2. QED
      BY <1>1, <3>1
  <2>2. CASE T # {}
    <3> DEFINE a == Chosen(T)
               b == SumFunctionOnSet(f, Others(T))
               c == SumFunctionOnSet(f, T)
               bb == SumFunctionOnSet(f, A \cup Others(T))
               cc == SumFunctionOnSet(f, A \cup T)
    <3>1. IsFiniteSet(T)
      BY FS_Subset
    <3>2. a \in T /\ Others(T) \in SUBSET T /\ Others(T) # T /\ c = f[a] + b
      BY <2>2, <3>1, SumUnfold
    <3>3. bb = sa + b
      BY <1>2, <3>2
    <3>4. IsFiniteSet(A \cup Others(T)) /\ IsFiniteSet(Others(T))
      BY <3>1, <3>2, FS_Subset, FS_Union
    <3>5. (A \cup Others(T)) \cup {a} = A \cup T /\ a \notin A \cup Others(T)
      BY <3>2 DEF Others
    <3>6. cc = f[a] + bb
      BY <3>4, <3>5, SumAdd
    <3>7. f[a] \in Int /\ b \in Int
      BY <3>2, <3>4, SumType
    <3> HIDE DEF a, b, c, bb, cc, sa
    <3>8. cc = sa + c
      BY <1>1, <3>2, <3>3, <3>6, <3>7
    <3>9. QED
      BY <3>8 DEF c, cc
  <2>3. QED
    BY <2>1, <2>2
<1>3. B \in Good
  <2> HIDE DEF Good
  <2>1. QED
    BY <1>2, SubsetInduction
<1>4. QED
  BY <1>3

\* With natural numbers, a part is no more than the whole.
LEMMA SumWithin ==
    ASSUME NEW S, IsFiniteSet(S), NEW U \in SUBSET S, NEW f, \A x \in S : f[x] \in Nat
    PROVE  SumFunctionOnSet(f, U) <= SumFunctionOnSet(f, S)
<1> DEFINE a == SumFunctionOnSet(f, U)
           b == SumFunctionOnSet(f, S \ U)
           c == SumFunctionOnSet(f, S)
<1>1. IsFiniteSet(U) /\ IsFiniteSet(S \ U) /\ U \cap (S \ U) = {} /\ U \cup (S \ U) = S
  BY FS_Subset
<1>2. c = a + b
  BY <1>1, SumUnion
<1>3. a \in Int /\ b \in Int /\ b >= 0
  BY <1>1, SumType
<1> HIDE DEF a, b, c
<1>4. a <= c
  BY <1>2, <1>3
<1>5. QED
  BY <1>4 DEF a, c

\* Nothing but zeros adds up to zero.
LEMMA SumOfZeros ==
    ASSUME NEW S, IsFiniteSet(S), NEW f, \A x \in S : f[x] = 0
    PROVE  SumFunctionOnSet(f, S) = 0
<1> DEFINE Good == {T \in SUBSET S : SumFunctionOnSet(f, T) = 0}
<1>1. ASSUME NEW T \in SUBSET S, \A U \in SUBSET T : U # T => U \in Good
      PROVE  T \in Good
  <2>1. CASE T = {}
    BY <2>1, SumEmpty
  <2>2. CASE T # {}
    <3>1. IsFiniteSet(T)
      BY FS_Subset
    <3>2. /\ Chosen(T) \in T /\ Others(T) \in SUBSET T /\ Others(T) # T
          /\ SumFunctionOnSet(f, T) = f[Chosen(T)] + SumFunctionOnSet(f, Others(T))
      BY <2>2, <3>1, SumUnfold
    <3>3. SumFunctionOnSet(f, Others(T)) = 0 /\ f[Chosen(T)] = 0
      BY <1>1, <3>2
    <3>4. QED
      BY <3>2, <3>3
  <2>3. QED
    BY <2>1, <2>2
<1>2. S \in Good
  <2> HIDE DEF Good
  <2>1. QED
    BY <1>1, SubsetInduction
<1>3. QED
  BY <1>2

\* Multiplication distributes over a sum.  The solver does not multiply variables
\* unaided.
LEMMA Distributes ==
    ASSUME NEW r \in Int, NEW x \in Int, NEW y \in Int
    PROVE  r * (x + y) = r * x + r * y
BY Z3

\* If no term is raised by more than c, the sum is raised by no more than that
\* for each of the terms.
LEMMA SumRaised ==
    ASSUME NEW S, IsFiniteSet(S), NEW f, NEW g, NEW c \in Int,
           \A x \in S : f[x] \in Int /\ g[x] \in Int /\ g[x] <= f[x] + c
    PROVE  SumFunctionOnSet(g, S) <= SumFunctionOnSet(f, S) + c * Cardinality(S)
<1> DEFINE Good == {T \in SUBSET S : SumFunctionOnSet(g, T)
                                       <= SumFunctionOnSet(f, T) + c * Cardinality(T)}
<1>1. ASSUME NEW T \in SUBSET S, \A U \in SUBSET T : U # T => U \in Good
      PROVE  T \in Good
  <2>1. CASE T = {}
    <3>1. Cardinality(T) = 0 /\ SumFunctionOnSet(g, T) = 0 /\ SumFunctionOnSet(f, T) = 0
      BY <2>1, SumEmpty, FS_EmptySet
    <3>2. QED
      BY <3>1
  <2>2. CASE T # {}
    <3> DEFINE af == f[Chosen(T)]
               ag == g[Chosen(T)]
               bf == SumFunctionOnSet(f, Others(T))
               bg == SumFunctionOnSet(g, Others(T))
               cf == SumFunctionOnSet(f, T)
               cg == SumFunctionOnSet(g, T)
               k == Cardinality(Others(T))
               n == Cardinality(T)
    <3>1. IsFiniteSet(T)
      BY FS_Subset
    <3>2. /\ Chosen(T) \in T /\ Others(T) \in SUBSET T /\ Others(T) # T
          /\ cf = af + bf /\ cg = ag + bg
      BY <2>2, <3>1, SumUnfold
    <3>3. IsFiniteSet(Others(T)) /\ (\A x \in Others(T) : f[x] \in Int /\ g[x] \in Int)
      BY <3>1, <3>2, FS_Subset
    <3>4. bf \in Int /\ bg \in Int /\ k \in Int
      BY <3>3, SumType, FS_CardinalityType
    <3>5. n \in Int /\ k = n - 1
      BY <3>1, <3>2, FS_CardinalityType, FS_RemoveElement DEF Others
    <3>6. bg <= bf + c * k /\ ag <= af + c /\ af \in Int /\ ag \in Int
      BY <1>1, <3>2
    <3> HIDE DEF af, ag, bf, bg, cf, cg, k, n
    <3>7. c * n = c * k + c * 1
      <4>1. n = k + 1
        BY <3>4, <3>5
      <4>2. QED
        BY <3>4, <4>1, Distributes
    <3>8. c * n \in Int /\ c * k \in Int /\ c * 1 = c
      BY <3>4, <3>5
    <3>9. cg <= cf + c * n
      BY <3>2, <3>4, <3>6, <3>7, <3>8
    <3>10. QED
      BY <3>9 DEF cf, cg, n
  <2>3. QED
    BY <2>1, <2>2
<1>2. S \in Good
  <2> HIDE DEF Good
  <2>1. QED
    BY <1>1, SubsetInduction
<1>3. QED
  BY <1>2
=============================================================================
