-------------------------- MODULE GreedySolverProofs --------------------------
(***************************************************************************)
(* Theorems about GreedySolver, for every horizon, portfolio, capacity and *)
(* intensity.                                                              *)
(***************************************************************************)
EXTENDS GreedySolver, FiniteSetTheorems, TLAPS

(***************************************************************************)
(* Sums over finite sets.  Induction on a finite set is the choice of a    *)
(* smallest subset that would be a counterexample.                         *)
(***************************************************************************)
LEMMA SmallestSubset ==
  ASSUME NEW S, NEW Bad, Bad \subseteq FiniteSubsetsOf(S), Bad # {}
  PROVE  \E U \in Bad : \A V \in Bad : V \subseteq U => V = U
<1>1. IsWellFoundedOn(StrictSubsetOrdering(S), FiniteSubsetsOf(S))
  BY FS_StrictSubsetOrderingWellFounded
<1>2. PICK U \in Bad : \A V \in Bad : <<V, U>> \notin StrictSubsetOrdering(S)
  BY <1>1, WFMin
<1>3. ASSUME NEW V \in Bad, V \subseteq U, V # U
      PROVE  FALSE
  <2>1. <<V, U>> \in (SUBSET S) \X (SUBSET S)
    BY DEF FiniteSubsetsOf
  <2>2. <<V, U>> \in StrictSubsetOrdering(S)
    BY <1>3, <2>1 DEF StrictSubsetOrdering
  <2> QED
    BY <1>2, <2>2
<1> QED
  BY <1>3

\* The recursion the fold is defined by, and the element it takes first.
First(s) == CHOOSE x \in s : TRUE

Unfolded(f, iter, s) == IF s = {} THEN 0 ELSE f[First(s)] + iter[s \ {First(s)}]

SumsUp(f, iter, S) == iter = [s \in SUBSET S |-> Unfolded(f, iter, s)]

LEMMA SumIsChosen ==
  ASSUME NEW f, NEW S
  PROVE  SumFunctionOnSet(f, S) = (CHOOSE iter : SumsUp(f, iter, S))[S]
BY DEF SumFunctionOnSet, FoldFunctionOnSet, MapThenFoldSet, SumsUp, Unfolded, First

\* Two functions that satisfy the recursion are the same.
LEMMA SumUnique ==
  ASSUME NEW f, NEW S, IsFiniteSet(S), NEW g, NEW h, SumsUp(f, g, S), SumsUp(f, h, S)
  PROVE  g = h
<1> DEFINE Bad == {s \in SUBSET S : g[s] # h[s]}
<1>1. CASE Bad = {}
  <2>1. \A s \in SUBSET S : g[s] = h[s]
    BY <1>1
  <2>2. /\ g = [s \in SUBSET S |-> Unfolded(f, g, s)]
        /\ h = [s \in SUBSET S |-> Unfolded(f, h, s)]
    BY DEF SumsUp
  <2> QED
    BY <2>1, <2>2
<1>2. CASE Bad # {}
  <2>1. Bad \subseteq FiniteSubsetsOf(S)
    BY FS_Subset DEF FiniteSubsetsOf
  <2>2. PICK U \in Bad : \A V \in Bad : V \subseteq U => V = U
    <3> HIDE DEF Bad
    <3> QED
      BY <1>2, <2>1, SmallestSubset
  <2>3. g[U] = Unfolded(f, g, U) /\ h[U] = Unfolded(f, h, U)
    BY DEF SumsUp
  <2>4. U # {}
    BY <2>2, <2>3 DEF Unfolded
  <2>5. First(U) \in U
    BY <2>4 DEF First
  <2>6. g[U \ {First(U)}] = h[U \ {First(U)}]
    BY <2>2, <2>5
  <2> QED
    BY <2>2, <2>3, <2>6 DEF Unfolded
<1> QED
  BY <1>1, <1>2

\* So the recursion holds of the sums themselves, as soon as it holds of all smaller ones.
Sum(f, S) == SumFunctionOnSet(f, S)

Recurs(f, S) == Sum(f, S) = IF S = {} THEN 0 ELSE f[First(S)] + Sum(f, S \ {First(S)})

LEMMA SumRecursUp ==
  ASSUME NEW f, NEW S, IsFiniteSet(S), \A T \in SUBSET S : T # S => Recurs(f, T)
  PROVE  Recurs(f, S)
<1> DEFINE total == IF S = {} THEN 0 ELSE f[First(S)] + Sum(f, S \ {First(S)})
           g == [s \in SUBSET S |-> IF s = S THEN total ELSE Sum(f, s)]
<1>1. \A s \in SUBSET S : s # {} => First(s) \in s
  BY DEF First
<1>2. SumsUp(f, g, S)
  <2>1. ASSUME NEW s \in SUBSET S
        PROVE  g[s] = Unfolded(f, g, s)
    <3>1. s # {} => /\ s \ {First(s)} \in SUBSET S
                    /\ s \ {First(s)} # S
                    /\ g[s \ {First(s)}] = Sum(f, s \ {First(s)})
      BY <1>1
    <3>2. CASE s = S
      BY <3>1, <3>2 DEF Unfolded
    <3>3. CASE s # S
      BY <3>1, <3>3 DEF Unfolded, Recurs
    <3> QED
      BY <3>2, <3>3
  <2>2. [s \in SUBSET S |-> g[s]] = [s \in SUBSET S |-> Unfolded(f, g, s)]
    BY <2>1
  <2> QED
    BY <2>2 DEF SumsUp
<1> DEFINE h == CHOOSE iter : SumsUp(f, iter, S)
<1>3. SumsUp(f, h, S)
  BY <1>2
<1>4. h = g
  <2> HIDE DEF g, h
  <2> QED
    BY <1>2, <1>3, SumUnique
<1>5. Sum(f, S) = h[S]
  BY SumIsChosen DEF Sum
<1> QED
  BY <1>4, <1>5 DEF Recurs

LEMMA SumRecurs ==
  ASSUME NEW f, NEW S, IsFiniteSet(S)
  PROVE  Recurs(f, S)
<1> DEFINE Bad == {s \in SUBSET S : ~Recurs(f, s)}
<1>1. CASE Bad = {}
  BY <1>1
<1>2. CASE Bad # {}
  <2>1. Bad \subseteq FiniteSubsetsOf(S)
    BY FS_Subset DEF FiniteSubsetsOf
  <2>2. PICK U \in Bad : \A V \in Bad : V \subseteq U => V = U
    <3> HIDE DEF Bad
    <3> QED
      BY <1>2, <2>1, SmallestSubset
  <2>3. IsFiniteSet(U)
    BY <2>1, <2>2 DEF FiniteSubsetsOf
  <2>4. \A T \in SUBSET U : T # U => Recurs(f, T)
    BY <2>2
  <2> QED
    BY <2>2, <2>3, <2>4, SumRecursUp
<1> QED
  BY <1>1, <1>2

LEMMA SumEmpty ==
  ASSUME NEW f
  PROVE  Sum(f, {}) = 0
BY SumRecurs, FS_EmptySet DEF Recurs

LEMMA SumType ==
  ASSUME NEW S, IsFiniteSet(S), NEW f, \A x \in S : f[x] \in Nat
  PROVE  Sum(f, S) \in Nat
<1> DEFINE Bad == {s \in SUBSET S : Sum(f, s) \notin Nat}
<1>1. CASE Bad = {}
  BY <1>1
<1>2. CASE Bad # {}
  <2>1. Bad \subseteq FiniteSubsetsOf(S)
    BY FS_Subset DEF FiniteSubsetsOf
  <2>2. PICK U \in Bad : \A V \in Bad : V \subseteq U => V = U
    <3> HIDE DEF Bad
    <3> QED
      BY <1>2, <2>1, SmallestSubset
  <2>3. U \subseteq S /\ Recurs(f, U)
    BY <2>1, <2>2, SumRecurs DEF FiniteSubsetsOf
  <2>4. U # {}
    BY <2>2, <2>3 DEF Recurs
  <2>5. First(U) \in U
    BY <2>4 DEF First
  <2>6. Sum(f, U \ {First(U)}) \in Nat
    BY <2>2, <2>3, <2>5
  <2> QED
    BY <2>2, <2>3, <2>4, <2>5, <2>6 DEF Recurs
<1> QED
  BY <1>1, <1>2

\* The order in which the fold takes the elements does not matter.
LEMMA SumRemove ==
  ASSUME NEW S, IsFiniteSet(S), NEW f, \A x \in S : f[x] \in Nat, NEW e \in S
  PROVE  Sum(f, S) = f[e] + Sum(f, S \ {e})
<1> DEFINE Splits(s) == \A x \in s : Sum(f, s) = f[x] + Sum(f, s \ {x})
           Bad == {s \in SUBSET S : ~Splits(s)}
<1>1. CASE Bad = {}
  BY <1>1
<1>2. CASE Bad # {}
  <2>1. Bad \subseteq FiniteSubsetsOf(S)
    BY FS_Subset DEF FiniteSubsetsOf
  <2>2. PICK U \in Bad : \A V \in Bad : V \subseteq U => V = U
    <3> HIDE DEF Bad
    <3> QED
      BY <1>2, <2>1, SmallestSubset
  <2>3. U \subseteq S /\ Recurs(f, U) /\ \A T \in SUBSET U : IsFiniteSet(T)
    BY <2>1, <2>2, SumRecurs, FS_Subset DEF FiniteSubsetsOf
  <2>4. PICK x \in U : Sum(f, U) # f[x] + Sum(f, U \ {x})
    BY <2>2
  <2> DEFINE y == First(U)
  <2>5. y \in U
    BY <2>4 DEF First
  <2>6. Sum(f, U) = f[y] + Sum(f, U \ {y})
    BY <2>3, <2>5 DEF Recurs
  <2>7. x # y
    BY <2>4, <2>6
  <2>8. Splits(U \ {x}) /\ Splits(U \ {y})
    BY <2>2, <2>3, <2>4, <2>5
  <2>9. /\ Sum(f, U \ {y}) = f[x] + Sum(f, (U \ {y}) \ {x})
        /\ Sum(f, U \ {x}) = f[y] + Sum(f, (U \ {x}) \ {y})
    BY <2>4, <2>5, <2>7, <2>8
  <2>10. (U \ {y}) \ {x} = (U \ {x}) \ {y}
    OBVIOUS
  <2>11. f[x] \in Nat /\ f[y] \in Nat /\ Sum(f, (U \ {x}) \ {y}) \in Nat
    <3>1. IsFiniteSet((U \ {x}) \ {y}) /\ \A z \in (U \ {x}) \ {y} : f[z] \in Nat
      BY <2>3
    <3> HIDE DEF y
    <3> QED
      BY <2>3, <2>4, <2>5, <3>1, SumType
  <2> QED
    <3> DEFINE a == f[x]
               b == f[y]
               c == Sum(f, (U \ {x}) \ {y})
    <3>1. a \in Nat /\ b \in Nat /\ c \in Nat
      BY <2>11
    <3>2. /\ Sum(f, U) = b + Sum(f, U \ {y})
          /\ Sum(f, U \ {y}) = a + c
          /\ Sum(f, U \ {x}) = b + c
          /\ Sum(f, U) # a + Sum(f, U \ {x})
      BY <2>4, <2>6, <2>9, <2>10
    <3> HIDE DEF a, b, c, y
    <3> QED
      BY <3>1, <3>2
<1> QED
  BY <1>1, <1>2

LEMMA SumInsert ==
  ASSUME NEW S, IsFiniteSet(S), NEW f, NEW e, e \notin S, \A x \in S \union {e} : f[x] \in Nat
  PROVE  Sum(f, S \union {e}) = Sum(f, S) + f[e]
<1>1. IsFiniteSet(S \union {e})
  BY FS_AddElement
<1>2. Sum(f, S \union {e}) = f[e] + Sum(f, (S \union {e}) \ {e})
  <2> DEFINE T == S \union {e}
  <2>1. IsFiniteSet(T) /\ e \in T /\ \A x \in T : f[x] \in Nat
    BY <1>1
  <2> HIDE DEF T
  <2>2. Sum(f, T) = f[e] + Sum(f, T \ {e})
    BY <2>1, SumRemove
  <2> QED
    BY <2>2 DEF T
<1>3. (S \union {e}) \ {e} = S
  OBVIOUS
<1>4. Sum(f, S) \in Nat /\ f[e] \in Nat
  BY SumType
<1> QED
  BY <1>2, <1>3, <1>4

LEMMA SumMonotone ==
  ASSUME NEW S, IsFiniteSet(S), NEW f, \A x \in S : f[x] \in Nat, NEW T, T \subseteq S
  PROVE  Sum(f, T) <= Sum(f, S)
<1> DEFINE Bad == {s \in SUBSET S : ~(\A t \in SUBSET s : Sum(f, t) <= Sum(f, s))}
<1>1. CASE Bad = {}
  BY <1>1
<1>2. CASE Bad # {}
  <2>1. Bad \subseteq FiniteSubsetsOf(S)
    BY FS_Subset DEF FiniteSubsetsOf
  <2>2. PICK U \in Bad : \A V \in Bad : V \subseteq U => V = U
    <3> HIDE DEF Bad
    <3> QED
      BY <1>2, <2>1, SmallestSubset
  <2>3. U \subseteq S /\ IsFiniteSet(U) /\ \A t \in SUBSET U : Sum(f, t) \in Nat
    <3>1. U \subseteq S /\ IsFiniteSet(U)
      BY <2>1, <2>2 DEF FiniteSubsetsOf
    <3> QED
      BY <3>1, FS_Subset, SumType
  <2>4. PICK t \in SUBSET U : ~(Sum(f, t) <= Sum(f, U))
    BY <2>2
  <2>5. t # U
    BY <2>3, <2>4
  <2>6. PICK x \in U : x \notin t
    BY <2>5
  <2>7. Sum(f, t) <= Sum(f, U \ {x})
    BY <2>2, <2>6
  <2>8. Sum(f, U) = f[x] + Sum(f, U \ {x})
    BY <2>3, <2>6, SumRemove
  <2> QED
    BY <2>3, <2>4, <2>6, <2>7, <2>8
<1> QED
  BY <1>1, <1>2

\* The sum of the smaller terms is the smaller sum.
LEMMA SumPointwise ==
  ASSUME NEW S, IsFiniteSet(S), NEW f, NEW g, \A x \in S : f[x] \in Nat /\ g[x] \in Nat /\ f[x] <= g[x]
  PROVE  Sum(f, S) <= Sum(g, S)
<1> DEFINE Bad == {s \in SUBSET S : ~(Sum(f, s) <= Sum(g, s))}
<1>1. CASE Bad = {}
  BY <1>1
<1>2. CASE Bad # {}
  <2>1. Bad \subseteq FiniteSubsetsOf(S)
    BY FS_Subset DEF FiniteSubsetsOf
  <2>2. PICK U \in Bad : \A V \in Bad : V \subseteq U => V = U
    <3> HIDE DEF Bad
    <3> QED
      BY <1>2, <2>1, SmallestSubset
  <2>3. U \subseteq S /\ Recurs(f, U) /\ Recurs(g, U) /\ IsFiniteSet(U)
    BY <2>1, <2>2, SumRecurs DEF FiniteSubsetsOf
  <2>4. U # {}
    BY <2>2, <2>3 DEF Recurs
  <2> DEFINE x == First(U)
             V == U \ {First(U)}
  <2>5. x \in U
    BY <2>4 DEF First
  <2>6. Sum(f, V) <= Sum(g, V)
    BY <2>2, <2>3, <2>5
  <2>7. Sum(f, V) \in Nat /\ Sum(g, V) \in Nat
    <3>1. IsFiniteSet(V) /\ \A y \in V : f[y] \in Nat /\ g[y] \in Nat
      BY <2>3, FS_Subset
    <3> HIDE DEF V
    <3> QED
      BY <3>1, SumType
  <2>8. f[x] \in Nat /\ g[x] \in Nat /\ f[x] <= g[x]
    BY <2>3, <2>5
  <2>9. Sum(f, U) = f[x] + Sum(f, V) /\ Sum(g, U) = g[x] + Sum(g, V)
    BY <2>3, <2>4 DEF Recurs
  <2>10. ~(Sum(f, U) <= Sum(g, U))
    BY <2>2
  <2> HIDE DEF x, V
  <2> QED
    BY <2>6, <2>7, <2>8, <2>9, <2>10
<1> QED
  BY <1>1, <1>2

-----------------------------------------------------------------------------
(***************************************************************************)
(* Processes, blocks and their totals.                                     *)
(***************************************************************************)
LEMMA ProcessType ==
  ASSUME TypeOK, NEW p \in Procs
  PROVE  /\ Load(p) \in Nat
         /\ Duration(p) \in Nat \ {0}
         /\ StartLo(p) \in Nat /\ request[p].earliest \in Int
         /\ StartLo(p) >= request[p].earliest
         /\ StartHi(p) = Horizon - Duration(p)
         /\ \A s \in Nat : s >= request[p].earliest => s >= StartLo(p)
<1>1. /\ request[p].load \in Nat /\ request[p].duration \in Nat
      /\ request[p].earliest \in Int
  BY SolverAssumption DEF TypeOK, Requests
<1>2. \A i, j \in Int : /\ Max({i, j}) \in {i, j}
                        /\ Max({i, j}) >= i /\ Max({i, j}) >= j
  <2> TAKE i, j \in Int
  <2>1. \E m \in {i, j} : \A n \in {i, j} : m >= n
    BY i >= j \/ j >= i
  <2> QED
    BY <2>1 DEF Max
<1>3. Duration(p) \in {1, request[p].duration} /\ Duration(p) >= 1
  <2> DEFINE d == request[p].duration
  <2>1. d \in Int
    BY <1>1
  <2> HIDE DEF d
  <2>2. Max({1, d}) \in {1, d} /\ Max({1, d}) >= 1
    BY <1>2, <2>1
  <2> QED
    BY <2>2 DEF Duration, d
<1>4. StartLo(p) \in {0, request[p].earliest} /\ StartLo(p) >= 0 /\ StartLo(p) >= request[p].earliest
  <2> DEFINE e == request[p].earliest
  <2>1. e \in Int
    BY <1>1
  <2> HIDE DEF e
  <2>2. Max({0, e}) \in {0, e} /\ Max({0, e}) >= 0 /\ Max({0, e}) >= e
    BY <1>2, <2>1
  <2> QED
    BY <2>2 DEF StartLo, e
<1> QED
  BY <1>1, <1>3, <1>4 DEF Load, StartHi

LEMMA BlockInHorizon ==
  ASSUME TypeOK, NEW p \in Procs, NEW s \in Nat
  PROVE  /\ s \in Block(p, s) /\ Block(p, s) \subseteq Nat /\ IsFiniteSet(Block(p, s))
         /\ Block(p, s) \subseteq Windows <=> s <= StartHi(p)
<1>1. Duration(p) \in Nat \ {0} /\ StartHi(p) = Horizon - Duration(p) /\ Horizon \in Nat
  BY ProcessType, SolverAssumption
<1>2. IsFiniteSet(Block(p, s))
  BY <1>1, FS_Interval DEF Block
<1>3. s \in Block(p, s) /\ Block(p, s) \subseteq Nat /\ s + Duration(p) - 1 \in Block(p, s)
  BY <1>1 DEF Block
<1>4. s <= StartHi(p) => Block(p, s) \subseteq Windows
  BY <1>1 DEF Block, Windows
<1>5. s + Duration(p) - 1 \in Windows => s <= StartHi(p)
  BY <1>1 DEF Windows
<1> QED
  BY <1>2, <1>3, <1>4, <1>5

LEMMA TotalType ==
  ASSUME TypeOK, NEW B, B \subseteq Windows, IsFiniteSet(B)
  PROVE  Total(B) \in Nat
<1>1. \A w \in B : intensity[w] \in Nat
  BY SolverAssumption DEF TypeOK
<1> QED
  BY <1>1, SumType DEF Total, Sum

LEMMA DrawnFacts ==
  ASSUME TypeOK, NEW S, S \subseteq Procs
  PROVE  /\ Drawn(S) \in Nat
         /\ \A T \in SUBSET S : Drawn(T) <= Drawn(S)
         /\ \A p \in Procs \ S : Drawn(S \union {p}) = Drawn(S) + Load(p)
         /\ Drawn({}) = 0
<1> DEFINE load == [p \in Procs |-> Load(p)]
<1>1. IsFiniteSet(S) /\ \A p \in Procs : load[p] \in Nat /\ load[p] = Load(p)
  BY SolverAssumption, FS_Subset, ProcessType
<1>2. \A T : Drawn(T) = Sum(load, T)
  BY DEF Drawn, Sum
<1> HIDE DEF load
<1>3. Sum(load, S) \in Nat
  BY <1>1, SumType
<1>4. \A T \in SUBSET S : Sum(load, T) <= Sum(load, S)
  BY <1>1, SumMonotone
<1>5. ASSUME NEW p \in Procs \ S
      PROVE  Sum(load, S \union {p}) = Sum(load, S) + Load(p)
  <2>1. p \notin S /\ \A x \in S \union {p} : load[x] \in Nat
    BY <1>1
  <2>2. Sum(load, S \union {p}) = Sum(load, S) + load[p]
    BY <1>1, <2>1, SumInsert
  <2> QED
    BY <1>1, <2>2
<1> QED
  BY <1>2, <1>3, <1>4, <1>5, SumEmpty

\* The candidates of a process are starts whose blocks lie inside the horizon.
LEMMA CandidateBlocks ==
  ASSUME TypeOK, NEW p \in Procs, NEW s \in Candidates(p, remaining)
  PROVE  /\ s \in Nat /\ s \in Windows /\ StartLo(p) <= s
         /\ Block(p, s) \subseteq Windows /\ Total(Block(p, s)) \in Nat
         /\ \A w \in Block(p, s) : remaining[w] >= Load(p)
<1>1. /\ s \in StartLo(p) .. StartHi(p) /\ Fits(p, s, remaining)
  BY DEF Candidates
<1>2. s \in Nat /\ StartLo(p) <= s /\ s <= StartHi(p)
  BY <1>1, ProcessType, SolverAssumption
<1> QED
  BY <1>1, <1>2, BlockInHorizon, TotalType DEF Fits

\* A set of numbers that is not empty has a least element.
LEMMA LeastExists ==
  ASSUME NEW N, N \subseteq Nat, N # {}
  PROVE  \E m \in N : \A n \in N : m <= n
<1>1. PICK m \in N : \A n \in N : <<n, m>> \notin OpToRel(<, Nat)
  BY NatLessThanWellFounded, WFMin
<1>2. ASSUME NEW n \in N
      PROVE  m <= n
  <2>1. m \in Nat /\ n \in Nat /\ <<n, m>> \in Nat \X Nat
    OBVIOUS
  <2>2. ~(n < m)
    BY <1>1, <2>1 DEF OpToRel
  <2> QED
    BY <2>1, <2>2
<1> QED
  BY <1>2

LEMMA CheapestIsLeast ==
  ASSUME TypeOK, NEW p \in Procs, Candidates(p, remaining) # {}
  PROVE  /\ Cheapest(p, Candidates(p, remaining)) \in Candidates(p, remaining)
         /\ \A t \in Candidates(p, remaining) :
              Total(Block(p, Cheapest(p, Candidates(p, remaining)))) <= Total(Block(p, t))
<1> DEFINE C == Candidates(p, remaining)
           totals == {Total(Block(p, t)) : t \in C}
<1>1. \A t \in C : t \in Nat /\ Total(Block(p, t)) \in Nat
  BY CandidateBlocks
<1>2. PICK m \in totals : \A n \in totals : m <= n
  <2>1. totals \subseteq Nat /\ totals # {}
    BY <1>1
  <2> HIDE DEF totals
  <2> QED
    BY <2>1, LeastExists
<1> DEFINE D == {t \in C : Total(Block(p, t)) = m}
<1>3. PICK s \in D : \A t \in D : s <= t
  <2>1. D \subseteq Nat /\ D # {}
    BY <1>1, <1>2
  <2> HIDE DEF D
  <2> QED
    BY <2>1, LeastExists
<1>4. ASSUME NEW t \in C
      PROVE  \/ Total(Block(p, s)) < Total(Block(p, t))
             \/ Total(Block(p, s)) = Total(Block(p, t)) /\ s <= t
  <2>1. m <= Total(Block(p, t)) /\ m = Total(Block(p, s))
    BY <1>2, <1>3
  <2> QED
    BY <1>1, <1>3, <2>1
<1>5. s \in C
  BY <1>3
<1> HIDE DEF C, D
<1>6. /\ Cheapest(p, C) \in C
      /\ \A t \in C : \/ Total(Block(p, Cheapest(p, C))) < Total(Block(p, t))
                      \/ /\ Total(Block(p, Cheapest(p, C))) = Total(Block(p, t))
                         /\ Cheapest(p, C) <= t
  BY <1>4, <1>5 DEF Cheapest
<1> QED
  BY <1>1, <1>6 DEF C

-----------------------------------------------------------------------------
(***************************************************************************)
(* The inductive invariant.  What is left of a window's capacity is        *)
(* exactly what the placed processes do not draw; the loop has reached no  *)
(* process that is lighter than one it has still to reach.                 *)
(***************************************************************************)
Accounted == \A w \in Windows : remaining[w] + Drawn(Running(w)) = capacity[w]

StillToDo == /\ \A p \in todo : start[p] = None /\ p \notin unscheduled
             /\ \A p \in unscheduled : start[p] = None
             /\ Procs = todo \union unscheduled \union Placed

HeaviestFirst == \A p \in Placed, q \in todo : Load(q) <= Load(p)

PlacedInside == \A p \in Placed : /\ StartLo(p) <= start[p]
                                 /\ Block(p, start[p]) \subseteq Windows

Inv == /\ TypeOK
       /\ StillToDo /\ HeaviestFirst /\ Accounted /\ PlacedInside
       /\ UnscheduledCannotFit /\ NoSingleMoveImproves /\ LossNeedsContention

LEMMA RunningType ==
  ASSUME NEW w
  PROVE  Running(w) \subseteq Procs
BY DEF Running, Placed

LEMMA InitInv ==
  ASSUME Init
  PROVE  Inv
<1>1. TypeOK
  BY SolverAssumption DEF Init, TypeOK
<1>2. Placed = {} /\ \A w : Running(w) = {}
  BY DEF Init, Placed, Running
<1>3. Accounted
  <2>1. \A w \in Windows : remaining[w] = capacity[w] /\ capacity[w] \in Nat
    BY SolverAssumption DEF Init
  <2> QED
    BY <1>1, <1>2, <2>1, DrawnFacts DEF Accounted
<1>4. StillToDo /\ HeaviestFirst /\ PlacedInside
  BY <1>2 DEF Init, StillToDo, HeaviestFirst, PlacedInside
<1>5. UnscheduledCannotFit /\ NoSingleMoveImproves /\ LossNeedsContention
  BY <1>2 DEF Init, UnscheduledCannotFit, NoSingleMoveImproves, LossNeedsContention
<1> QED
  BY <1>1, <1>3, <1>4, <1>5 DEF Inv

\* The input does not change, so neither does what is defined by it alone.
LEMMA InputsKeep ==
  ASSUME UNCHANGED inputs
  PROVE  /\ \A p : /\ Load(p)' = Load(p) /\ StartLo(p)' = StartLo(p) /\ StartHi(p)' = StartHi(p)
                   /\ NoLighter(p)' = NoLighter(p)
         /\ \A p, s : Block(p, s)' = Block(p, s) /\ BlockCarbon(p, s)' = BlockCarbon(p, s)
         /\ \A S : Drawn(S)' = Drawn(S)
BY DEF inputs, Load, Duration, StartLo, StartHi, NoLighter, Block, BlockCarbon, Total, Drawn

(***************************************************************************)
(* A step that reports a process places none.                              *)
(***************************************************************************)
LEMMA ReportKeeps ==
  ASSUME Inv, NEW p \in Procs, Reached(p), Report(p), Feasible(p) = {}
  PROVE  Inv'
<1>1. UNCHANGED <<inputs, start, remaining>> /\ todo' = todo \ {p}
      /\ unscheduled' = unscheduled \union {p}
  BY DEF Report
<1>2. /\ Placed' = Placed
      /\ \A w : Running(w)' = Running(w)
      /\ \A q : Feasible(q)' = Feasible(q)
  <2>1. Placed' = Placed
    BY <1>1 DEF Placed
  <2>2. \A w : Running(w)' = Running(w)
    BY <1>1, <2>1, InputsKeep DEF Running
  <2>3. \A q : Feasible(q)' = Feasible(q)
    BY <1>1, <2>2, InputsKeep DEF Feasible, inputs
  <2> QED
    BY <2>1, <2>2, <2>3
<1>3. TypeOK'
  BY <1>1 DEF Inv, TypeOK, inputs
<1>4. StillToDo' /\ HeaviestFirst' /\ PlacedInside'
  BY <1>1, <1>2, InputsKeep DEF Reached, Inv, StillToDo, HeaviestFirst, PlacedInside
<1>5. Accounted'
  BY <1>1, <1>2, InputsKeep DEF Inv, Accounted, inputs
<1>6. UnscheduledCannotFit'
  BY <1>1, <1>2 DEF Reached, Inv, UnscheduledCannotFit
<1>7. NoSingleMoveImproves'
  BY <1>1, <1>2, InputsKeep DEF Inv, NoSingleMoveImproves
<1>8. LossNeedsContention'
  BY <1>1, <1>2, InputsKeep DEF Inv, LossNeedsContention, inputs
<1> QED
  BY <1>3, <1>4, <1>5, <1>6, <1>7, <1>8 DEF Inv

\* Where a process that has no place could run, there is room for it: it is a candidate.
LEMMA FeasibleIsCandidate ==
  ASSUME Inv, NEW p \in Procs, start[p] = None, NEW s \in Feasible(p)
  PROVE  s \in Candidates(p, remaining)
<1>1. /\ s \in Windows /\ s >= request[p].earliest
      /\ \A w \in Block(p, s) : w \in Windows /\ Drawn(Running(w) \ {p}) + Load(p) <= capacity[w]
  BY DEF Feasible
<1>2. s \in Nat
  BY <1>1, SolverAssumption DEF Windows
<1>3. s \in StartLo(p) .. StartHi(p)
  <2>1. Block(p, s) \subseteq Windows
    BY <1>1
  <2>2. s <= StartHi(p)
    BY <1>2, <2>1, BlockInHorizon DEF Inv
  <2>3. StartLo(p) <= s /\ StartLo(p) \in Int /\ StartHi(p) \in Int
    BY <1>1, <1>2, ProcessType, SolverAssumption DEF Inv
  <2> QED
    BY <1>2, <2>2, <2>3
<1>4. ASSUME NEW w \in Block(p, s)
      PROVE  remaining[w] >= Load(p)
  <2>1. p \notin Running(w)
    BY DEF Running, Placed
  <2>2. Running(w) \ {p} = Running(w)
    BY <2>1
  <2>3. w \in Windows /\ Drawn(Running(w)) + Load(p) <= capacity[w]
    BY <1>1, <2>2
  <2>4. /\ remaining[w] + Drawn(Running(w)) = capacity[w] /\ remaining[w] \in Nat
        /\ Drawn(Running(w)) \in Nat /\ Load(p) \in Nat
    BY <2>3, DrawnFacts, RunningType, ProcessType DEF Inv, Accounted, TypeOK
  <2> QED
    BY <2>3, <2>4
<1> QED
  BY <1>3, <1>4 DEF Candidates, Fits

LEMMA ReportStep ==
  ASSUME Inv, NEW p \in Procs, ReportTooLong(p) \/ ReportNoRoom(p) \/ ReportNoBlock(p)
  PROVE  Inv'
<1>1. Reached(p) /\ Report(p)
  BY DEF ReportTooLong, ReportNoRoom, ReportNoBlock
<1>2. start[p] = None
  BY <1>1 DEF Reached, Inv, StillToDo
<1>3. Candidates(p, remaining) = {}
  <2>1. CASE ReportNoBlock(p)
    BY <2>1 DEF ReportNoBlock
  <2>2. ASSUME TooLong(p) \/ NoRoom(p)
        PROVE  StartLo(p) .. StartHi(p) = {}
    BY <2>2, ProcessType, SolverAssumption DEF TooLong, NoRoom, Inv
  <2> QED
    BY <2>1, <2>2 DEF ReportTooLong, ReportNoRoom, Candidates
<1>4. Feasible(p) = {}
  BY <1>2, <1>3, FeasibleIsCandidate
<1> QED
  BY <1>1, <1>4, ReportKeeps

(***************************************************************************)
(* A step that places a process.                                           *)
(***************************************************************************)
Places(p, s) ==
  /\ p \in todo /\ start[p] = None
  /\ s \in Candidates(p, remaining)
  /\ start' = [start EXCEPT ![p] = s]
  /\ remaining' = [w \in Windows |-> IF w \in Block(p, s) THEN remaining[w] - Load(p)
                                                            ELSE remaining[w]]
  /\ todo' = todo \ {p}
  /\ UNCHANGED <<inputs, unscheduled>>

LEMMA PlaceWhere ==
  ASSUME Inv, NEW p \in Procs, Place(p)
  PROVE  /\ Places(p, Cheapest(p, Candidates(p, remaining)))
         /\ \A t \in Candidates(p, remaining) :
              Total(Block(p, Cheapest(p, Candidates(p, remaining)))) <= Total(Block(p, t))
BY CheapestIsLeast DEF Place, Places, Reached, Inv, StillToDo

\* The others keep their places, and the process runs in its block.
LEMMA PlacedRuns ==
  ASSUME Inv, NEW p \in Procs, NEW s, Places(p, s)
  PROVE  /\ \A q \in Procs : start'[q] = IF q = p THEN s ELSE start[q]
         /\ s # None /\ Placed' = Placed \union {p} /\ p \notin Placed
         /\ \A w : /\ Running(w)' = Running(w) \union (IF w \in Block(p, s) THEN {p} ELSE {})
                   /\ p \notin Running(w)
<1>1. \A q \in Procs : start'[q] = IF q = p THEN s ELSE start[q]
  BY DEF Places, Inv, TypeOK
<1>2. s # None
  BY CandidateBlocks, SolverAssumption DEF Places, Inv
<1>3. Placed' = Placed \union {p} /\ p \notin Placed
  BY <1>1, <1>2 DEF Places, Placed
<1>4. ASSUME NEW w
      PROVE  /\ Running(w)' = Running(w) \union (IF w \in Block(p, s) THEN {p} ELSE {})
             /\ p \notin Running(w)
  <2>1. \A q, t : Block(q, t)' = Block(q, t)
    BY InputsKeep DEF Places
  <2>2. Running(w)' = {q \in Placed' : w \in Block(q, start'[q])}
    BY <2>1 DEF Running
  <2>3. \A q \in Placed : q \in Procs /\ q # p
    BY <1>3 DEF Placed
  <2> QED
    BY <1>1, <1>3, <2>2, <2>3 DEF Running
<1> QED
  BY <1>1, <1>2, <1>3, <1>4

LEMMA PlaceType ==
  ASSUME Inv, NEW p \in Procs, NEW s, Places(p, s)
  PROVE  TypeOK' /\ StillToDo' /\ PlacedInside' /\ Accounted'
<1>1. /\ s \in Windows /\ StartLo(p) <= s /\ Block(p, s) \subseteq Windows
      /\ \A w \in Block(p, s) : remaining[w] >= Load(p)
  BY CandidateBlocks DEF Places, Inv
<1>2. \A w \in Windows : /\ remaining[w] \in Nat /\ Load(p) \in Nat
                         /\ remaining'[w] = IF w \in Block(p, s) THEN remaining[w] - Load(p)
                                                                   ELSE remaining[w]
  BY ProcessType DEF Places, Inv, TypeOK
<1>3. remaining' \in [Windows -> Nat]
  <2>1. \A w \in Windows : remaining'[w] \in Nat
    BY <1>1, <1>2
  <2> QED
    BY <2>1 DEF Places
<1>4. TypeOK'
  BY <1>1, <1>3 DEF Places, inputs, Inv, TypeOK
<1>5. StillToDo'
  <2>1. todo' = todo \ {p} /\ unscheduled' = unscheduled /\ Placed' = Placed \union {p}
    BY PlacedRuns DEF Places
  <2>2. \A q \in todo' \union unscheduled' : start'[q] = None
    BY <2>1, PlacedRuns DEF Places, Inv, StillToDo, TypeOK
  <2> QED
    BY <2>1, <2>2 DEF Inv, StillToDo
<1>6. PlacedInside'
  BY <1>1, PlacedRuns, InputsKeep DEF Places, Inv, PlacedInside, Placed
<1>7. ASSUME NEW w \in Windows
      PROVE  remaining'[w] + Drawn(Running(w))' = capacity'[w]
  <2>1. Running(w)' = Running(w) \union (IF w \in Block(p, s) THEN {p} ELSE {}) /\ p \notin Running(w)
    BY PlacedRuns
  <2>2. /\ capacity'[w] = capacity[w] /\ remaining[w] + Drawn(Running(w)) = capacity[w]
        /\ Drawn(Running(w)) \in Nat
        /\ Drawn(Running(w) \union {p}) = Drawn(Running(w)) + Load(p)
    BY <2>1, RunningType, DrawnFacts DEF Places, inputs, Inv, Accounted
  <2>3. Drawn(Running(w))' = Drawn(Running(w)')
    BY InputsKeep DEF Places
  <2>4. CASE w \in Block(p, s)
    BY <1>2, <2>1, <2>2, <2>3, <2>4
  <2>5. CASE w \notin Block(p, s)
    <3>1. Running(w)' = Running(w)
      BY <2>1, <2>5
    <3> QED
      BY <1>2, <2>2, <2>3, <2>5, <3>1
  <2> QED
    BY <2>4, <2>5
<1> QED
  BY <1>4, <1>5, <1>6, <1>7 DEF Accounted

\* The more is placed, the fewer places are left to the others.
LEMMA FeasibleShrinks ==
  ASSUME Inv, NEW p \in Procs, NEW s, Places(p, s), NEW q \in Procs
  PROVE  Feasible(q)' \subseteq Feasible(q)
<1> SUFFICES ASSUME NEW t \in Feasible(q)'
             PROVE  t \in Feasible(q)
  OBVIOUS
<1>1. /\ t \in Windows /\ t >= request[q].earliest
      /\ \A w \in Block(q, t) : w \in Windows /\ Drawn(Running(w)' \ {q}) + Load(q) <= capacity[w]
  BY InputsKeep DEF Feasible, Places, inputs
<1>2. ASSUME NEW w \in Block(q, t)
      PROVE  Drawn(Running(w) \ {q}) + Load(q) <= capacity[w]
  <2>1. Running(w) \ {q} \in SUBSET (Running(w)' \ {q}) /\ Running(w)' \subseteq Procs
    BY PlacedRuns, RunningType
  <2>2. /\ Drawn(Running(w) \ {q}) <= Drawn(Running(w)' \ {q})
        /\ Drawn(Running(w) \ {q}) \in Nat /\ Drawn(Running(w)' \ {q}) \in Nat
    BY <2>1, DrawnFacts DEF Inv
  <2>3. capacity[w] \in Nat /\ Load(q) \in Nat
    BY <1>1, SolverAssumption, ProcessType DEF Inv, TypeOK
  <2> QED
    BY <1>1, <2>2, <2>3
<1> QED
  BY <1>1, <1>2 DEF Feasible

LEMMA LoadScales ==
  ASSUME NEW k \in Nat, NEW i \in Nat, NEW j \in Nat, i <= j
  PROVE  k * i <= k * j
BY i <= j

LEMMA PlaceStep ==
  ASSUME Inv, NEW p \in Procs, Place(p)
  PROVE  Inv'
<1> DEFINE s == Cheapest(p, Candidates(p, remaining))
<1>1. /\ Places(p, s)
      /\ \A t \in Candidates(p, remaining) : Total(Block(p, s)) <= Total(Block(p, t))
  BY PlaceWhere
<1> HIDE DEF s
<1>2. \A t \in Candidates(p, remaining) :
        Total(Block(p, t)) \in Nat /\ BlockCarbon(p, s) <= BlockCarbon(p, t)
  <2> TAKE t \in Candidates(p, remaining)
  <2>1. Total(Block(p, s)) \in Nat /\ Total(Block(p, t)) \in Nat /\ Load(p) \in Nat
    BY <1>1, CandidateBlocks, ProcessType DEF Places, Inv
  <2> QED
    BY <1>1, <2>1, LoadScales DEF BlockCarbon
<1>3. TypeOK' /\ StillToDo' /\ PlacedInside' /\ Accounted'
  BY <1>1, PlaceType
<1>4. HeaviestFirst'
  <2>1. \A q \in todo' : q \in todo /\ Load(q) <= Load(p)
    <3>1. \A q \in todo \ {p} : Load(q) < Load(p) \/ Load(q) = Load(p)
      BY DEF Place, Reached, Before
    <3>2. \A q \in todo : Load(q) \in Nat
      BY ProcessType DEF Inv, TypeOK
    <3>3. p \in todo
      BY DEF Place, Reached
    <3> QED
      BY <1>1, <3>1, <3>2, <3>3 DEF Places
  <2>2. \A q : Load(q)' = Load(q)
    BY <1>1, InputsKeep DEF Places
  <2>3. \A q \in todo' : \A r \in Placed' : Load(q) <= Load(r)
    BY <1>1, <2>1, PlacedRuns DEF Inv, HeaviestFirst
  <2> QED
    BY <2>2, <2>3 DEF HeaviestFirst
<1>5. UnscheduledCannotFit'
  <2>1. \A q \in unscheduled : q \in Procs /\ Feasible(q)' = {}
    BY <1>1, FeasibleShrinks DEF Inv, TypeOK, UnscheduledCannotFit
  <2> QED
    BY <1>1, <1>3, <2>1 DEF Places, StillToDo, UnscheduledCannotFit
<1>6. NoSingleMoveImproves'
  <2> SUFFICES ASSUME NEW q \in Placed', NEW t \in Feasible(q)'
               PROVE  BlockCarbon(q, start'[q]) <= BlockCarbon(q, t)
    BY <1>1, InputsKeep DEF NoSingleMoveImproves, Places
  <2>1. q \in Procs /\ t \in Feasible(q)
    BY <1>1, FeasibleShrinks DEF Placed
  <2>2. CASE q = p
    <3>1. start[p] = None
      BY <1>1 DEF Places
    <3> QED
      BY <1>1, <1>2, <2>1, <2>2, <3>1, FeasibleIsCandidate, PlacedRuns
  <2>3. CASE q # p
    BY <1>1, <2>1, <2>3, PlacedRuns DEF Inv, NoSingleMoveImproves
  <2> QED
    BY <2>2, <2>3
<1>7. LossNeedsContention'
  <2> SUFFICES ASSUME NEW q \in Placed', BlockCarbon(q, start'[q]) > BlockCarbon(q, StartLo(q))
               PROVE  \E w \in Block(q, StartLo(q)) :
                        Drawn(Running(w)' \intersect NoLighter(q)) + Load(q) > capacity[w]
    BY <1>1, InputsKeep DEF LossNeedsContention, Places, inputs
  <2>1. q \in Procs /\ \A w : Running(w) \subseteq Running(w)' /\ Running(w)' \subseteq Procs
    BY <1>1, PlacedRuns, RunningType DEF Placed
  <2>2. StartLo(q) \in Nat /\ Load(q) \in Nat
    BY <2>1, ProcessType DEF Inv
  <2>3. \A w, S : S \subseteq Running(w)' \intersect NoLighter(q) =>
                   /\ Drawn(S) <= Drawn(Running(w)' \intersect NoLighter(q))
                   /\ Drawn(S) \in Nat /\ Drawn(Running(w)' \intersect NoLighter(q)) \in Nat
    BY <2>1, DrawnFacts DEF Inv
  <2>4. CASE q = p
    <3>1. StartLo(p) \in StartLo(p) .. StartHi(p)
      BY <2>2, <2>4, ProcessType, SolverAssumption DEF Place, NoRoom, TooLong, Inv
    <3>2. StartLo(p) \notin Candidates(p, remaining)
      <4>1. start'[p] = s
        BY <1>1, PlacedRuns
      <4>2. Total(Block(p, s)) \in Nat
        BY <1>1, CandidateBlocks DEF Places, Inv
      <4> QED
        BY <1>2, <2>2, <2>4, <4>1, <4>2 DEF BlockCarbon
    <3>3. PICK w \in Block(p, StartLo(p)) : ~(remaining[w] >= Load(p))
      BY <3>1, <3>2 DEF Candidates, Fits
    <3>4. w \in Windows
      <4>1. StartLo(p) <= StartHi(p)
        BY <3>1
      <4> QED
        BY <2>2, <2>4, <4>1, BlockInHorizon DEF Inv
    <3>5. Running(w) \subseteq Running(w)' \intersect NoLighter(p)
      <4>1. \A r \in Running(w) : r \in Placed /\ r \in Procs /\ r # p
        BY <1>1, PlacedRuns DEF Running, Placed
      <4>2. \A r \in Placed : Load(p) <= Load(r)
        BY DEF Place, Reached, Inv, HeaviestFirst
      <4> QED
        BY <2>1, <2>2, <2>4, <4>1, <4>2, ProcessType DEF NoLighter, Inv
    <3>6. remaining[w] + Drawn(Running(w)) = capacity[w] /\ remaining[w] \in Nat /\ capacity[w] \in Nat
      BY <3>4, SolverAssumption DEF Inv, Accounted, TypeOK
    <3>7. Drawn(Running(w)) + Load(p) > capacity[w]
      <4>1. Drawn(Running(w)) \in Nat
        BY <2>3, <2>4, <3>5
      <4> HIDE DEF Load
      <4> QED
        BY <2>2, <2>4, <3>3, <3>4, <3>6, <4>1
    <3> QED
      BY <2>2, <2>3, <2>4, <3>3, <3>5, <3>6, <3>7
  <2>5. CASE q # p
    <3>1. q \in Placed /\ start'[q] = start[q]
      BY <1>1, <2>1, <2>5, PlacedRuns
    <3>2. PICK w \in Block(q, StartLo(q)) :
            Drawn(Running(w) \intersect NoLighter(q)) + Load(q) > capacity[w]
      BY <3>1 DEF Inv, LossNeedsContention
    <3>3. Running(w) \intersect NoLighter(q) \subseteq Running(w)' \intersect NoLighter(q)
      BY <2>1
    <3>4. w \in Windows
      <4>1. start[q] \in Nat /\ StartLo(q) <= start[q] /\ start[q] <= StartHi(q)
        <5>1. start[q] \in Nat
          BY <2>1, <3>1, SolverAssumption DEF Inv, TypeOK, Placed, Windows
        <5> QED
          BY <2>1, <3>1, <5>1, BlockInHorizon DEF Inv, PlacedInside
      <4>2. StartLo(q) <= StartHi(q)
        BY <2>1, <2>2, <4>1, ProcessType, SolverAssumption DEF Inv
      <4> QED
        BY <2>1, <2>2, <4>2, BlockInHorizon DEF Inv
    <3>5. capacity[w] \in Nat
      BY <3>4, SolverAssumption DEF Inv, TypeOK
    <3> QED
      BY <2>2, <2>3, <3>2, <3>3, <3>5
  <2> QED
    BY <2>4, <2>5
<1> QED
  BY <1>3, <1>4, <1>5, <1>6, <1>7 DEF Inv

LEMMA InvStep == Inv /\ [Next]_vars => Inv'
<1> SUFFICES ASSUME Inv, [Next]_vars
             PROVE  Inv'
  OBVIOUS
<1>1. ASSUME NEW p \in Procs, ReportTooLong(p) \/ ReportNoRoom(p) \/ ReportNoBlock(p)
      PROVE  Inv'
  BY <1>1, ReportStep
<1>2. ASSUME NEW p \in Procs, Place(p)
      PROVE  Inv'
  BY <1>2, PlaceStep
<1>3. CASE UNCHANGED vars
  <2>1. UNCHANGED inputs /\ UNCHANGED <<todo, remaining, start, unscheduled>>
    BY <1>3 DEF vars
  <2>2. /\ Placed' = Placed
        /\ \A w : Running(w)' = Running(w)
        /\ \A p : Feasible(p)' = Feasible(p)
    <3>1. Placed' = Placed
      BY <2>1 DEF Placed
    <3>2. \A w : Running(w)' = Running(w)
      BY <2>1, <3>1, InputsKeep DEF Running
    <3> QED
      BY <2>1, <3>1, <3>2, InputsKeep DEF Feasible, inputs
  <2>3. TypeOK' /\ StillToDo' /\ HeaviestFirst' /\ PlacedInside' /\ UnscheduledCannotFit'
    BY <2>1, <2>2, InputsKeep
       DEF Inv, inputs, TypeOK, StillToDo, HeaviestFirst, PlacedInside, UnscheduledCannotFit
  <2>4. Accounted' /\ NoSingleMoveImproves' /\ LossNeedsContention'
    BY <2>1, <2>2, InputsKeep DEF Inv, inputs, Accounted, NoSingleMoveImproves, LossNeedsContention
  <2> QED
    BY <2>3, <2>4 DEF Inv
<1> QED
  BY <1>1, <1>2, <1>3 DEF Next

(***************************************************************************)
(* The results.                                                            *)
(***************************************************************************)

\* Every state the loop of solve reaches satisfies the inductive invariant.
THEOREM Invariance == Spec => []Inv
<1>1. Init => Inv
  BY InitInv
<1>2. Inv /\ [Next]_vars => Inv'
  BY InvStep
<1> QED
  BY <1>1, <1>2, PTL DEF Spec

\* The loop never takes more than a window has: the remaining capacity stays a
\* natural number, and a start is always an index of the horizon.
THEOREM TypeCorrect == Spec => []TypeOK
<1>1. Inv => TypeOK
  BY DEF Inv
<1> QED
  BY <1>1, Invariance, PTL

\* FR-OPT-2 and FR-OPT-3, for every portfolio and every capacity: a placed process
\* has its whole block inside the horizon and not before its earliest start, and
\* the processes that share a window never draw more than its capacity together.
THEOREM NoOverdraw == Spec => []ScheduleIsFeasible
<1>1. Inv => ScheduleIsFeasible
  <2> SUFFICES ASSUME Inv
               PROVE  ScheduleIsFeasible
    OBVIOUS
  <2>1. ASSUME NEW w \in Windows
        PROVE  Drawn(Running(w)) <= capacity[w]
    <3>1. /\ remaining[w] + Drawn(Running(w)) = capacity[w]
          /\ remaining[w] \in Nat /\ Drawn(Running(w)) \in Nat
      BY RunningType, DrawnFacts DEF Inv, Accounted, TypeOK
    <3> QED
      BY <3>1
  <2> QED
    BY <2>1 DEF Inv, PlacedInside, ScheduleIsFeasible
<1> QED
  BY <1>1, Invariance, PTL

\* FR-OPT-5: solve reports a process unscheduled only when no block would take it,
\* and what is placed after the report never makes that answer wrong.
THEOREM NoFalseRefusal == Spec => []UnscheduledCannotFit
<1>1. Inv => UnscheduledCannotFit
  BY DEF Inv
<1> QED
  BY <1>1, Invariance, PTL

\* FR-OPT-1: no placed process could move alone to a block of less carbon, although
\* solve places each one without looking at those that come after it.
THEOREM NoRegret == Spec => []NoSingleMoveImproves
<1>1. Inv => NoSingleMoveImproves
  BY DEF Inv
<1> QED
  BY <1>1, Invariance, PTL

\* FR-OPT-6, as far as the code keeps it: a process is given a block worse than its
\* baseline only when processes at least as heavy leave no room for it there.
THEOREM LossIsContention == Spec => []LossNeedsContention
<1>1. Inv => LossNeedsContention
  BY DEF Inv
<1> QED
  BY <1>1, Invariance, PTL

-----------------------------------------------------------------------------
(***************************************************************************)
(* FR-OPT-6 promises that no saving is negative, which contention for      *)
(* capacity refutes.  What follows is the case in which the promise holds: *)
(* every window could take the whole portfolio at once, as when solve is   *)
(* called with flexible_capacity_mw=None.                                  *)
(***************************************************************************)
Ample == \A w \in Windows : Drawn(Procs) <= capacity[w]

Legal(p) == StartLo(p) .. StartHi(p)

\* No legal choice of a start for each process of the plan costs less in all.
PlanIsCheapest ==
  \A place \in [Placed -> Nat] :
     (\A p \in Placed : place[p] \in Legal(p)) => OptimizedCarbon <= PlanCarbon(place)

\* Only a process that is longer than what its earliest start leaves is refused.
OnlyTooLongRefused == \A p \in unscheduled : Legal(p) = {}

LEMMA AmpleLegalIsFeasible ==
  ASSUME Inv, Ample, NEW p \in Procs, NEW s \in Legal(p)
  PROVE  s \in Feasible(p)
<1>1. s \in Nat /\ s >= StartLo(p) /\ s <= StartHi(p)
  BY ProcessType, SolverAssumption DEF Legal, Inv
<1>2. s >= request[p].earliest
  <2>1. StartLo(p) >= request[p].earliest
    BY ProcessType DEF Inv
  <2> QED
    BY <1>1, <2>1, ProcessType DEF Inv
<1>3. Block(p, s) \subseteq Windows /\ s \in Windows
  BY <1>1, BlockInHorizon DEF Inv
<1>4. ASSUME NEW w \in Block(p, s)
      PROVE  Drawn(Running(w) \ {p}) + Load(p) <= capacity[w]
  <2> DEFINE others == Running(w) \ {p}
  <2>1. others \subseteq Procs /\ p \in Procs \ others /\ others \union {p} \in SUBSET Procs
    BY RunningType
  <2> HIDE DEF others
  <2>2. Drawn(others \union {p}) = Drawn(others) + Load(p)
    BY <2>1, DrawnFacts DEF Inv
  <2>3. Drawn(others \union {p}) <= Drawn(Procs)
    BY <2>1, DrawnFacts DEF Inv
  <2>4. Drawn(others \union {p}) \in Nat /\ Drawn(Procs) \in Nat
    BY <2>1, DrawnFacts DEF Inv
  <2>5. Drawn(Procs) <= capacity[w] /\ capacity[w] \in Nat
    BY <1>3, SolverAssumption DEF Ample, Inv, TypeOK
  <2> QED
    BY <2>2, <2>3, <2>4, <2>5 DEF others
<1> QED
  BY <1>2, <1>3, <1>4 DEF Feasible

LEMMA BlockCarbonType ==
  ASSUME TypeOK, NEW p \in Procs, NEW s \in Legal(p)
  PROVE  BlockCarbon(p, s) \in Nat
<1>1. s \in Nat /\ s <= StartHi(p) /\ Load(p) \in Nat
  BY ProcessType, SolverAssumption DEF Legal
<1>2. Total(Block(p, s)) \in Nat
  BY <1>1, BlockInHorizon, TotalType
<1> QED
  BY <1>1, <1>2 DEF BlockCarbon

\* A process of the plan starts where it may, and nowhere legal is cheaper for it.
LEMMA AmplePlaced ==
  ASSUME Inv, Ample, NEW p \in Placed
  PROVE  /\ p \in Procs /\ start[p] \in Legal(p) /\ StartLo(p) \in Legal(p)
         /\ \A s \in Legal(p) : BlockCarbon(p, start[p]) <= BlockCarbon(p, s)
<1>1. p \in Procs /\ start[p] \in Nat
  BY SolverAssumption DEF Inv, TypeOK, Placed, Windows
<1>2. StartLo(p) <= start[p] /\ start[p] <= StartHi(p)
  BY <1>1, BlockInHorizon DEF Inv, PlacedInside
<1>3. start[p] \in Legal(p) /\ StartLo(p) \in Legal(p)
  BY <1>1, <1>2, ProcessType, SolverAssumption DEF Legal, Inv
<1>4. \A s \in Legal(p) : BlockCarbon(p, start[p]) <= BlockCarbon(p, s)
  BY <1>1, AmpleLegalIsFeasible DEF Inv, NoSingleMoveImproves
<1> QED
  BY <1>1, <1>3, <1>4

LEMMA AmpleCheapest ==
  ASSUME Inv, Ample, NEW place, \A p \in Placed : place[p] \in Legal(p)
  PROVE  /\ OptimizedCarbon <= PlanCarbon(place)
         /\ OptimizedCarbon \in Nat /\ PlanCarbon(place) \in Nat
<1> DEFINE f == [p \in Placed |-> BlockCarbon(p, start[p])]
           g == [p \in Placed |-> BlockCarbon(p, place[p])]
<1>1. IsFiniteSet(Placed)
  BY SolverAssumption, FS_Subset DEF Placed
<1>2. \A p \in Placed : f[p] \in Nat /\ g[p] \in Nat /\ f[p] <= g[p]
  <2> SUFFICES ASSUME NEW p \in Placed
               PROVE  f[p] \in Nat /\ g[p] \in Nat /\ f[p] <= g[p]
    OBVIOUS
  <2>1. p \in Procs /\ start[p] \in Legal(p) /\ place[p] \in Legal(p) /\ TypeOK
    BY AmplePlaced DEF Inv
  <2>2. BlockCarbon(p, start[p]) \in Nat /\ BlockCarbon(p, place[p]) \in Nat
    BY <2>1, BlockCarbonType
  <2> QED
    BY <2>1, <2>2, AmplePlaced
<1>3. OptimizedCarbon = Sum(f, Placed) /\ PlanCarbon(place) = Sum(g, Placed)
  BY DEF OptimizedCarbon, PlanCarbon, SumFunction, Sum
<1> HIDE DEF f, g
<1>4. Sum(f, Placed) \in Nat /\ Sum(g, Placed) \in Nat /\ Sum(f, Placed) <= Sum(g, Placed)
  BY <1>1, <1>2, SumType, SumPointwise
<1> QED
  BY <1>3, <1>4

\* With room for the whole portfolio in every window the greedy loop of solve is
\* optimal, whatever the portfolio: it refuses only what no legal start fits, no
\* other schedule of the processes it placed emits less, and the saving against the
\* run-as-early-as-possible baseline is never negative.
THEOREM AmpleIsOptimal ==
  Spec => [](Ample => PlanIsCheapest /\ OnlyTooLongRefused /\ SavingNeverNegative)
<1>1. Inv => (Ample => PlanIsCheapest /\ OnlyTooLongRefused /\ SavingNeverNegative)
  <2> SUFFICES ASSUME Inv, Ample
               PROVE  PlanIsCheapest /\ OnlyTooLongRefused /\ SavingNeverNegative
    OBVIOUS
  <2>1. PlanIsCheapest
    BY AmpleCheapest DEF PlanIsCheapest
  <2>2. OnlyTooLongRefused
    BY AmpleLegalIsFeasible DEF OnlyTooLongRefused, Inv, UnscheduledCannotFit, TypeOK
  <2>3. SavingNeverNegative
    <3> DEFINE earliest == [p \in Procs |-> StartLo(p)]
    <3>1. \A p \in Placed : earliest[p] \in Legal(p)
      BY AmplePlaced
    <3>2. BaselineCarbon = PlanCarbon(earliest)
      BY DEF BaselineCarbon
    <3> HIDE DEF earliest
    <3> QED
      BY <3>1, <3>2, AmpleCheapest DEF SavingNeverNegative, CarbonSaved
  <2> QED
    BY <2>1, <2>2, <2>3
<1> QED
  BY <1>1, Invariance, PTL
=============================================================================
