----------------------------- MODULE ScreenProofs -----------------------------
(***************************************************************************)
(* The theorems about Screen: for every dashboard Load accepts, every      *)
(* snapshot and every terminal, the solver divides the rows of the frame   *)
(* as its order of importance says and loses none, and what there is room  *)
(* for is drawn.                                                           *)
(*                                                                         *)
(* The first part is about sums over finite sets, of which the solver's    *)
(* books are made: SumFunctionOnSet takes the elements in an order CHOOSE  *)
(* picks, and what the solver needs is that the order does not matter.     *)
(***************************************************************************)
EXTENDS Screen, FiniteSetTheorems, TLAPS

-------------------------------------------------------------------------------
(* Sums over finite sets *)

\* A set of subsets of a finite set that has every subset of which it has all the
\* smaller ones, has them all.
LEMMA SubsetInduction ==
  ASSUME NEW S, IsFiniteSet(S), NEW Good \in SUBSET SUBSET S,
         \A T \in SUBSET S : (\A U \in SUBSET T : U # T => U \in Good) => T \in Good
  PROVE  \A T \in SUBSET S : T \in Good
<1> DEFINE D == SUBSET S
           R == StrictSubsetOrdering(S)
           Bad == D \ Good
<1>1. SUFFICES ASSUME Bad # {} PROVE FALSE
  OBVIOUS
<1>2. IsWellFoundedOn(R, D)
  BY FS_FiniteSubsetsOfFinite, FS_StrictSubsetOrderingWellFounded
<1>3. Bad \subseteq D
  OBVIOUS
<1> HIDE DEF Bad, D, R
<1>4. \A T : T \subseteq D /\ T # {} => \E x \in T : \A y \in T : ~(<<y, x>> \in R)
  BY <1>2, WFMin
<1>5. PICK x \in Bad : \A y \in Bad : ~(<<y, x>> \in R)
  BY <1>1, <1>3, <1>4
<1>6. \A y \in Bad : y \subseteq x => y = x
  BY <1>3, <1>5 DEF StrictSubsetOrdering, R, D
<1> QED
  BY <1>3, <1>6 DEF Bad, D

LEMMA LeastNumber ==
  ASSUME NEW S \in SUBSET Nat, S # {}
  PROVE  \E m \in S : \A k \in S : m <= k
<1> DEFINE R == {p \in Nat \X Nat : p[1] < p[2]}
<1>1. R = OpToRel(<, Nat)
  BY DEF OpToRel
<1>2. IsWellFoundedOn(R, Nat)
  BY <1>1, NatLessThanWellFounded
<1>3. \A x, y \in Nat : <<y, x>> \in R <=> y < x
  OBVIOUS
<1> HIDE DEF R
<1>4. PICK x \in S : \A y \in S : ~(<<y, x>> \in R)
  BY <1>2, WFMin, Zenon
<1>5. \A y \in S : ~(y < x) /\ x \in Nat /\ y \in Nat
  BY <1>3, <1>4
<1> QED
  BY <1>5

\* g has the sum over each subset of S, as the definition of the fold computes them.
Tabulates(g, fun, S) ==
    g = [s \in SUBSET S |->
            IF s = {} THEN 0
            ELSE fun[CHOOSE x \in s : TRUE] + g[s \ {CHOOSE x \in s : TRUE}]]

LEMMA TablesAgree ==
  ASSUME NEW S, IsFiniteSet(S), NEW fun, NEW g, NEW h,
         Tabulates(g, fun, S), NEW T \in SUBSET S, Tabulates(h, fun, T)
  PROVE  g[T] = h[T]
<1> DEFINE Good == {s \in SUBSET T : g[s] = h[s]}
           pick(s) == CHOOSE x \in s : TRUE
<1>1. IsFiniteSet(T)
  BY FS_Subset
<1>2. ASSUME NEW s \in SUBSET T, \A u \in SUBSET s : u # s => u \in Good
      PROVE  s \in Good
  <2>1. CASE s = {}
    BY <2>1, Zenon DEF Tabulates
  <2>2. CASE s # {}
    <3>1. pick(s) \in s
      BY <2>2
    <3> HIDE DEF pick
    <3>2. g[s \ {pick(s)}] = h[s \ {pick(s)}]
      BY <1>2, <3>1
    <3>3. /\ g[s] = fun[pick(s)] + g[s \ {pick(s)}]
          /\ h[s] = fun[pick(s)] + h[s \ {pick(s)}]
      BY <2>2, Zenon DEF Tabulates, pick
    <3> QED
      BY <3>2, <3>3
  <2> QED
    BY <2>1, <2>2
<1>3. Good \in SUBSET SUBSET T
  OBVIOUS
<1> HIDE DEF Good
<1>4. \A s \in SUBSET T : s \in Good
  BY <1>1, <1>2, <1>3, SubsetInduction
<1> QED
  BY <1>4 DEF Good

LEMMA TableExists ==
  ASSUME NEW S, IsFiniteSet(S), NEW fun
  PROVE  \E g : Tabulates(g, fun, S)
<1> DEFINE Good == {T \in SUBSET S : \E g : Tabulates(g, fun, T)}
           pick(s) == CHOOSE x \in s : TRUE
           table(T) == CHOOSE g : Tabulates(g, fun, T)
<1>1. ASSUME NEW T \in SUBSET S, \A U \in SUBSET T : U # T => U \in Good
      PROVE  T \in Good
  <2> DEFINE rest(s) == s \ {pick(s)}
             g == [s \in SUBSET T |->
                      IF s = {} THEN 0 ELSE fun[pick(s)] + table(rest(s))[rest(s)]]
  <2>1. \A s \in SUBSET T : s # {} => rest(s) \in SUBSET s /\ rest(s) # s
    OBVIOUS
  <2> HIDE DEF pick, rest
  <2>2. ASSUME NEW U \in SUBSET T, U # T
        PROVE  Tabulates(table(U), fun, U)
    <3>1. \E h : Tabulates(h, fun, U)
      BY <1>1, <2>2 DEF Good
    <3> QED
      BY <3>1, Zenon
  <2> HIDE DEF table
  <2>3. ASSUME NEW s \in SUBSET T, s # {}
        PROVE  g[rest(s)] = table(rest(s))[rest(s)]
    <3> DEFINE u == rest(s)
    <3>1. u \in SUBSET T /\ u # T /\ IsFiniteSet(u)
      BY <2>1, <2>3, FS_Subset
    <3>2. CASE u = {}
      <4>1. table(u)[u] = 0
        BY <2>2, <3>1, <3>2, Zenon DEF Tabulates
      <4> QED
        BY <3>1, <3>2, <4>1
    <3>3. CASE u # {}
      <4>1. rest(u) \in SUBSET u /\ rest(u) # T
        BY <2>1, <3>1, <3>3
      <4> HIDE DEF u
      <4>2. Tabulates(table(u), fun, u) /\ u \in SUBSET u
        BY <2>2, <3>1
      <4> DEFINE tu == table(u)
      <4> HIDE DEF tu
      <4>4. tu[u] = fun[pick(u)] + tu[rest(u)]
        <5>1. Tabulates(tu, fun, u)
          BY <4>2 DEF tu
        <5> QED
          BY <5>1, <4>2, <3>3, Zenon DEF Tabulates, pick, rest
      <4>5. table(u)[u] = fun[pick(u)] + table(u)[rest(u)]
        BY <4>4 DEF tu
      <4>3. table(u)[rest(u)] = table(rest(u))[rest(u)]
        BY <2>2, <3>1, <4>1, TablesAgree
      <4> QED
        BY <2>1, <2>3, <3>1, <3>3, <4>5, <4>3 DEF u
    <3> QED
      BY <3>2, <3>3
  <2>4. \A s \in SUBSET T : g[s] = IF s = {} THEN 0 ELSE fun[pick(s)] + g[rest(s)]
    BY <2>3
  <2>5. Tabulates(g, fun, T)
    BY <2>4, Zenon DEF Tabulates, pick, rest
  <2> QED
    BY <2>5
<1>2. Good \in SUBSET SUBSET S
  OBVIOUS
<1> HIDE DEF Good
<1>3. S \in Good
  BY <1>1, <1>2, SubsetInduction
<1> QED
  BY <1>3 DEF Good

LEMMA SumTable ==
  ASSUME NEW S, IsFiniteSet(S), NEW fun, NEW g, Tabulates(g, fun, S), NEW T \in SUBSET S
  PROVE  SumFunctionOnSet(fun, T) = g[T]
<1> DEFINE table == CHOOSE h : Tabulates(h, fun, T)
<1>1. IsFiniteSet(T)
  BY FS_Subset
<1>2. SumFunctionOnSet(fun, T) = table[T]
  BY Zenon DEF SumFunctionOnSet, FoldFunctionOnSet, MapThenFoldSet, Tabulates
<1>3. Tabulates(table, fun, T)
  BY <1>1, TableExists
<1> QED
  BY <1>2, <1>3, TablesAgree

LEMMA SumEmpty ==
  ASSUME NEW fun
  PROVE  SumFunctionOnSet(fun, {}) = 0
<1>1. PICK g : Tabulates(g, fun, {})
  BY TableExists, FS_EmptySet
<1>2. g[{}] = 0
  BY <1>1, Zenon DEF Tabulates
<1> QED
  BY <1>1, <1>2, SumTable, FS_EmptySet

\* The sum does not depend on the order: any element can be taken out of it.
LEMMA SumTakeOut ==
  ASSUME NEW S, IsFiniteSet(S), NEW fun, \A i \in S : fun[i] \in Nat
  PROVE  /\ SumFunctionOnSet(fun, S) \in Nat
         /\ \A x \in S : SumFunctionOnSet(fun, S) = fun[x] + SumFunctionOnSet(fun, S \ {x})
<1> DEFINE sum(T) == SumFunctionOnSet(fun, T)
           Good == {T \in SUBSET S : /\ sum(T) \in Nat
                                     /\ \A x \in T : sum(T) = fun[x] + sum(T \ {x})}
           pick(s) == CHOOSE x \in s : TRUE
<1>1. PICK g : Tabulates(g, fun, S)
  BY TableExists
<1>2. \A T \in SUBSET S : sum(T) = g[T]
  BY <1>1, SumTable
<1>3. sum({}) = 0
  BY SumEmpty
<1>4. \A T \in SUBSET S : T # {} => sum(T) = fun[pick(T)] + sum(T \ {pick(T)})
  <2>1. \A T \in SUBSET S : T # {} => g[T] = fun[pick(T)] + g[T \ {pick(T)}]
    BY <1>1, Zenon DEF Tabulates
  <2> QED
    BY <1>2, <2>1
<1>5. \A T \in SUBSET S : T # {} => pick(T) \in T
  OBVIOUS
<1> HIDE DEF sum, pick
<1>6. \A T \in SUBSET S : (\A U \in SUBSET T : U # T => U \in Good) => T \in Good
  <2>0. SUFFICES ASSUME NEW T \in SUBSET S, \A U \in SUBSET T : U # T => U \in Good
                 PROVE  T \in Good
    OBVIOUS
  <2>1. CASE T = {}
    BY <1>3, <2>1 DEF Good
  <2>2. CASE T # {}
    <3> DEFINE p == pick(T)
    <3>1. p \in T /\ sum(T) = fun[p] + sum(T \ {p}) /\ sum(T \ {p}) \in Nat
      BY <1>4, <1>5, <2>0, <2>2 DEF Good
    <3>2. ASSUME NEW x \in T, x # p
          PROVE  sum(T) = fun[x] + sum(T \ {x})
      <4>1. /\ sum(T \ {p}) = fun[x] + sum((T \ {p}) \ {x})
            /\ sum(T \ {x}) = fun[p] + sum((T \ {x}) \ {p})
            /\ sum((T \ {x}) \ {p}) \in Nat
        BY <2>0, <3>1, <3>2 DEF Good
      <4>2. (T \ {p}) \ {x} = (T \ {x}) \ {p}
        OBVIOUS
      <4>3. fun[x] \in Nat /\ fun[p] \in Nat
        BY <3>1
      <4> QED
        BY <3>1, <4>1, <4>2, <4>3
    <3> QED
      BY <3>1, <3>2 DEF Good
  <2> QED
    BY <2>1, <2>2
<1>7. Good \in SUBSET SUBSET S
  BY DEF Good
<1> HIDE DEF Good
<1>8. \A T \in SUBSET S : T \in Good
  <2>1. \A G \in SUBSET SUBSET S :
           (\A T \in SUBSET S : (\A U \in SUBSET T : U # T => U \in G) => T \in G)
              => \A T \in SUBSET S : T \in G
    BY SubsetInduction
  <2> QED
    BY <1>6, <1>7, <2>1
<1> QED
  BY <1>8 DEF Good, sum

\* Functions that agree on a set have the same sum over it.
LEMMA SumsAgree ==
  ASSUME NEW S, IsFiniteSet(S), NEW fun, NEW g, \A i \in S : fun[i] \in Nat /\ fun[i] = g[i]
  PROVE  SumFunctionOnSet(fun, S) = SumFunctionOnSet(g, S)
<1> DEFINE f(T) == SumFunctionOnSet(fun, T)
           h(T) == SumFunctionOnSet(g, T)
           Good == {T \in SUBSET S : f(T) = h(T)}
<1>1. f({}) = 0 /\ h({}) = 0
  BY SumEmpty
<1>2. \A T \in SUBSET S : \A x \in T : f(T) = fun[x] + f(T \ {x}) /\ h(T) = g[x] + h(T \ {x})
  BY SumTakeOut, FS_Subset
<1> HIDE DEF f, h
<1>3. \A T \in SUBSET S : (\A U \in SUBSET T : U # T => U \in Good) => T \in Good
  <2>0. SUFFICES ASSUME NEW T \in SUBSET S, \A U \in SUBSET T : U # T => U \in Good
                 PROVE  f(T) = h(T)
    OBVIOUS
  <2>1. CASE T = {}
    BY <1>1, <2>1
  <2>2. CASE T # {}
    <3>1. PICK x \in T : TRUE
      BY <2>2
    <3>2. f(T \ {x}) = h(T \ {x})
      BY <2>0
    <3> QED
      BY <1>2, <3>2
  <2> QED
    BY <2>1, <2>2
<1>4. Good \in SUBSET SUBSET S
  OBVIOUS
<1> HIDE DEF Good
<1>5. S \in Good
  BY <1>3, <1>4, SubsetInduction
<1> QED
  BY <1>5 DEF Good, f, h

\* A sum when one of the addends is another.
LEMMA SumChanged ==
  ASSUME NEW S, IsFiniteSet(S), NEW fun, NEW g, NEW x \in S,
         \A i \in S : fun[i] \in Nat /\ g[i] \in Nat,
         \A i \in S \ {x} : g[i] = fun[i]
  PROVE  SumFunctionOnSet(g, S) = SumFunctionOnSet(fun, S) - fun[x] + g[x]
<1>1. IsFiniteSet(S \ {x})
  BY FS_Subset
<1>2. SumFunctionOnSet(fun, S \ {x}) = SumFunctionOnSet(g, S \ {x})
  BY <1>1, SumsAgree
<1>3. SumFunctionOnSet(fun, S \ {x}) \in Nat
  BY <1>1, SumTakeOut
<1>4. /\ SumFunctionOnSet(fun, S) = fun[x] + SumFunctionOnSet(fun, S \ {x})
      /\ SumFunctionOnSet(g, S) = g[x] + SumFunctionOnSet(g, S \ {x})
  BY SumTakeOut
<1> QED
  BY <1>2, <1>3, <1>4

\* A sum over fewer is no larger.
LEMMA SumMonotone ==
  ASSUME NEW S, IsFiniteSet(S), NEW fun, \A i \in S : fun[i] \in Nat, NEW T \in SUBSET S
  PROVE  SumFunctionOnSet(fun, T) <= SumFunctionOnSet(fun, S)
<1> DEFINE sum(U) == SumFunctionOnSet(fun, U)
           Good == {U \in SUBSET S : \A V \in SUBSET U : sum(V) <= sum(U)}
<1>1. \A U \in SUBSET S : sum(U) \in Nat /\ \A x \in U : sum(U) = fun[x] + sum(U \ {x})
  BY SumTakeOut, FS_Subset
<1> HIDE DEF sum
<1>2. \A U \in SUBSET S : (\A V \in SUBSET U : V # U => V \in Good) => U \in Good
  <2>0. SUFFICES ASSUME NEW U \in SUBSET S, \A V \in SUBSET U : V # U => V \in Good,
                        NEW V \in SUBSET U
                 PROVE  sum(V) <= sum(U)
    OBVIOUS
  <2>1. CASE V = U
    BY <1>1, <2>1
  <2>2. CASE V # U
    <3>1. PICK x \in U : x \notin V
      BY <2>2
    <3>2. sum(V) <= sum(U \ {x})
      BY <2>0, <3>1
    <3>3. sum(U) = fun[x] + sum(U \ {x}) /\ sum(U \ {x}) \in Nat /\ sum(V) \in Nat
      BY <1>1, <3>1
    <3> QED
      BY <3>2, <3>3
  <2> QED
    BY <2>1, <2>2
<1>3. Good \in SUBSET SUBSET S
  OBVIOUS
<1> HIDE DEF Good
<1>4. S \in Good
  BY <1>2, <1>3, SubsetInduction
<1> QED
  BY <1>4 DEF Good, sum

\* A sum of the numbers one larger each.
LEMMA SumPlusOne ==
  ASSUME NEW S, IsFiniteSet(S), NEW fun, NEW g,
         \A i \in S : fun[i] \in Nat /\ g[i] = fun[i] + 1
  PROVE  SumFunctionOnSet(g, S) = SumFunctionOnSet(fun, S) + Cardinality(S)
<1> DEFINE f(T) == SumFunctionOnSet(fun, T)
           h(T) == SumFunctionOnSet(g, T)
           n(T) == Cardinality(T)
           Good == {T \in SUBSET S : h(T) = f(T) + n(T)}
<1>1. f({}) = 0 /\ h({}) = 0 /\ n({}) = 0
  BY SumEmpty, FS_EmptySet
<1>2. ASSUME NEW T \in SUBSET S
      PROVE  /\ f(T) \in Nat /\ h(T) \in Nat /\ n(T) \in Nat
             /\ \A x \in T : /\ f(T) = fun[x] + f(T \ {x})
                             /\ h(T) = g[x] + h(T \ {x})
                             /\ n(T \ {x}) = n(T) - 1
  <2>1. IsFiniteSet(T)
    BY FS_Subset
  <2>2. f(T) \in Nat /\ \A x \in T : f(T) = fun[x] + f(T \ {x})
    BY <2>1, SumTakeOut
  <2>3. h(T) \in Nat /\ \A x \in T : h(T) = g[x] + h(T \ {x})
    BY <2>1, SumTakeOut
  <2>4. n(T) \in Nat /\ \A x \in T : n(T \ {x}) = n(T) - 1
    BY <2>1, FS_RemoveElement, FS_CardinalityType
  <2> QED
    BY <2>2, <2>3, <2>4
<1> HIDE DEF f, h, n
<1>3. \A T \in SUBSET S : (\A U \in SUBSET T : U # T => U \in Good) => T \in Good
  <2>0. SUFFICES ASSUME NEW T \in SUBSET S, \A U \in SUBSET T : U # T => U \in Good
                 PROVE  h(T) = f(T) + n(T)
    OBVIOUS
  <2>1. CASE T = {}
    BY <1>1, <2>1
  <2>2. CASE T # {}
    <3>1. PICK x \in T : TRUE
      BY <2>2
    <3>2. h(T \ {x}) = f(T \ {x}) + n(T \ {x})
      BY <2>0
    <3>3. /\ f(T) = fun[x] + f(T \ {x}) /\ h(T) = g[x] + h(T \ {x}) /\ n(T \ {x}) = n(T) - 1
          /\ f(T \ {x}) \in Nat /\ n(T) \in Nat
      BY <1>2
    <3> QED
      BY <3>2, <3>3
  <2> QED
    BY <2>1, <2>2
<1>4. Good \in SUBSET SUBSET S
  OBVIOUS
<1> HIDE DEF Good
<1>5. S \in Good
  BY <1>3, <1>4, SubsetInduction
<1> QED
  BY <1>5 DEF Good, f, h, n

\* Of finitely many numbers one is the largest.
LEMMA GreatestNumber ==
  ASSUME NEW S, IsFiniteSet(S), S # {}, NEW fun, \A i \in S : fun[i] \in Nat
  PROVE  \E m \in S : \A k \in S : fun[k] <= fun[m]
<1> DEFINE all == SumFunctionOnSet(fun, S)
           short == {n \in Nat : \E k \in S : n = all - fun[k]}
<1>1. all \in Nat /\ \A k \in S : all = fun[k] + SumFunctionOnSet(fun, S \ {k})
  BY SumTakeOut
<1>2. \A k \in S : SumFunctionOnSet(fun, S \ {k}) \in Nat
  BY SumTakeOut, FS_Subset
<1> HIDE DEF all
<1>3. \A k \in S : all - fun[k] \in short
  <2> TAKE k \in S
  <2>1. all = fun[k] + SumFunctionOnSet(fun, S \ {k}) /\ SumFunctionOnSet(fun, S \ {k}) \in Nat
    BY <1>1, <1>2
  <2>2. all - fun[k] \in Nat
    BY <2>1
  <2> QED
    BY <2>2
<1>4. PICK n \in short : \A o \in short : n <= o
  <2>1. short # {} /\ short \in SUBSET Nat
    BY <1>3
  <2> HIDE DEF short
  <2> QED
    BY <2>1, LeastNumber
<1>5. PICK m \in S : n = all - fun[m]
  BY <1>4
<1>6. \A k \in S : all - fun[m] <= all - fun[k]
  BY <1>3, <1>4, <1>5
<1> QED
  BY <1>1, <1>6

-------------------------------------------------------------------------------
(* The inductive invariant *)

Steps == {"drop", "squeeze", "grow", "solved", "refused"}
Given == {"squeeze", "grow", "solved"}

\* The session: an accepted dashboard, and what View has computed of it if a frame is
\* on the screen or being computed.
Session ==
    /\ dash \in Dashboards
    /\ Loads(dash)
    /\ snap \in Snapshots
    /\ size \in [w : Nat, h : Nat]
    /\ view \in {"empty", "refusal", "frame"}
    /\ view = "frame" => /\ specs = Build(dash, snap)
                         /\ rows = size.h - 2 - Rules(specs)
                         /\ size.w - 2 >= dash.minCols
    /\ view = "refusal" => \/ size.w - 2 < dash.minCols
                           \/ size.h - 2 - Rules(Build(dash, snap)) < dash.minRows

\* Solve's arguments.
Asked ==
    /\ specs \in Seq(PanelSpec)
    /\ rows \in Nat
    /\ step \in Steps
    /\ step # "solved" => specs # <<>>
    /\ specs # <<>> => rows >= dash.minRows

\* The panels placed: none that is reserved has been dropped, and the others in order;
\* the last was dropped for want of rows.
Placed ==
    /\ live \subseteq DOMAIN specs
    /\ \A i \in DOMAIN specs : specs[i].reserve => i \in live
    /\ \A d \in DOMAIN specs \ live, i \in live : ~specs[i].reserve => Before(d, i)
    /\ \A d \in DOMAIN specs \ live :
          (\A e \in DOMAIN specs \ live : Before(e, d)) => sumMin(live \cup {d}) > rows

\* The rows given: every panel has its minimum at least, and used is their sum.
Counted ==
    step \in Given =>
        /\ height \in [live -> Nat]
        /\ pending \subseteq live
        /\ used = sumHeight(live)
        /\ \A i \in live : height[i] >= minOf(specs[i])

\* The squeeze takes the panels in order, each down to its minimum before the next.
Squeezing ==
    step = "squeeze" =>
        /\ sumMin(live) <= rows
        /\ \A i \in live : height[i] <= Natural(specs[i])
        /\ \A i \in pending : height[i] = Natural(specs[i])
        /\ \A i \in live \ pending, j \in pending : Before(i, j)
        /\ used > rows => \A i \in live \ pending : height[i] = minOf(specs[i])

\* Who was squeezed has nothing to grow by, and those before it are at their minimum.
Squashed ==
    step \in Given =>
        \A i \in live :
            height[i] < Natural(specs[i]) =>
                /\ used >= rows
                /\ \A j \in live \ {i} : Before(j, i) => height[j] = minOf(specs[j])

\* The growth takes the elastic panels by rank, and leaves rows over only when all it
\* has taken are at their cap.
Growing ==
    step \in {"grow", "solved"} =>
        /\ used <= rows
        /\ used < rows => \A i \in live \ pending : specs[i].elastic > 0 => AtCap(i)
        /\ \A i \in live :
              height[i] > Natural(specs[i]) =>
                  /\ specs[i].max > 0 => height[i] <= specs[i].max
                  /\ \A j \in live : specs[j].elastic > specs[i].elastic => AtCap(j)
        /\ step = "solved" /\ used < rows => \A i \in pending : specs[i].elastic = 0

Refused == step = "refused" => rows >= dash.minRows /\ NothingFits

IInv == /\ Session /\ Asked /\ Placed /\ Counted
        /\ Squeezing /\ Squashed /\ Growing /\ Refused

-------------------------------------------------------------------------------
(* What a panel asks for, and who goes before whom *)

\* What the solver reads of a panel.
LEMMA SpecTypes ==
  ASSUME specs \in Seq(PanelSpec)
  PROVE  /\ IsFiniteSet(DOMAIN specs)
         /\ DOMAIN specs \subseteq Nat \ {0}
         /\ \A i \in DOMAIN specs :
               /\ specs[i].reserve \in BOOLEAN
               /\ specs[i].drop \in Nat /\ specs[i].elastic \in Nat /\ specs[i].max \in Nat
               /\ minOf(specs[i]) \in Nat /\ minOf(specs[i]) > 0
               /\ Natural(specs[i]) \in Nat /\ Natural(specs[i]) >= minOf(specs[i])
<1>1. Len(specs) \in Nat /\ DOMAIN specs = 1 .. Len(specs)
  OBVIOUS
<1>2. \A i \in DOMAIN specs : specs[i] \in PanelSpec
  OBVIOUS
<1>3. IsFiniteSet(1 .. Len(specs))
  BY <1>1, FS_Interval
<1>4. \A s \in PanelSpec :
        /\ s.reserve \in BOOLEAN /\ s.drop \in Nat /\ s.elastic \in Nat /\ s.max \in Nat
        /\ minOf(s) \in Nat /\ minOf(s) > 0
        /\ Natural(s) \in Nat /\ Natural(s) >= minOf(s)
  BY DEF PanelSpec, minOf, Natural
<1> QED
  BY <1>1, <1>2, <1>3, <1>4

\* Of two panels one goes before the other, and only one.
LEMMA BeforeOrders ==
  ASSUME specs \in Seq(PanelSpec)
  PROVE  /\ \A i, j \in DOMAIN specs : Before(i, j) \/ Before(j, i)
         /\ \A i, j \in DOMAIN specs : Before(i, j) /\ Before(j, i) => i = j
BY SpecTypes DEF Before

\* There is a first to go.
LEMMA LeastValuableExists ==
  ASSUME specs \in Seq(PanelSpec), NEW P, P \subseteq DOMAIN specs, P # {}
  PROVE  LeastValuable(P) \in P /\ \A j \in P : Before(LeastValuable(P), j)
<1> DEFINE ranks == {n \in Nat : \E i \in P : n = specs[i].drop}
<1>1. \A i \in P : i \in Nat /\ specs[i].drop \in Nat
  BY SpecTypes
<1>2. PICK n \in ranks : \A m \in ranks : n <= m
  <2>1. ranks \in SUBSET Nat /\ ranks # {}
    BY <1>1
  <2> HIDE DEF ranks
  <2> QED
    BY <2>1, LeastNumber
<1> DEFINE first == {i \in P : specs[i].drop = n}
<1>3. PICK i \in first : \A j \in first : i <= j
  <2>1. first \in SUBSET Nat /\ first # {}
    BY <1>1, <1>2
  <2> HIDE DEF first
  <2> QED
    BY <2>1, LeastNumber
<1>4. \A j \in P : Before(i, j)
  BY <1>1, <1>2, <1>3 DEF Before
<1> QED
  BY <1>3, <1>4 DEF LeastValuable

\* There is one to grow next.
LEMMA BestElasticExists ==
  ASSUME specs \in Seq(PanelSpec), pending \subseteq DOMAIN specs, Elastic # {}
  PROVE  /\ bestElastic \in Elastic
         /\ \A j \in Elastic : specs[bestElastic].elastic >= specs[j].elastic
<1> DEFINE rank == [i \in Elastic |-> specs[i].elastic]
<1>1. \A i \in Elastic : i \in Nat /\ specs[i].elastic \in Nat /\ rank[i] = specs[i].elastic
  BY SpecTypes DEF Elastic
<1>2. PICK m \in Elastic : \A k \in Elastic : rank[k] <= rank[m]
  <2>1. Elastic \in SUBSET DOMAIN specs
    BY DEF Elastic
  <2>2. IsFiniteSet(DOMAIN specs)
    BY SpecTypes
  <2>3. IsFiniteSet(Elastic)
    BY <2>1, <2>2, FS_Subset
  <2>4. \A i \in Elastic : rank[i] \in Nat
    BY <1>1
  <2> HIDE DEF rank
  <2> QED
    BY <2>3, <2>4, GreatestNumber
<1> DEFINE top == {i \in Elastic : specs[i].elastic = specs[m].elastic}
<1>3. PICK i \in top : \A j \in top : i <= j
  <2>1. top \in SUBSET Nat /\ top # {}
    BY <1>1, <1>2
  <2> HIDE DEF top
  <2> QED
    BY <2>1, LeastNumber
<1> DEFINE Best(i_) == \A j \in Elastic : \/ specs[i_].elastic > specs[j].elastic
                                          \/ specs[i_].elastic = specs[j].elastic /\ i_ <= j
<1>4. Best(i)
  BY <1>1, <1>2, <1>3
<1>5. bestElastic \in Elastic /\ Best(bestElastic)
  BY <1>3, <1>4 DEF bestElastic
<1> QED
  BY <1>1, <1>5

\* What a set of panels needs and has: numbers, and the same whatever the step does
\* elsewhere.
LEMMA PanelSums ==
  ASSUME specs \in Seq(PanelSpec), NEW P, P \subseteq DOMAIN specs
  PROVE  /\ IsFiniteSet(P)
         /\ sumMin(P) \in Nat
         /\ sumNatural(P) \in Nat
         /\ \A i \in DOMAIN specs : sumMin({i}) = minOf(specs[i])
<1>1. IsFiniteSet(P)
  BY SpecTypes, FS_Subset
<1>2. sumMin(P) \in Nat
  <2> DEFINE f == [i \in P |-> minOf(specs[i])]
  <2>1. \A i \in P : f[i] \in Nat
    BY SpecTypes
  <2> HIDE DEF f
  <2>2. SumFunctionOnSet(f, P) \in Nat
    BY <1>1, <2>1, SumTakeOut
  <2> QED
    BY <2>2 DEF sumMin, f
<1>3. sumNatural(P) \in Nat
  <2> DEFINE f == [i \in P |-> Natural(specs[i])]
  <2>1. \A i \in P : f[i] \in Nat
    BY SpecTypes
  <2> HIDE DEF f
  <2>2. SumFunctionOnSet(f, P) \in Nat
    BY <1>1, <2>1, SumTakeOut
  <2> QED
    BY <2>2 DEF sumNatural, f
<1>4. ASSUME NEW i \in DOMAIN specs
      PROVE  sumMin({i}) = minOf(specs[i])
  <2> DEFINE f == [j \in {i} |-> minOf(specs[j])]
  <2>1. f[i] = minOf(specs[i]) /\ f[i] \in Nat
    BY SpecTypes
  <2> HIDE DEF f
  <2>2. SumFunctionOnSet(f, {i}) = f[i] + SumFunctionOnSet(f, {i} \ {i})
    BY <2>1, SumTakeOut, FS_Singleton
  <2>3. SumFunctionOnSet(f, {i} \ {i}) = 0
    <3>1. {i} \ {i} = {}
      OBVIOUS
    <3> QED
      BY <3>1, SumEmpty, Zenon
  <2>4. SumFunctionOnSet(f, {i}) = f[i]
    BY <2>1, <2>2, <2>3
  <2> QED
    BY <2>1, <2>4 DEF sumMin, f
<1> QED
  BY <1>1, <1>2, <1>3, <1>4

-------------------------------------------------------------------------------
(* The steps *)

\* What a step that leaves the solver's arguments alone leaves as it was.
LEMMA SameArgs ==
  ASSUME UNCHANGED args
  PROVE  /\ \A P : sumMin(P)' = sumMin(P)
         /\ \A i, j : Before(i, j)' <=> Before(i, j)
         /\ Len(specs)' = Len(specs)
BY DEF args, sumMin, Before

LEMMA SolverKeepsSession ==
  ASSUME Session, UNCHANGED args, UNCHANGED sessionVars
  PROVE  Session'
BY DEF Session, args, sessionVars

\* With no panel at more than its minimum, what is used is what the minimums need.
LEMMA AllAtMinimum ==
  ASSUME Asked, live \subseteq DOMAIN specs, height \in [live -> Nat],
         \A i \in live : height[i] = minOf(specs[i])
  PROVE  sumHeight(live) = sumMin(live)
<1>1. IsFiniteSet(live)
  BY PanelSums DEF Asked
<1> DEFINE f == [i \in live |-> minOf(specs[i])]
<1>2. \A i \in live : height[i] \in Nat /\ height[i] = f[i]
  OBVIOUS
<1> HIDE DEF f
<1>3. SumFunctionOnSet(height, live) = SumFunctionOnSet(f, live)
  BY <1>1, <1>2, SumsAgree
<1> QED
  BY <1>3 DEF sumHeight, sumMin, f

\* A panel that has another height changes what is used by the difference.
LEMMA OneHeight ==
  ASSUME Asked, live \subseteq DOMAIN specs, height \in [live -> Nat],
         NEW i \in live, NEW h \in Nat, live' = live, height' = [height EXCEPT ![i] = h]
  PROVE  sumHeight(live)' = sumHeight(live) - height[i] + h
<1>1. IsFiniteSet(live)
  BY PanelSums DEF Asked
<1> DEFINE g == height'
<1>2. \A j \in live : height[j] \in Nat /\ g[j] \in Nat
  OBVIOUS
<1>3. \A j \in live \ {i} : g[j] = height[j]
  OBVIOUS
<1>4. g[i] = h
  OBVIOUS
<1> HIDE DEF g
<1>5. SumFunctionOnSet(g, live) = SumFunctionOnSet(height, live) - height[i] + g[i]
  BY <1>1, <1>2, <1>3, SumChanged
<1> QED
  BY <1>4, <1>5 DEF sumHeight, g

\* Rows given are a number.
LEMMA HeightSum ==
  ASSUME Asked, live \subseteq DOMAIN specs, height \in [live -> Nat], NEW P \in SUBSET live
  PROVE  /\ sumHeight(P) \in Nat
         /\ sumHeight(P) <= sumHeight(live)
         /\ \A i \in P : sumHeight(P) = height[i] + sumHeight(P \ {i})
<1>1. IsFiniteSet(live) /\ IsFiniteSet(P)
  BY PanelSums DEF Asked
<1>2. \A i \in live : height[i] \in Nat
  OBVIOUS
<1>3. SumFunctionOnSet(height, P) \in Nat
  BY <1>1, <1>2, SumTakeOut
<1>4. \A i \in P : SumFunctionOnSet(height, P) = height[i] + SumFunctionOnSet(height, P \ {i})
  BY <1>1, <1>2, SumTakeOut
<1>5. SumFunctionOnSet(height, P) <= SumFunctionOnSet(height, live)
  BY <1>1, <1>2, SumMonotone
<1> QED
  BY <1>3, <1>4, <1>5 DEF sumHeight

\* A panel dropped comes before those that stay, and was dropped for want of rows.
LEMMA DropKeeps ==
  ASSUME IInv, Drop, UNCHANGED sessionVars
  PROVE  IInv'
<1> USE DEF IInv
<1>1. specs \in Seq(PanelSpec) /\ rows \in Nat /\ live \subseteq DOMAIN specs
  BY DEF Asked, Placed
<1>2. UNCHANGED args /\ UNCHANGED <<specs, rows>>
  BY DEF Drop, args
<1>3. Session'
  BY <1>2, SolverKeepsSession
<1>4. step = "drop" /\ sumMin(live) > rows
  BY DEF Drop
<1>5. CASE Droppable = {}
  <2>1. step' = "refused" /\ UNCHANGED live
    BY <1>5 DEF Drop
  <2>2. Asked'
    BY <1>2, <1>4, <2>1, <1>3 DEF Asked, Steps, Drop, Session, sessionVars
  <2>3. Placed'
    BY <1>2, <2>1, SameArgs DEF Placed
  <2>4. Refused'
    <3> DEFINE reserved == {i \in DOMAIN specs : specs[i].reserve}
    <3>1. live = reserved
      BY <1>1, <1>5 DEF Placed, Droppable
    <3>2. reserved # {}
      BY <3>1 DEF Drop
    <3>3. rows >= dash.minRows
      BY <1>4 DEF Asked
    <3>4. sumMin(reserved)' > rows'
      BY <1>2, <1>4, <3>1, SameArgs
    <3> QED
      BY <1>2, <3>2, <3>3, <3>4 DEF Refused, NothingFits, sessionVars
  <2> QED
    BY <1>3, <2>1, <2>2, <2>3, <2>4 DEF Counted, Squeezing, Squashed, Growing, Given
<1>6. CASE Droppable # {}
  <2> DEFINE d == LeastValuable(Droppable)
  <2>1. d \in Droppable /\ \A i \in Droppable : Before(d, i)
    BY <1>1, <1>6, LeastValuableExists DEF Droppable
  <2>2. live' = live \ {d} /\ step' = step
    BY <1>6 DEF Drop
  <2> HIDE DEF d
  <2>3. d \in live /\ ~specs[d].reserve /\ d \in DOMAIN specs
    BY <1>1, <2>1 DEF Droppable
  <2>4. Asked'
    BY <1>2, <2>2 DEF Asked, sessionVars
  <2>5. Placed'
    <3>1. live' \subseteq DOMAIN specs /\ \A i \in DOMAIN specs : specs[i].reserve => i \in live'
      BY <1>1, <2>2, <2>3 DEF Placed
    <3>2. \A e \in DOMAIN specs \ live', i \in live' : ~specs[i].reserve => Before(e, i)
      BY <2>1, <2>2 DEF Placed, Droppable
    <3>3. ASSUME NEW e \in DOMAIN specs \ live', \A o \in DOMAIN specs \ live' : Before(o, e)
          PROVE  sumMin(live' \cup {e}) > rows
      <4>1. e = d
        <5>1. Before(d, e)
          BY <2>2, <2>3, <3>3
        <5>2. e \in live \/ Before(e, d)
          BY <2>3, <3>3 DEF Placed
        <5> QED
          BY <1>1, <2>2, <2>3, <3>3, <5>1, <5>2, BeforeOrders
      <4>2. live' \cup {d} = live
        BY <2>2, <2>3
      <4> QED
        BY <1>4, <4>1, <4>2
    <3> QED
      BY <1>2, <3>1, <3>2, <3>3, SameArgs DEF Placed
  <2> QED
    BY <1>3, <1>4, <2>2, <2>4, <2>5
       DEF Counted, Squeezing, Squashed, Growing, Given, Refused, NothingFits
<1> QED
  BY <1>5, <1>6

\* What stays is given the height it would like.
LEMMA DroppedKeeps ==
  ASSUME IInv, Dropped, UNCHANGED sessionVars
  PROVE  IInv'
<1> USE DEF IInv
<1>1. specs \in Seq(PanelSpec) /\ rows \in Nat /\ live \subseteq DOMAIN specs
  BY DEF Asked, Placed
<1>2. UNCHANGED args /\ UNCHANGED <<specs, rows>> /\ UNCHANGED live
  BY DEF Dropped, args
<1>3. Session'
  BY <1>2, SolverKeepsSession
<1>4. step = "drop" /\ step' \in {"refused", "squeeze"}
  BY DEF Dropped
<1>5. Asked'
  BY <1>2, <1>4 DEF Asked, Steps, sessionVars
<1>6. Placed'
  BY <1>2, SameArgs DEF Placed
<1>7. CASE live = {}
  <2>1. step' = "refused"
    BY <1>7 DEF Dropped
  <2>2. {i \in DOMAIN specs : specs[i].reserve} = {}
    BY <1>7 DEF Placed
  <2>3. \A i \in DOMAIN specs :
          (\A j \in DOMAIN specs : Before(j, i)) => minOf(specs[i]) > rows
    <3> SUFFICES ASSUME NEW i \in DOMAIN specs, \A j \in DOMAIN specs : Before(j, i)
                 PROVE  minOf(specs[i]) > rows
      OBVIOUS
    <3>1. sumMin(live \cup {i}) > rows
      BY <1>7 DEF Placed
    <3>2. live \cup {i} = {i}
      BY <1>7
    <3> QED
      BY <1>1, <3>1, <3>2, PanelSums
  <2>4. Refused'
    BY <1>2, <1>4, <2>2, <2>3, SameArgs DEF Refused, NothingFits, Asked, sessionVars
  <2> QED
    BY <1>3, <1>5, <1>6, <2>1, <2>4 DEF Counted, Squeezing, Squashed, Growing, Given
<1>8. CASE live # {}
  <2>1. /\ step' = "squeeze"
        /\ height' = [i \in live |-> Natural(specs[i])]
        /\ used' = sumNatural(live)
        /\ pending' = live
        /\ sumMin(live) <= rows
    BY <1>8 DEF Dropped
  <2>2. \A i \in live : /\ height'[i] = Natural(specs[i])
                        /\ Natural(specs[i]) \in Nat
                        /\ Natural(specs[i]) >= minOf(specs[i])
    BY <1>1, <2>1, SpecTypes
  <2>3. used' = sumHeight(live)'
    BY <1>2, <2>1 DEF sumHeight, sumNatural
  <2>4. Counted'
    BY <1>2, <2>1, <2>2, <2>3 DEF Counted
  <2>5. Squeezing'
    BY <1>2, <2>1, <2>2, SameArgs DEF Squeezing
  <2>6. Squashed'
    BY <1>1, <1>2, <2>1, <2>2, SpecTypes DEF Squashed
  <2> QED
    BY <1>3, <1>5, <1>6, <2>1, <2>4, <2>5, <2>6 DEF Growing, Refused, NothingFits
<1> QED
  BY <1>7, <1>8

\* The squeeze takes rows from the first to go, and from the next only when the first
\* is at its minimum.
LEMMA SqueezeKeeps ==
  ASSUME IInv, Squeeze, UNCHANGED sessionVars
  PROVE  IInv'
<1> USE DEF IInv
<1> DEFINE i == LeastValuable(pending)
           slack == height[i] - minOf(specs[i])
           take == IF used - rows > slack THEN slack ELSE used - rows
<1>1. /\ specs \in Seq(PanelSpec) /\ rows \in Nat /\ live \subseteq DOMAIN specs
      /\ step = "squeeze" /\ used > rows /\ pending # {}
      /\ height \in [live -> Nat] /\ pending \subseteq live /\ used = sumHeight(live)
  BY DEF Squeeze, Asked, Placed, Counted, Given
<1>2. UNCHANGED args /\ UNCHANGED <<specs, rows>> /\ UNCHANGED live /\ UNCHANGED step
  BY DEF Squeeze, args
<1>3. i \in pending /\ \A j \in pending : Before(i, j)
  BY <1>1, LeastValuableExists
<1>4. /\ height' = [height EXCEPT ![i] = @ - take]
      /\ used' = used - take
      /\ pending' = pending \ {i}
  BY DEF Squeeze
<1>5. Session' /\ Asked' /\ Placed'
  BY <1>2, SolverKeepsSession, SameArgs DEF Asked, Placed, sessionVars
<1> HIDE DEF i
<1>6. /\ i \in live /\ height[i] = Natural(specs[i])
      /\ minOf(specs[i]) \in Nat /\ height[i] \in Nat /\ height[i] >= minOf(specs[i])
  BY <1>1, <1>3, SpecTypes DEF Squeezing
<1>7. used \in Nat
  BY <1>1, HeightSum
<1>8. /\ take \in Nat /\ height[i] - take \in Nat /\ height[i] - take >= minOf(specs[i])
      /\ used - take >= rows
      /\ used - take > rows => height[i] - take = minOf(specs[i])
  <2> HIDE DEF IInv
  <2>1. slack \in Nat /\ used - rows \in Nat
    BY <1>1, <1>6, <1>7
  <2>2. CASE used - rows > slack
    BY <1>1, <1>6, <1>7, <2>1, <2>2
  <2>3. CASE ~(used - rows > slack)
    <3>1. take = used - rows
      BY <2>3
    <3>2. slack = height[i] - minOf(specs[i]) /\ used - rows <= slack
      BY <2>1, <2>3
    <3> HIDE DEF take, slack
    <3>3. used - take = rows
      BY <1>1, <1>7, <2>1, <3>1
    <3>4. take \in Nat /\ take <= height[i] - minOf(specs[i])
      BY <2>1, <3>1, <3>2
    <3>5. \A h, m, t \in Nat : t <= h - m => h - t \in Nat /\ h - t >= m
      OBVIOUS
    <3>6. height[i] - take \in Nat /\ height[i] - take >= minOf(specs[i])
      BY <1>6, <3>4, <3>5
    <3> QED
      BY <1>1, <3>3, <3>4, <3>6
  <2> QED
    BY <2>2, <2>3
<1> HIDE DEF take
<1>9. /\ height' \in [live -> Nat]
      /\ height'[i] = height[i] - take
      /\ \A j \in live \ {i} : height'[j] = height[j]
  BY <1>1, <1>4, <1>6, <1>8
<1>10. \A j \in pending : height[j] = Natural(specs[j])
  BY <1>1 DEF Squeezing
<1>11. \A j \in live : /\ minOf(specs[j]) \in Nat /\ Natural(specs[j]) \in Nat
                       /\ height[j] \in Nat
  BY <1>1, SpecTypes
<1>12. Counted'
  <2>1. used' = sumHeight(live)'
    <3>1. height' = [height EXCEPT ![i] = height[i] - take]
      BY <1>1, <1>4, <1>6
    <3>2. sumHeight(live)' = sumHeight(live) - height[i] + (height[i] - take)
      BY <1>1, <1>2, <1>6, <1>8, <3>1, OneHeight
    <3> QED
      BY <1>1, <1>4, <1>6, <1>7, <1>8, <3>2
  <2>2. \A j \in live : height'[j] >= minOf(specs[j])
    BY <1>1, <1>6, <1>8, <1>9 DEF Counted, Given
  <2>3. pending' \subseteq live'
    BY <1>1, <1>2, <1>4
  <2>4. height' \in [live' -> Nat]
    BY <1>2, <1>9
  <2>5. \A j \in live' : height'[j] >= minOf(specs'[j])
    BY <1>2, <2>2
  <2> HIDE DEF IInv
  <2> QED
    BY <2>1, <2>3, <2>4, <2>5 DEF Counted
<1>13. Squeezing'
  <2>1. \A j \in live : height'[j] <= Natural(specs[j])
    <3>1. \A j \in live : height[j] <= Natural(specs[j])
      BY <1>1 DEF Squeezing
    <3> HIDE DEF IInv
    <3>2. height'[i] <= height[i] /\ height'[i] \in Nat
      BY <1>6, <1>8, <1>9
    <3> QED
      BY <1>6, <1>9, <1>11, <3>1, <3>2
  <2>2. \A j \in pending' : height'[j] = Natural(specs[j])
    BY <1>1, <1>4, <1>9, <1>10
  <2>3. \A j \in live \ pending', k \in pending' : Before(j, k)
    BY <1>1, <1>3, <1>4 DEF Squeezing
  <2>4. used' > rows => \A j \in live \ pending' : height'[j] = minOf(specs[j])
    BY <1>1, <1>4, <1>8, <1>9 DEF Squeezing
  <2>5. sumMin(live) <= rows
    BY <1>1 DEF Squeezing
  <2> QED
    BY <1>2, <2>1, <2>2, <2>3, <2>4, <2>5, SameArgs DEF Squeezing
<1>14. Squashed'
  <2>1. used' >= rows
    BY <1>4, <1>8
  <2>2. ASSUME NEW j \in live, height'[j] < Natural(specs[j]),
               NEW k \in live \ {j}, Before(k, j)
        PROVE  height'[k] = minOf(specs[k])
    <3>1. CASE j = i
      <4>1. k \notin pending
        BY <1>1, <1>3, <2>2, <3>1, BeforeOrders
      <4>2. height[k] = minOf(specs[k])
        BY <1>1, <4>1 DEF Squeezing
      <4> QED
        BY <1>9, <2>2, <3>1, <4>2
    <3>2. CASE j # i
      <4>1. height[j] < Natural(specs[j]) /\ j \notin pending
        BY <1>9, <1>10, <1>11, <2>2, <3>2
      <4>2. k # i
        BY <1>1, <1>3, <2>2, <3>2, <4>1, BeforeOrders DEF Squeezing
      <4>3. height[k] = minOf(specs[k])
        BY <1>1, <2>2, <4>1 DEF Squashed, Given
      <4> QED
        BY <1>9, <4>2, <4>3
    <3> QED
      BY <3>1, <3>2
  <2> QED
    BY <1>2, <2>1, <2>2, SameArgs DEF Squashed
<1>15. Growing' /\ Refused'
  BY <1>1, <1>2 DEF Growing, Refused, NothingFits
<1> QED
  BY <1>5, <1>12, <1>13, <1>14, <1>15

\* The squeeze ends with the heights within the rows: were all at their minimum and too
\* many still, another would have been dropped.
LEMMA SqueezedKeeps ==
  ASSUME IInv, Squeezed, UNCHANGED sessionVars
  PROVE  IInv'
<1> USE DEF IInv
<1>1. /\ specs \in Seq(PanelSpec) /\ rows \in Nat /\ live \subseteq DOMAIN specs
      /\ step = "squeeze" /\ height \in [live -> Nat] /\ used = sumHeight(live)
      /\ sumMin(live) <= rows
  BY DEF Squeezed, Asked, Placed, Counted, Squeezing, Given
<1>2. /\ UNCHANGED args /\ UNCHANGED <<specs, rows, live, height, used>>
      /\ step' = "grow" /\ pending' = live
  BY DEF Squeezed, args
<1>3. used <= rows
  <2>1. CASE used <= rows
    BY <2>1
  <2>2. CASE pending = {} /\ used > rows
    <3>1. \A i \in live : height[i] = minOf(specs[i])
      BY <1>1, <2>2 DEF Squeezing
    <3>2. sumHeight(live) = sumMin(live)
      BY <1>1, <3>1, AllAtMinimum
    <3> QED
      BY <1>1, <3>2
  <2>3. used \in Nat
    BY <1>1, HeightSum
  <2> QED
    BY <1>1, <2>1, <2>2, <2>3 DEF Squeezed
<1>4. Session' /\ Asked' /\ Placed'
  BY <1>1, <1>2, SolverKeepsSession, SameArgs DEF Asked, Placed, sessionVars, Steps
<1>5. Counted'
  BY <1>1, <1>2 DEF Counted, Given, sumHeight
<1>6. Squashed'
  BY <1>1, <1>2, SameArgs DEF Squashed, Given
<1>7. Growing'
  <2>1. \A i \in live : height[i] <= Natural(specs[i]) /\ height[i] \in Nat
                        /\ Natural(specs[i]) \in Nat
    BY <1>1, SpecTypes DEF Squeezing
  <2> QED
    BY <1>2, <1>3, <2>1 DEF Growing
<1> QED
  BY <1>2, <1>4, <1>5, <1>6, <1>7 DEF Squeezing, Refused, NothingFits

\* The growth gives what is left to the elastic panel of the highest rank, up to its cap;
\* while any is left nobody was squeezed.
LEMMA GrowKeeps ==
  ASSUME IInv, Grow, UNCHANGED sessionVars
  PROVE  IInv'
<1> USE DEF IInv
<1>1. /\ specs \in Seq(PanelSpec) /\ rows \in Nat /\ live \subseteq DOMAIN specs
      /\ step = "grow" /\ used < rows /\ Elastic # {}
      /\ height \in [live -> Nat] /\ pending \subseteq live /\ used = sumHeight(live)
  BY DEF Grow, Asked, Placed, Counted, Given
<1>2. bestElastic \in Elastic /\ \A j \in Elastic : specs[bestElastic].elastic >= specs[j].elastic
  BY <1>1, BestElasticExists
<1>3. PICK b : b = bestElastic
  OBVIOUS
<1> DEFINE room == Room(b)
<1>4. /\ UNCHANGED args /\ UNCHANGED <<specs, rows>> /\ UNCHANGED live /\ UNCHANGED step
      /\ pending' = pending \ {b}
      /\ IF room > 0
         THEN height' = [height EXCEPT ![b] = @ + room] /\ used' = used + room
         ELSE UNCHANGED <<height, used>>
  BY <1>3 DEF Grow, args
<1>5. b \in live /\ b \in pending /\ specs[b].elastic > 0
  BY <1>1, <1>2, <1>3 DEF Elastic
<1>6. /\ used \in Nat
      /\ \A i \in live : /\ height[i] \in Nat /\ minOf(specs[i]) \in Nat
                         /\ Natural(specs[i]) \in Nat /\ Natural(specs[i]) >= minOf(specs[i])
                         /\ specs[i].elastic \in Nat /\ specs[i].max \in Nat
  BY <1>1, HeightSum, SpecTypes
<1>7. /\ room \in Int /\ room <= rows - used
      /\ room < rows - used => specs[b].max > 0 /\ height[b] + room = specs[b].max
      /\ specs[b].max > 0 => height[b] + room <= specs[b].max
  BY <1>1, <1>5, <1>6 DEF Room
<1> HIDE DEF room
<1> DEFINE given == IF room > 0 THEN room ELSE 0
<1>8. /\ given \in Nat /\ used' = used + given
      /\ height' \in [live -> Nat]
      /\ height'[b] = height[b] + given
      /\ \A j \in live \ {b} : height'[j] = height[j]
  <2>1. CASE room > 0
    <3>1. height' = [height EXCEPT ![b] = height[b] + room] /\ used' = used + room
      BY <1>1, <1>4, <1>5, <2>1
    <3>2. given = room /\ room \in Nat /\ height[b] + room \in Nat
      BY <1>5, <1>6, <1>7, <2>1
    <3> QED
      BY <1>1, <1>5, <3>1, <3>2
  <2>2. CASE ~(room > 0)
    BY <1>1, <1>4, <1>5, <1>6, <1>7, <2>2
  <2> QED
    BY <2>1, <2>2
<1> HIDE DEF given
<1>9. \A i \in live : height'[i] \in Nat /\ height'[i] >= height[i]
  <2> TAKE i \in live
  <2>1. CASE i = b
    BY <1>5, <1>6, <1>8, <2>1
  <2>2. CASE i # b
    BY <1>6, <1>8, <2>2
  <2> QED
    BY <2>1, <2>2
<1>10. /\ given <= rows - used
       /\ given < rows - used => specs[b].max > 0 /\ height[b] + given >= specs[b].max
       /\ given > 0 => given = room /\ (specs[b].max > 0 => height[b] + given <= specs[b].max)
  BY <1>1, <1>5, <1>6, <1>7 DEF given
<1>11. Session' /\ Asked' /\ Placed'
  BY <1>4, SolverKeepsSession, SameArgs DEF Asked, Placed, sessionVars
<1>12. \A i \in live : height[i] >= Natural(specs[i])
  <2>1. \A i \in live : height[i] < Natural(specs[i]) => used >= rows
    BY <1>1 DEF Squashed, Given
  <2> QED
    BY <1>1, <1>6, <2>1
<1>13. \A i \in live : AtCap(i) => AtCap(i)'
  BY <1>1, <1>4, <1>6, <1>9 DEF AtCap
<1>14. used' < rows => AtCap(b)'
  <2> SUFFICES ASSUME used' < rows PROVE AtCap(b)'
    OBVIOUS
  <2>1. given < rows - used
    BY <1>1, <1>6, <1>8
  <2>2. specs[b].max > 0 /\ height'[b] >= specs[b].max
    BY <1>8, <1>10, <2>1
  <2> QED
    BY <1>4, <2>2 DEF AtCap
<1>15. Counted'
  <2>1. used' = sumHeight(live)'
    <3>1. CASE room > 0
      <4>1. height' = [height EXCEPT ![b] = height[b] + given] /\ height[b] + given \in Nat
        BY <1>1, <1>4, <1>5, <1>6, <1>7, <3>1 DEF given
      <4>2. sumHeight(live)' = sumHeight(live) - height[b] + (height[b] + given)
        BY <1>1, <1>4, <1>5, <4>1, OneHeight
      <4> QED
        BY <1>1, <1>5, <1>6, <1>8, <4>2
    <3>2. CASE ~(room > 0)
      BY <1>1, <1>4, <3>2 DEF sumHeight
    <3> QED
      BY <3>1, <3>2
  <2>2. \A i \in live : height'[i] >= minOf(specs[i])
    BY <1>6, <1>12, <1>9
  <2> QED
    BY <1>1, <1>4, <1>8, <2>1, <2>2 DEF Counted
<1>16. Squashed'
  <2>1. \A i \in live : height'[i] >= Natural(specs[i])
    BY <1>6, <1>12, <1>9
  <2>2. \A i \in live : height'[i] \in Nat /\ Natural(specs[i]) \in Nat
    BY <1>6, <1>8
  <2>3. \A i \in live : ~(height'[i] < Natural(specs[i]))
    BY <2>1, <2>2
  <2> QED
    BY <1>4, <2>3 DEF Squashed
<1>17. Growing'
  <2>1. used' <= rows
    BY <1>1, <1>6, <1>8, <1>10
  <2>2. used' < rows => \A i \in live \ pending' : specs[i].elastic > 0 => AtCap(i)'
    BY <1>1, <1>4, <1>5, <1>13, <1>14 DEF Growing
  <2>3. ASSUME NEW i \in live, height'[i] > Natural(specs[i])
        PROVE  /\ specs[i].max > 0 => height'[i] <= specs[i].max
               /\ \A j \in live : specs[j].elastic > specs[i].elastic => AtCap(j)'
    <3>1. CASE height[i] > Natural(specs[i])
      <4>1. /\ specs[i].max > 0 => height[i] <= specs[i].max
            /\ \A j \in live : specs[j].elastic > specs[i].elastic => AtCap(j)
        BY <1>1, <3>1 DEF Growing
      <4>2. specs[i].max > 0 => height'[i] <= specs[i].max
        <5>1. CASE i = b
          BY <1>5, <1>6, <1>8, <1>10, <4>1, <5>1
        <5>2. CASE i # b
          BY <1>8, <4>1, <5>2
        <5> QED
          BY <5>1, <5>2
      <4> QED
        BY <1>13, <4>1, <4>2
    <3>2. CASE ~(height[i] > Natural(specs[i]))
      <4>1. i = b /\ given > 0
        BY <1>5, <1>6, <1>8, <2>3, <3>2
      <4>2. specs[i].max > 0 => height'[i] <= specs[i].max
        BY <1>5, <1>8, <1>10, <4>1
      <4>3. ASSUME NEW j \in live, specs[j].elastic > specs[i].elastic
            PROVE  AtCap(j)'
        <5>1. j \notin Elastic /\ specs[j].elastic > 0
          BY <1>2, <1>3, <1>6, <4>1, <4>3
        <5>2. j \notin pending
          BY <5>1 DEF Elastic
        <5>3. AtCap(j)
          BY <1>1, <5>1, <5>2 DEF Growing
        <5> QED
          BY <1>13, <5>3
      <4> QED
        BY <4>2, <4>3
    <3> QED
      BY <3>1, <3>2
  <2> QED
    BY <1>1, <1>4, <2>1, <2>2, <2>3 DEF Growing
<1>18. Squeezing' /\ Refused'
  BY <1>1, <1>4 DEF Squeezing, Refused, NothingFits
<1> QED
  BY <1>11, <1>15, <1>16, <1>17, <1>18

\* The growth ends when nothing is left over or no elastic panel is left to take it.
LEMMA GrownKeeps ==
  ASSUME IInv, Grown, UNCHANGED sessionVars
  PROVE  IInv'
<1> USE DEF IInv
<1>1. /\ UNCHANGED args /\ UNCHANGED <<specs, rows, live, height, used, pending>>
      /\ step = "grow" /\ step' = "solved"
  BY DEF Grown, args
<1>2. Session' /\ Asked' /\ Placed'
  BY <1>1, SolverKeepsSession, SameArgs DEF Asked, Placed, sessionVars, Steps
<1>3. Counted' /\ Squashed'
  BY <1>1, SameArgs DEF Counted, Squashed, Given, sumHeight
<1>4. Growing'
  <2>1. specs \in Seq(PanelSpec) /\ rows \in Nat /\ live \subseteq DOMAIN specs
        /\ height \in [live -> Nat] /\ pending \subseteq live /\ used = sumHeight(live)
    BY <1>1 DEF Asked, Placed, Counted, Given
  <2>2. used \in Nat
    BY <2>1, HeightSum
  <2>3. used < rows => \A i \in pending : specs[i].elastic = 0
    BY <2>1, <2>2, SpecTypes DEF Grown, Elastic
  <2>4. \A i : AtCap(i)' <=> AtCap(i)
    BY <1>1 DEF AtCap
  <2> QED
    BY <1>1, <2>3, <2>4 DEF Growing
<1> QED
  BY <1>1, <1>2, <1>3, <1>4 DEF Squeezing, Refused, NothingFits

\* What Load makes sure of.
LEMMA Accepted ==
  ASSUME NEW d \in Dashboards, Loads(d)
  PROVE  /\ d \in Dashboard
         /\ d.minCols > 0 /\ d.minRows > 0 /\ d.panels # <<>>
         /\ \A i \in DOMAIN d.panels : /\ d.panels[i] \in Panel
                                       /\ d.panels[i].type \in Types
                                       /\ d.panels[i].type = "table" =>
                                             validateWidthBudget(d.panels[i].columns, d.minCols)
<1>1. d \in Dashboard /\ \A i \in DOMAIN d.panels : d.panels[i].type \in Types \cup {""}
  BY ScreenAssumption
<1>2. d.minCols \in Int /\ d.minRows \in Int /\ d.panels \in Seq(Panel)
  BY <1>1 DEF Dashboard
<1>3. DashboardErrors(d) = {} /\ \A i \in DOMAIN d.panels : PanelErrors(d.panels[i], d.minCols) = {}
  <2>1. Errors(d) = {}
    BY DEF Loads
  <2> QED
    BY <2>1 DEF Errors
<1>4. d.minCols > 0 /\ d.minRows > 0 /\ d.panels # <<>>
  <2> DEFINE wrong == [minimum |-> d.minCols <= 0 \/ d.minRows <= 0,
                       target  |-> d.cols < d.minCols \/ d.rows < d.minRows,
                       named   |-> ~d.wellFormed,
                       empty   |-> d.panels = <<>>,
                       trapped |-> ~ElasticSeen(d),
                       dropped |-> ElasticSeen(d) /\ ~elasticSurvives(d)]
  <2>1. {rule \in DOMAIN wrong : wrong[rule]} = {}
    BY <1>3 DEF DashboardErrors
  <2>2. "minimum" \in DOMAIN wrong /\ "empty" \in DOMAIN wrong
    OBVIOUS
  <2>3. /\ wrong["minimum"] <=> d.minCols <= 0 \/ d.minRows <= 0
        /\ wrong["empty"] <=> d.panels = <<>>
    OBVIOUS
  <2> HIDE DEF wrong
  <2>4. ~wrong["minimum"] /\ ~wrong["empty"]
    BY <2>1, <2>2, Zenon
  <2>5. ~(d.minCols <= 0 \/ d.minRows <= 0) /\ d.panels # <<>>
    BY <2>3, <2>4, Zenon
  <2> QED
    BY <1>2, <2>5
<1>5. ASSUME NEW i \in DOMAIN d.panels
      PROVE  /\ d.panels[i] \in Panel
             /\ d.panels[i].type \in Types
             /\ d.panels[i].type = "table" => validateWidthBudget(d.panels[i].columns, d.minCols)
  <2>1. d.panels[i] \in Panel
    BY <1>2
  <2>2. d.panels[i].type # ""
    BY <1>3, <1>5 DEF PanelErrors
  <2>3. d.panels[i].type = "table" => TableErrors(d.panels[i], d.minCols) = {}
    BY <1>3, <1>5 DEF PanelErrors
  <2>4. TableErrors(d.panels[i], d.minCols) = {} =>
           validateWidthBudget(d.panels[i].columns, d.minCols)
    BY DEF TableErrors
  <2> QED
    BY <1>1, <2>1, <2>2, <2>3, <2>4
<1> QED
  BY <1>1, <1>4, <1>5

\* Every panel of it asks for something the solver can read, reserved as configured.
LEMMA SpecOfType ==
  ASSUME NEW p \in Panel, p.type \in Types, NEW sn \in [contacts : Nat, fired : Nat]
  PROVE  SpecOf(p, sn) \in PanelSpec
<1>1. /\ p.reserve \in BOOLEAN /\ p.elastic \in Nat /\ p.fields \in Nat
      /\ sn.contacts \in Nat /\ sn.fired \in Nat
  BY DEF Panel
<1>2. (p.fields + 1) \div 2 + 1 \in Nat
  BY <1>1
<1>3. TableRows(p, sn) \in Nat /\ AtLeastOne(sn.fired) \in Nat
  BY <1>1 DEF TableRows, Contacts, AtLeastOne
<1>4. dropRank(p.type) \in Nat
  BY DEF dropRank
<1> DEFINE spec == [reserve |-> p.reserve, min |-> 1, nat |-> 1, elastic |-> p.elastic,
                    max |-> 0, drop |-> dropRank(p.type), rule |-> FALSE]
<1>5. spec \in PanelSpec
  BY <1>1, <1>4 DEF PanelSpec
<1>6. CASE p.type = "alert_strip"
  BY <1>5, <1>6 DEF SpecOf
<1>7. CASE p.type = "table"
  BY <1>3, <1>5, <1>7 DEF SpecOf, PanelSpec
<1>8. CASE p.type = "detail"
  BY <1>2, <1>5, <1>8 DEF SpecOf, PanelSpec
<1>9. CASE p.type = "chart"
  BY <1>5, <1>9 DEF SpecOf, PanelSpec
<1>10. CASE p.type = "decisions"
  BY <1>3, <1>5, <1>10 DEF SpecOf, PanelSpec
<1>11. CASE p.type = "status_bar"
  BY <1>5, <1>11 DEF SpecOf, PanelSpec
<1> QED
  BY <1>6, <1>7, <1>8, <1>9, <1>10, <1>11 DEF Types

LEMMA BuildType ==
  ASSUME NEW d \in Dashboards, Loads(d), NEW sn \in Snapshots
  PROVE  /\ Build(d, sn) \in Seq(PanelSpec)
         /\ Build(d, sn) # <<>>
         /\ Rules(Build(d, sn)) \in Nat
<1> DEFINE built == Build(d, sn)
<1>1. d.panels \in Seq(Panel) /\ d.panels # <<>>
  BY Accepted DEF Dashboard
<1>2. Len(d.panels) \in Nat /\ DOMAIN d.panels = 1 .. Len(d.panels) /\ Len(d.panels) # 0
  BY <1>1
<1>3. sn \in [contacts : Nat, fired : Nat]
  BY ScreenAssumption
<1>4. \A i \in DOMAIN d.panels : SpecOf(d.panels[i], sn) \in PanelSpec
  BY <1>3, Accepted, SpecOfType
<1>5. built \in [1 .. Len(d.panels) -> PanelSpec]
  BY <1>2, <1>4 DEF Build
<1>6. built \in Seq(PanelSpec)
  BY <1>2, <1>5
<1>7. DOMAIN built = 1 .. Len(d.panels)
  BY <1>2 DEF Build
<1>8. Rules(built) \in Nat
  <2>1. IsFiniteSet(DOMAIN built)
    BY <1>2, <1>7, FS_Interval
  <2>2. IsFiniteSet({i \in DOMAIN built : built[i].rule})
    BY <2>1, FS_Subset
  <2> QED
    BY <2>2, FS_CardinalityType DEF Rules
<1>9. built # <<>>
  BY <1>2, <1>7
<1> QED
  BY <1>6, <1>8, <1>9

\* View begins with all panels placed, or leaves the solver alone.
LEMMA ViewKeeps ==
  ASSUME IInv, NEW z, NEW sn, z = size', sn = snap', size' \in [w : Nat, h : Nat],
         snap' \in Snapshots, UNCHANGED dash, View(z, sn)
  PROVE  IInv'
<1> USE DEF IInv
<1> DEFINE built == Build(dash, sn)
           innerH == z.h - 2 - Rules(built)
<1>1. dash \in Dashboards /\ Loads(dash)
  BY DEF Session
<1>2. /\ built \in Seq(PanelSpec) /\ built # <<>> /\ Rules(built) \in Nat
      /\ dash.minRows \in Int /\ dash.minRows > 0 /\ dash.minCols \in Int
      /\ z.w \in Nat /\ z.h \in Nat /\ innerH \in Int
  BY <1>1, BuildType, Accepted DEF Dashboard
<1>3. CASE /\ view' # "frame" /\ UNCHANGED solveVars /\ view' \in {"empty", "refusal"}
           /\ view' = "refusal" => z.w - 2 < dash.minCols \/ innerH < dash.minRows
  <2>1. Session'
    <3>1. view' = "refusal" =>
             size'.w - 2 < dash'.minCols \/ size'.h - 2 - Rules(Build(dash', snap')) < dash'.minRows
      BY <1>3
    <3> QED
      BY <1>3, <3>1 DEF Session
  <2>2. UNCHANGED args /\ UNCHANGED <<specs, rows, live, height, used, pending, step>>
    BY <1>3 DEF solveVars, args
  <2>3. Asked' /\ Placed'
    BY <2>2, SameArgs DEF Asked, Placed
  <2>4. Counted' /\ Squeezing' /\ Squashed'
    BY <2>2, SameArgs DEF Counted, Squeezing, Squashed, sumHeight
  <2>5. Growing'
    <3>1. \A i : AtCap(i)' <=> AtCap(i)
      BY <2>2 DEF AtCap
    <3> QED
      BY <2>2, <3>1 DEF Growing
  <2>6. Refused'
    BY <2>2, SameArgs DEF Refused, NothingFits
  <2> QED
    BY <2>1, <2>3, <2>4, <2>5, <2>6
<1>4. CASE /\ view' = "frame" /\ Begin(built, innerH)
           /\ z.w - 2 >= dash.minCols /\ innerH >= dash.minRows
  <2>1. /\ specs' = built /\ rows' = innerH /\ live' = DOMAIN built /\ step' = "drop"
    BY <1>4 DEF Begin
  <2>2. Session'
    BY <1>1, <1>4, <2>1 DEF Session
  <2>3. Asked'
    BY <1>2, <1>4, <2>1 DEF Asked, Steps
  <2>4. Placed'
    BY <2>1 DEF Placed
  <2> QED
    BY <2>1, <2>2, <2>3, <2>4
       DEF Counted, Squeezing, Squashed, Growing, Refused, Given
<1>5. \/ /\ view' \in {"empty", "refusal"} /\ UNCHANGED solveVars
         /\ view' = "refusal" => z.w - 2 < dash.minCols \/ innerH < dash.minRows
      \/ /\ view' = "frame" /\ Begin(built, innerH)
         /\ ~(z.w - 2 < dash.minCols \/ innerH < dash.minRows)
  BY DEF View
<1>6. ~(z.w - 2 < dash.minCols \/ innerH < dash.minRows) =>
         z.w - 2 >= dash.minCols /\ innerH >= dash.minRows
  BY <1>2
<1> QED
  BY <1>3, <1>4, <1>5, <1>6

LEMMA InitIInv == Init => IInv
<1> SUFFICES ASSUME Init PROVE IInv
  OBVIOUS
<1>1. /\ specs = <<>> /\ rows = 0 /\ live = {} /\ used = 0 /\ pending = {} /\ step = "solved"
      /\ height = [i \in {} |-> 0] /\ view = "empty"
  BY DEF Init, NoSpecs
<1>2. Session
  BY <1>1 DEF Init, Session
<1>3. Asked /\ Placed
  BY <1>1 DEF Asked, Placed, Steps
<1>4. used = sumHeight(live)
  BY <1>1, SumEmpty DEF sumHeight
<1>5. Counted
  BY <1>1, <1>4 DEF Counted
<1> QED
  BY <1>1, <1>2, <1>3, <1>5 DEF IInv, Squeezing, Squashed, Growing, Refused, NothingFits

LEMMA StutterKeeps ==
  ASSUME IInv, UNCHANGED vars
  PROVE  IInv'
<1> USE DEF IInv
<1>1. UNCHANGED args /\ UNCHANGED sessionVars
  BY DEF vars, solveVars, args
<1>2. UNCHANGED <<specs, rows, live, height, used, pending, step, dash, size, snap, view>>
  BY DEF vars, solveVars, sessionVars
<1>3. Session' /\ Asked' /\ Placed'
  BY <1>1, <1>2, SolverKeepsSession, SameArgs DEF Asked, Placed
<1>4. Counted' /\ Squeezing' /\ Squashed'
  BY <1>1, <1>2, SameArgs DEF Counted, Squeezing, Squashed, sumHeight
<1>5. \A i : AtCap(i)' <=> AtCap(i)
  BY <1>2 DEF AtCap
<1> QED
  BY <1>1, <1>2, <1>3, <1>4, <1>5, SameArgs DEF Growing, Refused, NothingFits

LEMMA NextKeepsIInv == IInv /\ [Next]_vars => IInv'
<1> SUFFICES ASSUME IInv, [Next]_vars PROVE IInv'
  OBVIOUS
<1>1. CASE WindowSize
  <2>1. PICK z \in Sizes : size' = z /\ View(z, snap)
    BY <1>1 DEF WindowSize
  <2>2. UNCHANGED dash /\ snap = snap' /\ snap' \in Snapshots /\ size' \in [w : Nat, h : Nat]
    BY <1>1, <2>1, ScreenAssumption DEF WindowSize, IInv, Session
  <2> QED
    BY <2>1, <2>2, ViewKeeps
<1>2. CASE FrameMsg
  <2>1. PICK sn \in Snapshots : snap' = sn /\ View(size, sn)
    BY <1>2 DEF FrameMsg
  <2>2. UNCHANGED dash /\ size = size' /\ snap' \in Snapshots /\ size' \in [w : Nat, h : Nat]
    BY <1>2, <2>1 DEF FrameMsg, IInv, Session
  <2> QED
    BY <2>1, <2>2, ViewKeeps
<1> QED
  BY <1>1, <1>2, DropKeeps, DroppedKeeps, SqueezeKeeps, SqueezedKeeps, GrowKeeps, GrownKeeps,
     StutterKeeps DEF Next

\* In every state of every run the solver's books balance and the order of importance
\* decides: the invariant the theorems below follow from.
THEOREM SpecIInv == Spec => []IInv
<1> QED
  BY InitIInv, NextKeepsIInv, PTL DEF Spec

-------------------------------------------------------------------------------
(* The frame *)

\* What is so of a frame that is shown.
LEMMA ShownFacts ==
  ASSUME IInv, Shown
  PROVE  /\ specs \in Seq(PanelSpec) /\ rows \in Nat /\ live \subseteq DOMAIN specs
         /\ specs = Build(dash, snap) /\ specs # <<>>
         /\ rows = size.h - 2 - Rules(specs) /\ size.h \in Nat /\ size.w \in Nat
         /\ size.w - 2 >= dash.minCols
         /\ dash \in Dashboards /\ Loads(dash) /\ snap \in Snapshots
         /\ height \in [live -> Nat] /\ used \in Nat /\ used = sumHeight(live)
         /\ Gap \in Nat /\ used + Gap = rows
<1> USE DEF IInv
<1>1. /\ specs \in Seq(PanelSpec) /\ rows \in Nat /\ live \subseteq DOMAIN specs
      /\ height \in [live -> Nat] /\ used = sumHeight(live) /\ used <= rows
  BY DEF Shown, Asked, Placed, Counted, Growing, Given
<1>2. used \in Nat
  BY <1>1, HeightSum
<1>3. /\ specs = Build(dash, snap) /\ rows = size.h - 2 - Rules(specs)
      /\ size.h \in Nat /\ size.w \in Nat /\ size.w - 2 >= dash.minCols
      /\ dash \in Dashboards /\ Loads(dash) /\ snap \in Snapshots
  BY DEF Session, Shown
<1>4. specs # <<>>
  BY <1>3, BuildType
<1>5. Gap \in Nat /\ used + Gap = rows
  BY <1>1, <1>2 DEF Gap
<1> QED
  BY <1>1, <1>2, <1>3, <1>4, <1>5

\* The rows of the panels above one, of which the region of a panel is made.
Above(i) == {j \in live : j < i}

\* The grid without its gap: the panels lie on each other, in their order, from the
\* first row to the last one used.
LEMMA Stacked ==
  ASSUME specs \in Seq(PanelSpec), live \subseteq DOMAIN specs, height \in [live -> Nat]
  PROVE  /\ \A i \in live : /\ sumHeight(Above(i)) \in Nat
                            /\ sumHeight(Above(i)) + height[i] <= sumHeight(live)
         /\ \A i, j \in live : i < j => sumHeight(Above(i)) + height[i] <= sumHeight(Above(j))
         /\ \A q \in 0 .. sumHeight(live) - 1 :
               \E i \in live : /\ sumHeight(Above(i)) <= q
                               /\ q < sumHeight(Above(i)) + height[i]
<1>1. IsFiniteSet(live) /\ \A i \in live : i \in Nat /\ i > 0 /\ i <= Len(specs)
  <2>1. Len(specs) \in Nat /\ DOMAIN specs = 1 .. Len(specs)
    OBVIOUS
  <2> QED
    BY <2>1, PanelSums
<1>2. \A i \in live : height[i] \in Nat
  OBVIOUS
<1>3. \A P, Q \in SUBSET live :
         /\ sumHeight(P) \in Nat
         /\ P \subseteq Q => sumHeight(P) <= sumHeight(Q)
         /\ \A i \in P : sumHeight(P) = height[i] + sumHeight(P \ {i})
  BY <1>1, <1>2, SumTakeOut, SumMonotone, FS_Subset DEF sumHeight
<1> DEFINE upTo(k) == {j \in live : j <= k}
<1>4. ASSUME NEW i \in live
      PROVE  /\ sumHeight(Above(i)) \in Nat
             /\ sumHeight(upTo(i)) = sumHeight(Above(i)) + height[i]
             /\ sumHeight(Above(i)) + height[i] <= sumHeight(live)
             /\ \A j \in live : i < j =>
                    sumHeight(Above(i)) + height[i] <= sumHeight(Above(j))
  <2>1. upTo(i) \ {i} = Above(i) /\ i \in upTo(i) /\ upTo(i) \in SUBSET live
        /\ Above(i) \in SUBSET live /\ live \in SUBSET live
    BY <1>1 DEF Above
  <2>2. sumHeight(upTo(i)) = height[i] + sumHeight(Above(i))
    <3>1. sumHeight(upTo(i)) = height[i] + sumHeight(upTo(i) \ {i})
      BY <1>3, <2>1
    <3> QED
      BY <2>1, <3>1, Zenon
  <2>3. sumHeight(Above(i)) \in Nat /\ sumHeight(upTo(i)) <= sumHeight(live) /\ height[i] \in Nat
    BY <1>2, <1>3, <2>1
  <2>4. ASSUME NEW j \in live, i < j
        PROVE  sumHeight(upTo(i)) <= sumHeight(Above(j))
    <3>1. upTo(i) \subseteq Above(j) /\ Above(j) \in SUBSET live
      BY <1>1, <2>4 DEF Above
    <3> QED
      BY <1>3, <2>1, <3>1
  <2> QED
    BY <2>2, <2>3, <2>4
<1>5. ASSUME NEW q \in 0 .. sumHeight(live) - 1
      PROVE  \E i \in live : sumHeight(Above(i)) <= q /\ q < sumHeight(Above(i)) + height[i]
  <2> DEFINE Over == {k \in Nat : q < sumHeight(upTo(k))}
  <2>1. sumHeight(live) \in Nat
    BY <1>3
  <2>2. PICK m \in Over : \A k \in Over : m <= k
    <3>1. upTo(Len(specs)) = live /\ Len(specs) \in Nat
      BY <1>1
    <3>2. q < sumHeight(upTo(Len(specs)))
      <4>1. q < sumHeight(live)
        BY <2>1
      <4> QED
        BY <3>1, <4>1, Zenon
    <3>3. Over \in SUBSET Nat /\ Over # {}
      BY <3>1, <3>2
    <3> HIDE DEF Over
    <3> QED
      BY <3>3, LeastNumber
  <2>3. m # 0
    <3> SUFFICES ASSUME m = 0 PROVE FALSE
      OBVIOUS
    <3>1. upTo(m) = {}
      BY <1>1
    <3>2. sumHeight(upTo(m)) = 0
      BY <3>1, SumEmpty, Zenon DEF sumHeight
    <3> QED
      BY <2>2, <3>2
  <2>4. m - 1 \in Nat /\ m - 1 \notin Over
    BY <2>2, <2>3
  <2>5. upTo(m - 1) \in SUBSET live
    OBVIOUS
  <2>6. sumHeight(upTo(m - 1)) <= q
    <3>1. sumHeight(upTo(m - 1)) \in Nat
      BY <1>3, <2>5
    <3> QED
      BY <2>1, <2>4, <3>1
  <2>7. m \in live
    <3> SUFFICES ASSUME m \notin live PROVE FALSE
      OBVIOUS
    <3>1. upTo(m) = upTo(m - 1)
      BY <1>1, <2>2, <2>4
    <3>2. q < sumHeight(upTo(m - 1))
      BY <2>2, <3>1, Zenon
    <3> QED
      BY <2>4, <3>2
  <2>8. upTo(m - 1) = Above(m)
    BY <1>1, <2>2 DEF Above
  <2>9. sumHeight(Above(m)) <= q
    BY <2>6, <2>8, Zenon
  <2>10. q < sumHeight(Above(m)) + height[m]
    <3>1. q < sumHeight(upTo(m))
      BY <2>2
    <3> QED
      BY <1>4, <2>7, <3>1
  <2> QED
    BY <2>7, <2>9, <2>10
<1> QED
  BY <1>4, <1>5

\* Where the region of a panel is, and where the gap is.
PanelY(i) == sumHeight(Above(i)) + (IF i \in Trailing THEN Gap ELSE 0)
GapY == sumHeight(live \ Trailing)
PanelRegions == {[panel |-> i, y |-> PanelY(i), h |-> height[i]] : i \in live}
GapRegions == IF Gap > 0 THEN {[panel |-> -1, y |-> GapY, h |-> Gap]} ELSE {}

LEMMA RegionsAre == Regions = PanelRegions \cup GapRegions
BY DEF Regions, PanelRegions, GapRegions, PanelY, GapY, Above

\* The gap parts the panels: the reserved ones at the end are below it.
LEMMA Parted ==
  ASSUME IInv, Shown
  PROVE  /\ GapY \in Nat /\ GapY <= used
         /\ \A i \in live : /\ PanelY(i) \in Nat
                            /\ PanelY(i) + height[i] <= rows
                            /\ i \in Trailing => /\ sumHeight(Above(i)) >= GapY
                                                 /\ PanelY(i) = sumHeight(Above(i)) + Gap
                            /\ i \notin Trailing => /\ PanelY(i) + height[i] <= GapY
                                                    /\ PanelY(i) = sumHeight(Above(i))
         /\ \A i, j \in live : i < j => PanelY(i) + height[i] <= PanelY(j)
<1>1. /\ specs \in Seq(PanelSpec) /\ rows \in Nat /\ live \subseteq DOMAIN specs
      /\ height \in [live -> Nat] /\ used \in Nat /\ used = sumHeight(live)
      /\ Gap \in Nat /\ used + Gap = rows
  BY ShownFacts
<1>2. /\ \A i \in live : /\ sumHeight(Above(i)) \in Nat
                         /\ sumHeight(Above(i)) + height[i] <= used
      /\ \A i, j \in live : i < j => sumHeight(Above(i)) + height[i] <= sumHeight(Above(j))
  BY <1>1, Stacked
<1>3. IsFiniteSet(live) /\ \A i \in live : i \in Nat /\ height[i] \in Nat
  BY <1>1, SpecTypes, PanelSums
<1>4. \A P, Q \in SUBSET live :
         /\ sumHeight(P) \in Nat
         /\ P \subseteq Q => sumHeight(P) <= sumHeight(Q)
         /\ \A i \in P : sumHeight(P) = height[i] + sumHeight(P \ {i})
  BY <1>3, SumTakeOut, SumMonotone, FS_Subset DEF sumHeight
<1>5. \A i \in Trailing, j \in live : j >= i => j \in Trailing
  BY <1>3 DEF Trailing
<1>6. GapY \in Nat /\ GapY <= used
  BY <1>1, <1>4 DEF GapY
<1>7. ASSUME NEW i \in Trailing
      PROVE  sumHeight(Above(i)) >= GapY
  <2>1. live \ Trailing \subseteq Above(i) /\ Above(i) \in SUBSET live
    BY <1>3, <1>5 DEF Above, Trailing
  <2> QED
    BY <1>4, <2>1 DEF GapY
<1>8. ASSUME NEW i \in live, i \notin Trailing
      PROVE  sumHeight(Above(i)) + height[i] <= GapY
  <2> DEFINE upTo == Above(i) \cup {i}
  <2>1. upTo \subseteq live \ Trailing /\ upTo \in SUBSET live /\ i \in upTo
    BY <1>3, <1>5, <1>8 DEF Above, Trailing
  <2>2. upTo \ {i} = Above(i)
    BY <1>3 DEF Above
  <2>3. sumHeight(upTo) = height[i] + sumHeight(Above(i))
    <3>1. sumHeight(upTo) = height[i] + sumHeight(upTo \ {i})
      BY <1>4, <2>1
    <3> QED
      BY <2>2, <3>1, Zenon
  <2>4. sumHeight(upTo) <= GapY
    BY <1>4, <2>1 DEF GapY
  <2> QED
    BY <1>2, <1>3, <2>3, <2>4
<1>9. \A i \in live : i \in Trailing => PanelY(i) = sumHeight(Above(i)) + Gap
  BY DEF PanelY
<1>10. \A i \in live : i \notin Trailing => PanelY(i) = sumHeight(Above(i))
  BY <1>2 DEF PanelY
<1>11. ASSUME NEW i \in live
       PROVE  PanelY(i) \in Nat /\ PanelY(i) + height[i] <= rows
  <2>1. CASE i \in Trailing
    BY <1>1, <1>2, <1>3, <1>9, <2>1
  <2>2. CASE i \notin Trailing
    BY <1>1, <1>2, <1>3, <1>10, <2>2
  <2> QED
    BY <2>1, <2>2
<1>12. ASSUME NEW i \in live, NEW j \in live, i < j
       PROVE  PanelY(i) + height[i] <= PanelY(j)
  <2>1. i \in Trailing => j \in Trailing
    BY <1>3, <1>5, <1>12
  <2>2. /\ sumHeight(Above(i)) + height[i] <= sumHeight(Above(j))
        /\ sumHeight(Above(i)) \in Nat /\ sumHeight(Above(j)) \in Nat
        /\ height[i] \in Nat /\ Gap \in Nat
    BY <1>1, <1>2, <1>3, <1>12
  <2>3. CASE i \in Trailing
    BY <1>9, <2>1, <2>2, <2>3
  <2>4. CASE i \notin Trailing
    BY <1>9, <1>10, <2>2, <2>4
  <2> QED
    BY <2>3, <2>4
<1> QED
  BY <1>6, <1>7, <1>8, <1>9, <1>10, <1>11, <1>12

\* Every row is in a region, and in one.
LEMMA RowInOneRegion ==
  ASSUME IInv, Shown, NEW r \in 0 .. rows - 1
  PROVE  Cardinality({g \in Regions : g.y <= r /\ r < g.y + g.h}) = 1
<1> DEFINE Covers(g) == g.y <= r /\ r < g.y + g.h
           region(i) == [panel |-> i, y |-> PanelY(i), h |-> height[i]]
           gap == [panel |-> -1, y |-> GapY, h |-> Gap]
<1>1. /\ specs \in Seq(PanelSpec) /\ rows \in Nat /\ live \subseteq DOMAIN specs
      /\ height \in [live -> Nat] /\ used \in Nat /\ used = sumHeight(live)
      /\ Gap \in Nat /\ used + Gap = rows /\ r \in Nat /\ r < rows
  BY ShownFacts
<1>2. \A i \in live : i \in Nat /\ height[i] \in Nat /\ sumHeight(Above(i)) \in Nat
  BY <1>1, SpecTypes, Stacked
<1>3. \A q \in 0 .. used - 1 :
         \E i \in live : sumHeight(Above(i)) <= q /\ q < sumHeight(Above(i)) + height[i]
  BY <1>1, Stacked
<1>4. /\ \A i \in live : /\ region(i) \in Regions
                         /\ Covers(region(i)) <=> PanelY(i) <= r /\ r < PanelY(i) + height[i]
      /\ Gap > 0 => gap \in Regions
      /\ Covers(gap) <=> GapY <= r /\ r < GapY + Gap
  BY RegionsAre DEF PanelRegions, GapRegions
<1>5. \E g \in Regions : Covers(g)
  <2>1. CASE r < GapY
    <3>1. PICK i \in live : sumHeight(Above(i)) <= r /\ r < sumHeight(Above(i)) + height[i]
      BY <1>1, <1>3, <2>1, Parted
    <3>2. i \notin Trailing
      <4>1. GapY \in Nat /\ (i \in Trailing => sumHeight(Above(i)) >= GapY)
        BY Parted
      <4> QED
        BY <1>1, <1>2, <2>1, <3>1, <4>1
    <3>3. PanelY(i) = sumHeight(Above(i))
      BY <3>2, Parted
    <3> QED
      BY <1>4, <3>1, <3>3
  <2>2. CASE GapY <= r /\ r < GapY + Gap
    <3>1. Gap > 0
      BY <1>1, <2>2, Parted
    <3> QED
      BY <1>4, <2>2, <3>1
  <2>3. CASE r >= GapY + Gap
    <3> DEFINE q == r - Gap
    <3>1. q \in 0 .. used - 1 /\ q >= GapY
      BY <1>1, <2>3, Parted
    <3>2. PICK i \in live : sumHeight(Above(i)) <= q /\ q < sumHeight(Above(i)) + height[i]
      BY <1>3, <3>1
    <3>3. i \in Trailing
      BY <1>1, <1>2, <3>1, <3>2, Parted
    <3>4. PanelY(i) = sumHeight(Above(i)) + Gap
      BY <3>3, Parted
    <3>5. PanelY(i) <= r /\ r < PanelY(i) + height[i]
      BY <1>1, <1>2, <3>2, <3>4
    <3> QED
      BY <1>4, <3>5
  <2> QED
    BY <1>1, <2>1, <2>2, <2>3, Parted
<1>6. ASSUME NEW i \in live, NEW j \in live, Covers(region(i)), Covers(region(j))
      PROVE  i = j
  <2>1. /\ PanelY(i) <= r /\ r < PanelY(i) + height[i]
        /\ PanelY(j) <= r /\ r < PanelY(j) + height[j]
    BY <1>6
  <2>2. /\ i < j => PanelY(i) + height[i] <= PanelY(j)
        /\ j < i => PanelY(j) + height[j] <= PanelY(i)
        /\ PanelY(i) \in Nat /\ PanelY(j) \in Nat
    BY Parted
  <2>3. i \in Nat /\ j \in Nat /\ height[i] \in Nat /\ height[j] \in Nat /\ r \in Nat
    BY <1>1, <1>2
  <2> QED
    BY <2>1, <2>2, <2>3
<1>7. ASSUME NEW i \in live, Gap > 0, Covers(region(i)), Covers(gap)
      PROVE  FALSE
  <2>1. CASE i \in Trailing
    BY <1>1, <1>2, <1>7, <2>1, Parted
  <2>2. CASE i \notin Trailing
    BY <1>1, <1>2, <1>7, <2>2, Parted
  <2> QED
    BY <2>1, <2>2
<1>8. \A g \in Regions : (\E i \in live : g = region(i)) \/ (g = gap /\ Gap > 0)
  BY RegionsAre DEF PanelRegions, GapRegions
<1> HIDE DEF region, gap, Covers
<1>9. \A g, k \in Regions : Covers(g) /\ Covers(k) => g = k
  BY <1>6, <1>7, <1>8
<1>10. PICK g \in Regions : Covers(g)
  BY <1>5
<1>11. {k \in Regions : Covers(k)} = {g}
  BY <1>9, <1>10
<1> QED
  BY <1>11, FS_Singleton DEF Covers

\* The rules drawn and those of the panels dropped are all there are.
LEMMA RulesParted ==
  ASSUME specs \in Seq(PanelSpec), live \subseteq DOMAIN specs
  PROVE  /\ Rules([i \in live |-> specs[i]]) \in Nat
         /\ Rules([i \in DOMAIN specs \ live |-> specs[i]]) \in Nat
         /\ Rules(specs) = Rules([i \in live |-> specs[i]])
                               + Rules([i \in DOMAIN specs \ live |-> specs[i]])
<1> DEFINE placed == {i \in live : specs[i].rule}
           dropped == {i \in DOMAIN specs \ live : specs[i].rule}
           all == {i \in DOMAIN specs : specs[i].rule}
<1>1. IsFiniteSet(all) /\ IsFiniteSet(placed) /\ IsFiniteSet(dropped)
  BY SpecTypes, FS_Subset
<1>2. all = placed \cup dropped /\ placed \cap dropped = {}
  OBVIOUS
<1>3. Cardinality(placed) \in Nat /\ Cardinality(dropped) \in Nat
  BY <1>1, FS_CardinalityType
<1>4. Rules([i \in live |-> specs[i]]) = Cardinality(placed)
  <2>1. {i \in DOMAIN [j \in live |-> specs[j]] : [j \in live |-> specs[j]][i].rule} = placed
    OBVIOUS
  <2> QED
    BY <2>1, Zenon DEF Rules
<1>5. Rules([i \in DOMAIN specs \ live |-> specs[i]]) = Cardinality(dropped)
  <2> DEFINE D == DOMAIN specs \ live
  <2>1. {i \in DOMAIN [j \in D |-> specs[j]] : [j \in D |-> specs[j]][i].rule} = dropped
    OBVIOUS
  <2> QED
    BY <2>1, Zenon DEF Rules
<1>6. Rules(specs) = Cardinality(all)
  BY DEF Rules
<1> HIDE DEF placed, dropped, all
<1>7. Cardinality(placed \cup dropped) =
         Cardinality(placed) + Cardinality(dropped) - Cardinality({})
  BY <1>1, <1>2, FS_Union
<1> QED
  BY <1>2, <1>3, <1>4, <1>5, <1>6, <1>7, FS_EmptySet

\* The bottom of the last panel, reserved, is the bottom of the frame.
LEMMA LastAtBottom ==
  ASSUME IInv, Shown, specs[Len(specs)].reserve
  PROVE  \E g \in Regions : g.panel = Len(specs) /\ g.y + g.h = rows
<1> DEFINE n == Len(specs)
           region == [panel |-> n, y |-> PanelY(n), h |-> height[n]]
<1>1. /\ specs \in Seq(PanelSpec) /\ rows \in Nat /\ live \subseteq DOMAIN specs
      /\ specs # <<>> /\ height \in [live -> Nat] /\ used \in Nat /\ used = sumHeight(live)
      /\ Gap \in Nat /\ used + Gap = rows
  BY ShownFacts
<1>2. n \in Nat /\ DOMAIN specs = 1 .. n /\ n \in DOMAIN specs
  BY <1>1
<1>3. n \in live /\ n \in Trailing
  BY <1>1, <1>2 DEF IInv, Placed, Trailing
<1>4. Above(n) = live \ {n}
  BY <1>1, <1>2 DEF Above
<1>5. IsFiniteSet(live) /\ height[n] \in Nat
  BY <1>1, <1>3, PanelSums
<1>6. sumHeight(live) = height[n] + sumHeight(Above(n))
  <2>1. sumHeight(live) = height[n] + sumHeight(live \ {n})
    BY <1>1, <1>3, HeightSum DEF IInv
  <2> QED
    BY <1>4, <2>1, Zenon
<1>7. PanelY(n) = sumHeight(Above(n)) + Gap /\ sumHeight(Above(n)) \in Nat
  BY <1>1, <1>3, Parted, Stacked
<1>8. PanelY(n) + height[n] = rows
  BY <1>1, <1>5, <1>6, <1>7
<1>9. region \in Regions
  BY <1>3, RegionsAre DEF PanelRegions
<1> QED
  BY <1>8, <1>9

\* The cells of a table's columns, and of each with the separator after it.
LEMMA ColumnSums ==
  ASSUME NEW columns \in Seq(Column), NEW active \in SUBSET DOMAIN columns
  PROVE  /\ IsFiniteSet(active)
         /\ Cardinality(active) \in Nat
         /\ SumFunctionOnSet([i \in active |-> columns[i].width], active) \in Nat
         /\ \A S \in SUBSET active :
               SumFunctionOnSet([i \in S |-> columns[i].width + 1], S) =
                   SumFunctionOnSet([i \in active |-> columns[i].width + 1], S)
         /\ SumFunctionOnSet([i \in active |-> columns[i].width + 1], active) =
                SumFunctionOnSet([i \in active |-> columns[i].width], active)
                    + Cardinality(active)
<1> DEFINE f == [i \in active |-> columns[i].width]
           g == [i \in active |-> columns[i].width + 1]
<1>1. IsFiniteSet(active)
  <2>1. Len(columns) \in Nat /\ DOMAIN columns = 1 .. Len(columns)
    OBVIOUS
  <2>2. IsFiniteSet(DOMAIN columns)
    BY <2>1, FS_Interval
  <2> QED
    BY <2>2, FS_Subset
<1>2. \A i \in active : f[i] \in Nat /\ g[i] = f[i] + 1 /\ g[i] = columns[i].width + 1
  <2>1. \A i \in DOMAIN columns : columns[i] \in Column
    OBVIOUS
  <2> QED
    BY <2>1 DEF Column
<1> HIDE DEF f, g
<1>3. SumFunctionOnSet(f, active) \in Nat
  BY <1>1, <1>2, SumTakeOut
<1>4. SumFunctionOnSet(g, active) = SumFunctionOnSet(f, active) + Cardinality(active)
  BY <1>1, <1>2, SumPlusOne
<1>5. ASSUME NEW S \in SUBSET active
      PROVE  SumFunctionOnSet([i \in S |-> columns[i].width + 1], S) = SumFunctionOnSet(g, S)
  <2> DEFINE k == [i \in S |-> columns[i].width + 1]
  <2>1. \A i \in S : k[i] \in Nat /\ k[i] = g[i]
    BY <1>2
  <2> HIDE DEF k
  <2>2. IsFiniteSet(S)
    BY <1>1, FS_Subset
  <2>3. SumFunctionOnSet(k, S) = SumFunctionOnSet(g, S)
    BY <2>1, <2>2, SumsAgree
  <2> QED
    BY <2>3 DEF k
<1>6. Cardinality(active) \in Nat
  BY <1>1, FS_CardinalityType
<1> QED
  BY <1>1, <1>3, <1>4, <1>5, <1>6 DEF f, g

\* The columns there are at a width are those there are at a width that was checked when
\* the dashboard was loaded, and no wider.
LEMMA BudgetHolds ==
  ASSUME NEW columns \in Seq(Column), NEW floor \in Nat, floor > 0,
         validateWidthBudget(columns, floor), NEW w \in Nat, w >= floor
  PROVE  ColumnsNeed(columns, w) <= w
<1> DEFINE short == {n \in Nat : \E b \in Breakpoints(columns, floor) : b <= w /\ n = w - b}
<1>1. \A i \in DOMAIN columns : columns[i].minCols \in Nat /\ columns[i].width \in Nat
  <2>1. \A i \in DOMAIN columns : columns[i] \in Column
    OBVIOUS
  <2> QED
    BY <2>1 DEF Column
<1>2. Breakpoints(columns, floor) \subseteq Nat
  BY <1>1 DEF Breakpoints
<1>3. w - floor \in short
  BY DEF Breakpoints
<1>4. PICK n \in short : \A m \in short : n <= m
  <2>1. short # {} /\ short \in SUBSET Nat
    BY <1>3
  <2> HIDE DEF short
  <2> QED
    BY <2>1, LeastNumber
<1>5. PICK b \in Breakpoints(columns, floor) : b <= w /\ n = w - b
  BY <1>4
<1>6. \A c \in Breakpoints(columns, floor) : c <= w => c <= b
  <2> SUFFICES ASSUME NEW c \in Breakpoints(columns, floor), c <= w PROVE c <= b
    OBVIOUS
  <2>1. w - c \in short
    BY <1>2
  <2> QED
    BY <1>2, <1>4, <1>5, <2>1
<1>7. ActiveColumns(columns, w) = ActiveColumns(columns, b)
  <2> SUFFICES ASSUME NEW i \in DOMAIN columns
               PROVE  columns[i].minCols <= w <=> columns[i].minCols <= b
    BY DEF ActiveColumns
  <2>1. columns[i].minCols # 0 => columns[i].minCols \in Breakpoints(columns, floor)
    BY DEF Breakpoints
  <2> QED
    BY <1>1, <1>2, <1>5, <1>6, <2>1
<1>8. ColumnsNeed(columns, w) = ColumnsNeed(columns, b)
  BY <1>7 DEF ColumnsNeed
<1>9. ColumnsNeed(columns, b) <= b
  BY <1>5 DEF validateWidthBudget
<1>10. ColumnsNeed(columns, b) \in Int
  <2> DEFINE active == ActiveColumns(columns, b)
  <2>1. active \in SUBSET DOMAIN columns
    BY DEF ActiveColumns
  <2> HIDE DEF active
  <2>2. /\ SumFunctionOnSet([i \in active |-> columns[i].width], active) \in Nat
        /\ Cardinality(active) \in Nat
    BY <2>1, ColumnSums
  <2> QED
    BY <2>2 DEF ColumnsNeed, active
<1> QED
  BY <1>2, <1>5, <1>8, <1>9, <1>10

\* Within the budget each column has its cells, but for one of the last if none is left
\* for the marker.
LEMMA CellsFit ==
  ASSUME NEW columns \in Seq(Column), NEW w \in Nat, ColumnsNeed(columns, w) <= w,
         NEW c \in ActiveColumns(columns, w)
  PROVE  CellsDrawn(columns, c, w) >=
             IF ColumnsNeed(columns, w) = w /\ ~\E k \in ActiveColumns(columns, w) : k > c
             THEN columns[c].width - 1
             ELSE columns[c].width
<1> DEFINE active == ActiveColumns(columns, w)
           before == {j \in active : j < c}
           f == [i \in active |-> columns[i].width]
           g == [i \in active |-> columns[i].width + 1]
           sum(S) == SumFunctionOnSet(g, S)
           start == 1 + sum(before)
<1>1. active \in SUBSET DOMAIN columns /\ c \in active
  BY DEF ActiveColumns
<1>2. \A i \in active : i \in Nat /\ columns[i].width \in Nat /\ g[i] = columns[i].width + 1
  <2>1. DOMAIN columns \subseteq Nat /\ \A i \in DOMAIN columns : columns[i] \in Column
    OBVIOUS
  <2> QED
    BY <1>1, <2>1 DEF Column
<1>3. ColumnsNeed(columns, w) = SumFunctionOnSet(f, active) + (Cardinality(active) - 1)
  BY <1>1 DEF ColumnsNeed
<1> HIDE DEF active
<1>4. /\ IsFiniteSet(active)
      /\ \A S \in SUBSET active :
            SumFunctionOnSet([i \in S |-> columns[i].width + 1], S) = sum(S)
      /\ sum(active) = SumFunctionOnSet(f, active) + Cardinality(active)
      /\ SumFunctionOnSet(f, active) \in Nat /\ Cardinality(active) \in Nat
  BY <1>1, ColumnSums
<1>5. sum(active) <= w + 1
  BY <1>3, <1>4
<1> HIDE DEF f, g
<1>6. \A S, T \in SUBSET active :
         /\ sum(S) \in Nat
         /\ S \subseteq T => sum(S) <= sum(T)
         /\ \A i \in S : sum(S) = columns[i].width + 1 + sum(S \ {i})
  <2>1. \A i \in active : g[i] \in Nat
    BY <1>2
  <2>2. \A S, T \in SUBSET active : sum(S) \in Nat /\ (S \subseteq T => sum(S) <= sum(T))
    BY <1>4, <2>1, SumTakeOut, SumMonotone, FS_Subset
  <2>3. \A S \in SUBSET active : \A i \in S : sum(S) = g[i] + sum(S \ {i})
    BY <1>4, <2>1, SumTakeOut, FS_Subset
  <2> QED
    BY <1>2, <2>2, <2>3
<1>7. /\ before \in SUBSET active /\ active \in SUBSET active
      /\ before \cup {c} \in SUBSET active /\ (before \cup {c}) \ {c} = before
  BY <1>1, <1>2
<1>8. CellsDrawn(columns, c, w) =
         AtMost(columns[c].width, IF start > w THEN 0 ELSE w - start)
  BY <1>4, <1>7, Zenon DEF CellsDrawn, active
<1> HIDE DEF before, sum
<1>9. sum(before \cup {c}) = columns[c].width + 1 + sum(before)
  <2>1. sum(before \cup {c}) = columns[c].width + 1 + sum((before \cup {c}) \ {c})
    BY <1>6, <1>7
  <2> QED
    BY <1>7, <2>1, Zenon
<1>10. sum(before) \in Nat /\ columns[c].width \in Nat /\ sum(active) \in Nat
  BY <1>1, <1>2, <1>6, <1>7
<1>11. CASE \E k \in active : k > c
  <2>1. PICK k \in active : k > c
    BY <1>11
  <2> DEFINE more == (before \cup {c}) \cup {k}
  <2>2. more \in SUBSET active /\ k \in more /\ more \ {k} = before \cup {c}
    BY <1>1, <1>2, <1>7, <2>1 DEF before
  <2>3. sum(more) = columns[k].width + 1 + sum(before \cup {c})
    <3>1. sum(more) = columns[k].width + 1 + sum(more \ {k})
      BY <1>6, <2>2
    <3> QED
      BY <2>2, <3>1, Zenon
  <2>4. sum(more) <= sum(active) /\ columns[k].width \in Nat
    BY <1>2, <1>6, <1>7, <2>1, <2>2
  <2> HIDE DEF more
  <2>5. start + columns[c].width <= w
    <3>1. sum(more) \in Nat /\ sum(active) \in Nat
      BY <1>6, <1>7, <2>2
    <3>2. sum(more) = columns[k].width + 1 + (columns[c].width + 1 + sum(before))
      BY <1>9, <2>3
    <3>3. sum(more) <= sum(active) /\ sum(active) <= w + 1
      BY <1>5, <2>4
    <3>4. sum(more) <= w + 1
      BY <3>1, <3>3
    <3>5. columns[k].width + 1 + (columns[c].width + 1 + sum(before)) <= w + 1
      BY <3>2, <3>4
    <3>6. \A x, y, s \in Nat : x + 1 + (y + 1 + s) <= w + 1 => 1 + s + y <= w
      OBVIOUS
    <3> QED
      BY <1>10, <2>4, <3>5, <3>6
  <2>6. AtMost(columns[c].width, IF start > w THEN 0 ELSE w - start) >= columns[c].width
    BY <1>10, <2>5 DEF AtMost
  <2> QED
    BY <1>8, <1>10, <1>11, <2>6 DEF active
<1>12. CASE ~\E k \in active : k > c
  <2>1. sum(before \cup {c}) <= sum(active)
    BY <1>6, <1>7
  <2>2. start + columns[c].width <= w + 1
    BY <1>5, <1>9, <1>10, <2>1
  <2>3. AtMost(columns[c].width, IF start > w THEN 0 ELSE w - start) >= columns[c].width - 1
    BY <1>10, <2>2 DEF AtMost
  <2>4. CASE ColumnsNeed(columns, w) = w
    BY <1>8, <1>12, <2>3, <2>4 DEF active
  <2>5. CASE ColumnsNeed(columns, w) # w
    <3>1. sum(active) <= w
      BY <1>3, <1>4, <1>10, <2>5
    <3>2. start + columns[c].width <= w
      BY <1>9, <1>10, <2>1, <3>1
    <3>3. AtMost(columns[c].width, IF start > w THEN 0 ELSE w - start) >= columns[c].width
      BY <1>10, <3>2 DEF AtMost
    <3> QED
      BY <1>8, <1>12, <2>5, <3>3 DEF active
  <2> QED
    BY <2>4, <2>5
<1> QED
  BY <1>11, <1>12

\* A panel with the height it would like draws all it has.
LEMMA RowsFit ==
  ASSUME IInv, Shown, NEW i \in live
  PROVE  RowsShown(i)
<1> DEFINE p == dash.panels[i]
           w == size.w - 2
<1> SUFFICES ASSUME height[i] >= Natural(specs[i]),
                    p.type = "table" => ActiveColumns(p.columns, w) # {},
                    p.type = "detail" => FieldsPerLine(w) = 2
             PROVE  ItemsDrawn(p, snap, w, height[i]) = Items(p, snap)
  BY DEF RowsShown
<1>1. /\ i \in DOMAIN dash.panels /\ specs[i] = SpecOf(p, snap) /\ specs[i] \in PanelSpec
      /\ height[i] \in Nat /\ snap \in [contacts : Nat, fired : Nat]
  <2>1. specs \in Seq(PanelSpec) /\ specs = Build(dash, snap) /\ live \subseteq DOMAIN specs
        /\ height \in [live -> Nat] /\ snap \in Snapshots
    BY ShownFacts
  <2>2. DOMAIN specs = DOMAIN dash.panels
    BY <2>1 DEF Build
  <2>3. specs[i] = SpecOf(p, snap)
    BY <2>1, <2>2 DEF Build
  <2>4. i \in DOMAIN specs /\ specs[i] \in PanelSpec /\ height[i] \in Nat
    BY <2>1
  <2>5. snap \in [contacts : Nat, fired : Nat]
    BY <2>1, ScreenAssumption
  <2> QED
    BY <2>2, <2>3, <2>4, <2>5
<1>2. p \in Panel /\ p.type \in Types
  BY <1>1, ShownFacts, Accepted
<1>3. p.fields \in Nat /\ snap.contacts \in Nat /\ snap.fired \in Nat
  BY <1>1, <1>2 DEF Panel
<1> HIDE DEF p, w
<1>4. CASE p.type = "table"
  <2>1. Contacts(p, snap) \in Nat /\ NoteLines(p) \in {0, 1}
    BY <1>3 DEF Contacts, NoteLines
  <2>2. specs[i].min = 3 /\ specs[i].nat = Contacts(p, snap) + 2
    BY <1>1, <1>4 DEF SpecOf, TableRows
  <2>3. height[i] >= Contacts(p, snap) + 2
    BY <1>1, <2>1, <2>2 DEF Natural, minOf
  <2>4. AtMost(Contacts(p, snap), height[i] - 1 - NoteLines(p)) = Contacts(p, snap)
    BY <1>1, <2>1, <2>3 DEF AtMost
  <2> QED
    BY <1>4, <2>4 DEF ItemsDrawn, Items
<1>5. CASE p.type = "detail"
  <2>1. specs[i].min = 2 /\ specs[i].nat = (p.fields + 1) \div 2 + 1
    BY <1>1, <1>5 DEF SpecOf
  <2>2. (p.fields + 1) \div 2 \in Nat /\ 2 * ((p.fields + 1) \div 2) + 1 >= p.fields + 1
    BY <1>3
  <2>3. height[i] >= (p.fields + 1) \div 2 + 1
    BY <1>1, <2>1, <2>2 DEF Natural, minOf
  <2>4. AtMost(p.fields, height[i] * 2) = p.fields
    BY <1>1, <1>3, <2>2, <2>3 DEF AtMost
  <2>5. FieldsPerLine(w) = 2
    BY <1>5
  <2> QED
    BY <1>5, <2>4, <2>5 DEF ItemsDrawn, Items
<1>6. CASE p.type = "decisions"
  <2>1. specs[i].min = 1 /\ specs[i].nat = AtLeastOne(snap.fired)
    BY <1>1, <1>6 DEF SpecOf
  <2>2. height[i] >= snap.fired
    BY <1>1, <1>3, <2>1 DEF Natural, minOf, AtLeastOne
  <2>3. AtMost(snap.fired, height[i]) = snap.fired
    BY <1>1, <1>3, <2>2 DEF AtMost
  <2> QED
    BY <1>6, <2>3 DEF ItemsDrawn, Items
<1>7. CASE p.type \notin {"table", "detail", "decisions"}
  BY <1>7 DEF ItemsDrawn, Items
<1> QED
  BY <1>4, <1>5, <1>6, <1>7

\* A table has its columns.
LEMMA ColumnsFit ==
  ASSUME IInv, Shown, NEW i \in live
  PROVE  CellsShown(i)
<1> DEFINE columns == dash.panels[i].columns
           w == size.w - 2
           active == ActiveColumns(columns, w)
<1> SUFFICES ASSUME dash.panels[i].type = "table", NEW c \in active
             PROVE  CellsDrawn(columns, c, w) >=
                        IF ColumnsNeed(columns, w) = w /\ ~\E k \in active : k > c
                        THEN columns[c].width - 1
                        ELSE columns[c].width
  BY DEF CellsShown
<1>1. /\ i \in DOMAIN dash.panels /\ dash \in Dashboards /\ Loads(dash)
      /\ size.w \in Nat /\ w >= dash.minCols
  BY ShownFacts DEF Build
<1>2. /\ dash.panels[i] \in Panel /\ dash.minCols \in Int /\ dash.minCols > 0
      /\ validateWidthBudget(columns, dash.minCols)
  BY <1>1, Accepted DEF Dashboard
<1>3. columns \in Seq(Column) /\ w \in Nat /\ dash.minCols \in Nat
  BY <1>1, <1>2 DEF Panel
<1>4. ColumnsNeed(columns, w) <= w
  BY <1>1, <1>2, <1>3, BudgetHolds
<1> QED
  BY <1>3, <1>4, CellsFit

\* View turns a terminal away for want of the floor, the borders and the rules.
LEMMA FloorUnmet ==
  ASSUME IInv, view = "refusal"
  PROVE  TooSmall
<1> DEFINE built == Build(dash, snap)
           titled == {i \in DOMAIN dash.panels :
                         dash.panels[i].type \in {"table", "detail", "chart", "status_bar"}}
<1>1. /\ dash \in Dashboards /\ Loads(dash) /\ snap \in Snapshots
      /\ size.w \in Nat /\ size.h \in Nat
      /\ size.w - 2 < dash.minCols \/ size.h - 2 - Rules(built) < dash.minRows
  BY DEF IInv, Session
<1>2. dash.minCols \in Int /\ dash.minRows \in Int /\ Rules(built) \in Nat
  BY <1>1, Accepted, BuildType DEF Dashboard
<1>3. DOMAIN built = DOMAIN dash.panels
  BY DEF Build
<1>4. ASSUME NEW i \in DOMAIN dash.panels
      PROVE  built[i].rule <=> i \in titled
  <2>1. built[i] = SpecOf(dash.panels[i], snap) /\ dash.panels[i].type \in Types
    BY <1>1, <1>4, Accepted DEF Build
  <2> QED
    BY <1>4, <2>1 DEF SpecOf, Types
<1> HIDE DEF built
<1>5. {i \in DOMAIN built : built[i].rule} = titled
  BY <1>3, <1>4
<1>6. Rules(built) = Cardinality(titled)
  BY <1>5 DEF Rules
<1> HIDE DEF titled
<1>7. size.w < dash.minCols + 2 \/ size.h < dash.minRows + 2 + Cardinality(titled)
  BY <1>1, <1>2, <1>6
<1> QED
  BY <1>7 DEF TooSmall, titled

-------------------------------------------------------------------------------
(* The theorems *)

\* The grid is divided among the panels and the gap without a row lost or given twice,
\* and no frame is higher than the terminal, nor lower but for the rules of dropped panels.
THEOREM EveryRowIsAssigned == Spec => []EveryRowAssigned
<1>1. ASSUME IInv PROVE EveryRowAssigned
  <2> SUFFICES ASSUME Shown
               PROVE  /\ \A r \in 0 .. rows - 1 :
                            Cardinality({g \in Regions : g.y <= r /\ r < g.y + g.h}) = 1
                      /\ \A g \in Regions : g.y >= 0 /\ g.y + g.h <= rows
                      /\ Lines <= size.h
                      /\ live = DOMAIN specs => Lines = size.h
    BY DEF EveryRowAssigned
  <2>1. \A r \in 0 .. rows - 1 :
           Cardinality({g \in Regions : g.y <= r /\ r < g.y + g.h}) = 1
    BY <1>1, RowInOneRegion
  <2>2. /\ specs \in Seq(PanelSpec) /\ rows \in Nat /\ live \subseteq DOMAIN specs
        /\ used \in Nat /\ used = sumHeight(live) /\ Gap \in Nat /\ used + Gap = rows
        /\ rows = size.h - 2 - Rules(specs) /\ size.h \in Nat
    BY <1>1, ShownFacts
  <2>3. ASSUME NEW g \in Regions
        PROVE  g.y >= 0 /\ g.y + g.h <= rows
    <3>1. CASE g \in PanelRegions
      <4>1. PICK i \in live : g = [panel |-> i, y |-> PanelY(i), h |-> height[i]]
        BY <3>1 DEF PanelRegions
      <4>2. PanelY(i) \in Nat /\ PanelY(i) + height[i] <= rows
        BY <1>1, Parted
      <4> QED
        BY <4>1, <4>2
    <3>2. CASE g \in GapRegions
      <4>1. g = [panel |-> -1, y |-> GapY, h |-> Gap]
        BY <3>2 DEF GapRegions
      <4>2. GapY \in Nat /\ GapY <= used
        BY <1>1, Parted
      <4> QED
        BY <2>2, <4>1, <4>2
    <3> QED
      BY <3>1, <3>2, RegionsAre
  <2>4. Lines + Rules([i \in DOMAIN specs \ live |-> specs[i]]) = size.h
    <3> DEFINE a == Rules([i \in live |-> specs[i]])
               b == Rules([i \in DOMAIN specs \ live |-> specs[i]])
    <3>1. a \in Nat /\ b \in Nat /\ Rules(specs) = a + b
      BY <2>2, RulesParted
    <3>2. Lines = 2 + a + used + Gap
      BY <2>2 DEF Lines
    <3> HIDE DEF a, b
    <3>3. 2 + a + used + Gap + b = size.h
      <4>1. rows = size.h - 2 - Rules(specs) /\ size.h \in Nat
        BY <2>2
      <4>2. size.h = rows + 2 + (a + b)
        BY <3>1, <4>1
      <4>3. used \in Nat /\ Gap \in Nat /\ rows = used + Gap
        BY <2>2
      <4> QED
        BY <3>1, <4>2, <4>3
    <3>4. Lines + b = size.h
      BY <3>2, <3>3
    <3> QED
      BY <3>4 DEF b
  <2>5. Lines <= size.h
    <3> DEFINE b == Rules([i \in DOMAIN specs \ live |-> specs[i]])
    <3>1. b \in Nat /\ Lines = size.h - b
      <4>1. Rules([i \in live |-> specs[i]]) \in Nat /\ b \in Nat
        BY <2>2, RulesParted
      <4>2. Lines \in Nat
        BY <2>2, <4>1 DEF Lines
      <4> QED
        BY <2>2, <2>4, <4>1, <4>2
    <3> HIDE DEF b
    <3> QED
      BY <2>2, <3>1
  <2>6. ASSUME live = DOMAIN specs PROVE Lines = size.h
    <3> DEFINE a == Rules([i \in live |-> specs[i]])
    <3>1. a = Rules(specs) /\ Lines = 2 + a + used + Gap
      BY <2>2, <2>6 DEF Rules, Lines
    <3>2. a \in Nat
      BY <2>2, RulesParted
    <3> HIDE DEF a
    <3>3. rows = size.h - 2 - a /\ size.h \in Nat
      BY <2>2, <3>1
    <3>4. rows = used + Gap /\ used \in Nat /\ Gap \in Nat
      BY <2>2
    <3> QED
      BY <3>1, <3>2, <3>3, <3>4
  <2> QED
    BY <2>1, <2>3, <2>5, <2>6
<1> QED
  BY <1>1, SpecIInv, PTL

\* What is reserved stays, with its minimum at least, and at the bottom if it is last.
THEOREM ReservedStays == Spec => []ReservedStay
<1>1. IInv => ReservedStay
  BY LastAtBottom DEF IInv, ReservedStay, Shown, Placed, Counted, Given
<1> QED
  BY <1>1, SpecIInv, PTL

\* Who is dropped and who is squeezed is decided by drop rank and position alone.
THEOREM ImportanceDecidesAlways == Spec => []ImportanceDecides
<1>1. IInv => ImportanceDecides
  BY DEF IInv, ImportanceDecides, Shown, Placed, Squashed, Given
<1> QED
  BY <1>1, SpecIInv, PTL

\* Rows are left over only when no elastic panel can take them, and are given by rank.
THEOREM SpaceIsNotTrapped == Spec => []SpaceNotTrapped
<1>1. ASSUME IInv PROVE SpaceNotTrapped
  <2> SUFFICES ASSUME Shown PROVE SpaceNotTrapped
    BY DEF SpaceNotTrapped
  <2>1. /\ live \subseteq DOMAIN specs /\ specs \in Seq(PanelSpec)
        /\ used \in Nat /\ rows \in Nat /\ used + Gap = rows /\ Gap \in Nat
    BY <1>1, ShownFacts
  <2>2. /\ used < rows => \A i \in live \ pending : specs[i].elastic > 0 => AtCap(i)
        /\ used < rows => \A i \in pending : specs[i].elastic = 0
        /\ \A i \in live :
              height[i] > Natural(specs[i]) =>
                  /\ specs[i].max > 0 => height[i] <= specs[i].max
                  /\ \A j \in live : specs[j].elastic > specs[i].elastic => AtCap(j)
    BY <1>1 DEF IInv, Growing, Shown
  <2>3. Gap > 0 => \A i \in live : specs[i].elastic > 0 => AtCap(i)
    BY <2>1, <2>2, SpecTypes
  <2> QED
    BY <2>2, <2>3 DEF SpaceNotTrapped
<1> QED
  BY <1>1, SpecIInv, PTL

\* A terminal is refused only when what may not be dropped needs more than it has.
THEOREM RefusedForCauseAlways == Spec => []RefusedForCause
<1>1. ASSUME IInv PROVE RefusedForCause
  <2>1. view = "refusal" => TooSmall
    BY <1>1, FloorUnmet
  <2> QED
    BY <1>1, <2>1 DEF IInv, Refused, RefusedForCause
<1> QED
  BY <1>1, SpecIInv, PTL

\* What Load accepts is drawn whole where it fits: data that has its rows, and the
\* columns of a table, at every width.
THEOREM WhatFitsIsDrawn == Spec => []DrawnWhole
<1>1. IInv => DrawnWhole
  BY RowsFit, ColumnsFit DEF DrawnWhole
<1> QED
  BY <1>1, SpecIInv, PTL

===============================================================================
