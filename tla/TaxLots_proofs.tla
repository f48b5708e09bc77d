--------------------------- MODULE TaxLots_proofs ---------------------------
(***************************************************************************)
(* Proofs about TaxLots: the sums and the loop over the wins are recursive *)
(* functions, so what they compute is proved by induction on the number of *)
(* their indexes, from the least element of a set of natural numbers.      *)
(***************************************************************************)
EXTENDS TaxLots, FiniteSetTheorems, SequenceTheorems, WellFoundedInduction, TLAPS

-----------------------------------------------------------------------------
(* Induction, and recursion over the subsets of a finite set.              *)

\* A set of natural numbers that is not empty has a least one.
LEMMA LeastNatural ==
  ASSUME NEW S \in SUBSET Nat, S # {}
  PROVE  \E i \in S : \A k \in S : i <= k
<1>1. PICK i \in S : \A k \in S : ~ (<<k, i>> \in OpToRel(<, Nat))
  BY NatLessThanWellFounded, WFMin, Zenon
<1>2. \A k \in S : ~ (k < i)
  <2> SUFFICES ASSUME NEW k \in S, k < i PROVE <<k, i>> \in OpToRel(<, Nat)
    BY <1>1
  <2>1. <<k, i>> \in Nat \X Nat
    OBVIOUS
  <2> QED BY <2>1, Zenon DEF OpToRel
<1> QED BY <1>2

\* Induction on a set of numbers.
LEMMA AllNumbers ==
  ASSUME NEW P \in SUBSET Nat, 0 \in P, \A n \in P : n + 1 \in P
  PROVE  \A n \in Nat : n \in P
<1> SUFFICES ASSUME Nat \ P # {} PROVE FALSE
  OBVIOUS
<1>1. PICK n \in Nat \ P : \A k \in Nat \ P : n <= k
  BY LeastNatural
<1>2. n # 0 /\ n - 1 \in Nat
  OBVIOUS
<1>3. n - 1 \in P
  BY <1>1, <1>2
<1> QED BY <1>1, <1>3

\* A finite set loses one element.
LEMMA OneLess ==
  ASSUME NEW s, IsFiniteSet(s), s # {}, NEW x \in s
  PROVE  /\ IsFiniteSet(s \ {x})
         /\ Cardinality(s) \in Nat /\ Cardinality(s \ {x}) = Cardinality(s) - 1
BY FS_RemoveElement, FS_CardinalityType

First(s) == CHOOSE x \in s : TRUE

LEMMA FirstIn == ASSUME NEW s, s # {} PROVE First(s) \in s
BY DEF First

\* One turn of a recursion over sets: an element is picked, the rest goes first.
Turn(b, pick, step, g, s) ==
  IF s = {} THEN b ELSE step[<<pick[s], g[s \ {pick[s]}]>>]

Small(S, n) == {s \in SUBSET S : Cardinality(s) <= n}
RecursionUpTo(S, V, b, pick, step, n, g) ==
  /\ g \in [Small(S, n) -> V]
  /\ \A s \in Small(S, n) : g[s] = Turn(b, pick, step, g, s)
Recursion(S, V, b, pick, step, g) ==
  /\ g \in [SUBSET S -> V]
  /\ \A s \in SUBSET S : g[s] = Turn(b, pick, step, g, s)

\* A recursion over the subsets of a finite set has a solution.
LEMMA RecursionExists ==
  ASSUME NEW S, IsFiniteSet(S), NEW V, NEW b \in V, NEW step \in [S \X V -> V],
         NEW pick, \A s \in SUBSET S : s # {} => pick[s] \in s
  PROVE  \E g : Recursion(S, V, b, pick, step, g)
<1> DEFINE P == {n \in Nat : \E g : RecursionUpTo(S, V, b, pick, step, n, g)}
<1>1. \A s \in SUBSET S : IsFiniteSet(s) /\ Cardinality(s) \in Nat
  BY FS_Subset, FS_CardinalityType
<1>2. 0 \in P
  <2>1. \A s \in Small(S, 0) : s = {}
    BY <1>1, FS_EmptySet DEF Small
  <2>2. RecursionUpTo(S, V, b, pick, step, 0, [s \in Small(S, 0) |-> b])
    BY <2>1 DEF RecursionUpTo, Turn
  <2> QED BY <2>2
<1>3. ASSUME NEW n \in P PROVE n + 1 \in P
  <2>1. n \in Nat
    OBVIOUS
  <2>2. PICK g : RecursionUpTo(S, V, b, pick, step, n, g)
    OBVIOUS
  <2> DEFINE h == [s \in Small(S, n + 1) |-> Turn(b, pick, step, g, s)]
  <2>3. ASSUME NEW s \in Small(S, n + 1), s # {}
        PROVE  /\ pick[s] \in S /\ s \ {pick[s]} \in Small(S, n)
               /\ s \ {pick[s]} \in Small(S, n + 1)
    <3>1. pick[s] \in s
      BY <2>3 DEF Small
    <3>2. Cardinality(s \ {pick[s]}) = Cardinality(s) - 1 /\ Cardinality(s) \in Nat
      BY <1>1, <2>3, <3>1, OneLess DEF Small
    <3> QED BY <2>1, <3>1, <3>2 DEF Small
  <2>4. h \in [Small(S, n + 1) -> V]
    <3> SUFFICES ASSUME NEW s \in Small(S, n + 1) PROVE Turn(b, pick, step, g, s) \in V
      OBVIOUS
    <3>1. CASE s # {}
      <4>1. g[s \ {pick[s]}] \in V
        BY <2>2, <2>3, <3>1 DEF RecursionUpTo
      <4> QED BY <2>3, <3>1, <4>1 DEF Turn
    <3> QED BY <3>1 DEF Turn
  <2>5. ASSUME NEW s \in Small(S, n + 1) PROVE h[s] = Turn(b, pick, step, h, s)
    <3>1. CASE s # {}
      <4> DEFINE t == s \ {pick[s]}
      <4>1. h[s] = step[<<pick[s], g[t]>>]
        BY <3>1 DEF Turn
      <4>2. h[t] = Turn(b, pick, step, g, t) /\ g[t] = Turn(b, pick, step, g, t)
        BY <2>2, <2>3, <3>1 DEF RecursionUpTo
      <4> HIDE DEF h
      <4> QED BY <3>1, <4>1, <4>2 DEF Turn
    <3> QED BY <3>1 DEF Turn
  <2> HIDE DEF h
  <2>6. RecursionUpTo(S, V, b, pick, step, n + 1, h)
    BY <2>4, <2>5 DEF RecursionUpTo
  <2> QED BY <2>1, <2>6
<1> HIDE DEF P
<1>4. Cardinality(S) \in P
  <2>1. Cardinality(S) \in Nat /\ P \in SUBSET Nat
    BY FS_CardinalityType DEF P
  <2> QED BY <1>2, <1>3, <2>1, AllNumbers
<1>5. PICK g : RecursionUpTo(S, V, b, pick, step, Cardinality(S), g)
  BY <1>4 DEF P
<1>6. Small(S, Cardinality(S)) = SUBSET S
  BY FS_Subset DEF Small
<1>7. Recursion(S, V, b, pick, step, g)
  BY <1>5, <1>6 DEF RecursionUpTo, Recursion
<1> QED BY <1>7

-----------------------------------------------------------------------------
(* Sums.                                                                   *)

SumRec(f, S, g) ==
  g = [s \in SUBSET S |->
        IF s = {} THEN 0
        ELSE f[CHOOSE x \in s : TRUE] + g[s \ {CHOOSE x \in s : TRUE}]]

LEMMA SumUnfold ==
  ASSUME NEW f, NEW S
  PROVE  SumFunctionOnSet(f, S) = (CHOOSE g : SumRec(f, S, g))[S]
BY DEF SumFunctionOnSet, FoldFunctionOnSet, MapThenFoldSet, SumRec

\* Solutions agree wherever the functions do.
LEMMA SolutionsAgree ==
  ASSUME NEW S, NEW T, NEW f, NEW e, NEW g, NEW h, SumRec(f, S, g), SumRec(e, T, h),
         NEW r \in SUBSET S, r \in SUBSET T, IsFiniteSet(r), \A x \in r : f[x] = e[x]
  PROVE  g[r] = h[r]
<1> DEFINE P == {n \in Nat : \A q \in SUBSET r : Cardinality(q) <= n => g[q] = h[q]}
<1>1. \A q \in SUBSET r : IsFiniteSet(q) /\ Cardinality(q) \in Nat
  BY FS_Subset, FS_CardinalityType
<1>2. \A q \in SUBSET r :
        /\ g[q] = IF q = {} THEN 0 ELSE f[First(q)] + g[q \ {First(q)}]
        /\ h[q] = IF q = {} THEN 0 ELSE e[First(q)] + h[q \ {First(q)}]
  BY DEF SumRec, First
<1>3. 0 \in P
  <2>1. \A q \in SUBSET r : Cardinality(q) <= 0 => q = {}
    BY <1>1, FS_EmptySet
  <2> QED BY <1>2, <2>1
<1>4. ASSUME NEW n \in P PROVE n + 1 \in P
  <2> SUFFICES ASSUME NEW q \in SUBSET r, Cardinality(q) <= n + 1 PROVE g[q] = h[q]
    OBVIOUS
  <2>1. CASE q # {}
    <3>1. First(q) \in q
      BY <2>1, FirstIn
    <3>2. Cardinality(q \ {First(q)}) = Cardinality(q) - 1 /\ Cardinality(q) \in Nat
      BY <1>1, <2>1, <3>1, OneLess
    <3>3. g[q \ {First(q)}] = h[q \ {First(q)}]
      BY <3>2
    <3>4. f[First(q)] = e[First(q)]
      BY <3>1
    <3> QED BY <1>2, <2>1, <3>3, <3>4
  <2> QED BY <1>2, <2>1
<1> HIDE DEF P
<1>5. Cardinality(r) \in P
  <2>1. Cardinality(r) \in Nat /\ P \in SUBSET Nat
    BY FS_CardinalityType DEF P
  <2> QED BY <1>3, <1>4, <2>1, AllNumbers
<1> QED BY <1>1, <1>5 DEF P

\* One solution gives the sums over all subsets.
SumTable(f, S, g) ==
  /\ g \in [SUBSET S -> Int]
  /\ SumRec(f, S, g)
  /\ \A s \in SUBSET S : SumFunctionOnSet(f, s) = g[s]

LEMMA RecExists ==
  ASSUME NEW D, NEW f \in [D -> Int], NEW S \in SUBSET D, IsFiniteSet(S)
  PROVE  \E g : SumRec(f, S, g) /\ g \in [SUBSET S -> Int]
<1> DEFINE pick == [s \in SUBSET S |-> First(s)]
           step == [p \in S \X Int |-> f[p[1]] + p[2]]
<1>1. \A s \in SUBSET S : s # {} => pick[s] \in s
  BY FirstIn
<1>2. step \in [S \X Int -> Int]
  OBVIOUS
<1>3. 0 \in Int
  OBVIOUS
<1> HIDE DEF pick, step
<1>4. PICK g : Recursion(S, Int, 0, pick, step, g)
  BY <1>1, <1>2, <1>3, RecursionExists
<1>5. ASSUME NEW s \in SUBSET S
      PROVE  g[s] = IF s = {} THEN 0 ELSE f[First(s)] + g[s \ {First(s)}]
  <2>1. CASE s # {}
    <3>1. First(s) \in S /\ s \ {First(s)} \in SUBSET S /\ pick[s] = First(s)
      BY <2>1, FirstIn DEF pick
    <3>2. g[s \ {First(s)}] \in Int /\ g[s] = step[<<First(s), g[s \ {First(s)}]>>]
      BY <1>4, <2>1, <3>1 DEF Recursion, Turn
    <3> QED BY <2>1, <3>1, <3>2 DEF step
  <2> QED BY <1>4, <2>1 DEF Recursion, Turn
<1>6. SumRec(f, S, g) /\ g \in [SUBSET S -> Int]
  BY <1>4, <1>5 DEF SumRec, Recursion, First
<1> QED BY <1>6

LEMMA SumSolution ==
  ASSUME NEW D, NEW f \in [D -> Int], NEW S \in SUBSET D, IsFiniteSet(S)
  PROVE  \E g : SumTable(f, S, g)
<1>1. PICK g : SumRec(f, S, g) /\ g \in [SUBSET S -> Int]
  BY RecExists
<1>2. ASSUME NEW s \in SUBSET S PROVE SumFunctionOnSet(f, s) = g[s]
  <2>1. IsFiniteSet(s)
    BY FS_Subset
  <2>2. \E h : SumRec(f, s, h)
    BY <2>1, RecExists
  <2>3. SumRec(f, s, CHOOSE h : SumRec(f, s, h))
    BY <2>2
  <2>4. (CHOOSE h : SumRec(f, s, h))[s] = g[s]
    BY <1>1, <2>1, <2>3, SolutionsAgree
  <2> QED BY <2>4, SumUnfold
<1>3. SumTable(f, S, g)
  BY <1>1, <1>2 DEF SumTable
<1> QED BY <1>3

\* A sum of numbers is one; that over no index is 0.
LEMMA SumType ==
  ASSUME NEW D, NEW f \in [D -> Int], NEW S \in SUBSET D, IsFiniteSet(S)
  PROVE  SumFunctionOnSet(f, S) \in Int
<1>1. PICK g : SumTable(f, S, g)
  BY SumSolution
<1> QED BY <1>1 DEF SumTable

LEMMA SumOfNone ==
  ASSUME NEW f
  PROVE  SumFunctionOnSet(f, {}) = 0
<1> DEFINE g == CHOOSE g : SumRec(f, {}, g)
<1>1. SumRec(f, {}, [s \in SUBSET {} |-> 0])
  BY DEF SumRec
<1>2. SumRec(f, {}, g)
  BY <1>1
<1> HIDE DEF g
<1>3. g[{}] = 0
  BY <1>2 DEF SumRec
<1> QED BY <1>3, SumUnfold DEF g

\* Only the summands count.
LEMMA SumSame ==
  ASSUME NEW D, NEW f \in [D -> Int], NEW E, NEW e \in [E -> Int],
         NEW S \in SUBSET D, S \in SUBSET E, IsFiniteSet(S), \A x \in S : f[x] = e[x]
  PROVE  SumFunctionOnSet(f, S) = SumFunctionOnSet(e, S)
<1>1. PICK g : SumTable(f, S, g)
  BY SumSolution
<1>2. PICK h : SumTable(e, S, h)
  BY SumSolution
<1>3. g[S] = h[S]
  BY <1>1, <1>2, SolutionsAgree DEF SumTable
<1> QED BY <1>1, <1>2, <1>3 DEF SumTable

\* Any index can be summed last.
LEMMA SumSplit ==
  ASSUME NEW D, NEW f \in [D -> Int], NEW S \in SUBSET D, IsFiniteSet(S), NEW x \in S
  PROVE  SumFunctionOnSet(f, S) = f[x] + SumFunctionOnSet(f, S \ {x})
<1>0. PICK g : SumTable(f, S, g)
  BY SumSolution
<1>1. g \in [SUBSET S -> Int] /\ SumRec(f, S, g)
  BY <1>0 DEF SumTable
<1> DEFINE P == {n \in Nat : \A q \in SUBSET S : Cardinality(q) <= n =>
                               \A y \in q : g[q] = f[y] + g[q \ {y}]}
<1>2. \A q \in SUBSET S : IsFiniteSet(q) /\ Cardinality(q) \in Nat
  BY FS_Subset, FS_CardinalityType
<1>3. \A q \in SUBSET S : q # {} => g[q] = f[First(q)] + g[q \ {First(q)}]
  BY <1>1 DEF SumRec, First
<1>4. 0 \in P
  <2>1. \A q \in SUBSET S : Cardinality(q) <= 0 => q = {}
    BY <1>2, FS_EmptySet
  <2> QED BY <2>1
<1>5. ASSUME NEW n \in P PROVE n + 1 \in P
  <2> SUFFICES ASSUME NEW q \in SUBSET S, Cardinality(q) <= n + 1, NEW y \in q
               PROVE  g[q] = f[y] + g[q \ {y}]
    OBVIOUS
  <2> DEFINE z == First(q)
  <2>1. z \in q
    BY FirstIn
  <2> HIDE DEF z
  <2>2. CASE y # z
    <3>1. /\ q \ {y} \in SUBSET S /\ Cardinality(q \ {y}) <= n /\ z \in q \ {y}
          /\ q \ {z} \in SUBSET S /\ Cardinality(q \ {z}) <= n /\ y \in q \ {z}
      BY <1>2, <2>1, <2>2, OneLess
    <3>2. g[q \ {y}] = f[z] + g[(q \ {y}) \ {z}] /\ g[q \ {z}] = f[y] + g[(q \ {z}) \ {y}]
      BY <3>1
    <3>3. (q \ {y}) \ {z} = (q \ {z}) \ {y} /\ (q \ {y}) \ {z} \in SUBSET S
      OBVIOUS
    <3>4. g[q] = f[z] + g[q \ {z}]
      BY <1>3, <2>1 DEF z
    <3>5. f[y] \in Int /\ f[z] \in Int /\ g[(q \ {y}) \ {z}] \in Int
      BY <1>1, <2>1, <3>3
    <3>6. \A a, b, c, d, k \in Int : d = b + c /\ k = a + c => b + k = a + d
      OBVIOUS
    <3> DEFINE r == (q \ {y}) \ {z}
    <3>7. g[q \ {y}] = f[z] + g[r] /\ g[q \ {z}] = f[y] + g[r] /\ g[r] \in Int
      BY <3>2, <3>3, <3>5
    <3> HIDE DEF r
    <3> QED BY <3>4, <3>5, <3>7
  <2>3. CASE y = z
    BY <1>3, <2>3 DEF z
  <2> QED BY <2>2, <2>3
<1> HIDE DEF P
<1>6. Cardinality(S) \in P
  <2>1. Cardinality(S) \in Nat /\ P \in SUBSET Nat
    BY FS_CardinalityType DEF P
  <2> QED BY <1>4, <1>5, <2>1, AllNumbers
<1>7. g[S] = f[x] + g[S \ {x}]
  BY <1>2, <1>6 DEF P
<1> QED BY <1>0, <1>7 DEF SumTable

\* A new index adds its summand.
LEMMA SumAdd ==
  ASSUME NEW D, NEW f \in [D -> Int], NEW S \in SUBSET D, IsFiniteSet(S),
         NEW x \in D, x \notin S
  PROVE  SumFunctionOnSet(f, S \cup {x}) = f[x] + SumFunctionOnSet(f, S)
<1>1. IsFiniteSet(S \cup {x}) /\ (S \cup {x}) \ {x} = S
  BY FS_AddElement
<1> QED BY <1>1, SumSplit

-----------------------------------------------------------------------------
(* Types and dates.                                                        *)

Position == [quantity : Nat \ {0}, price : Nat, date : Nat]
Lot ==
  [quantity : Nat \ {0}, side : Side, openPrice : Nat, openDate : Nat,
   closePrice : Nat, closeDate : Nat, pnl : Int]
Closure ==
  [side : Side, total : Nat \ {0}, remaining : Nat, price : Nat, date : Nat,
   commission : Nat, before : Nat]

Types ==
  /\ queue \in [Side -> Seq(Position)]
  /\ lots \in Seq(Lot)
  /\ sale \in Closure /\ sale.remaining <= sale.total /\ sale.before <= Len(lots)
  /\ day \in Nat
  /\ trades \in 0 .. MaxTrades

\* No position is younger than the last trade, which is the sale or cover that
\* is being matched, if there is one.
Dated ==
  /\ \A s \in Side : \A i \in DOMAIN queue[s] : queue[s][i].date <= day
  /\ \A i \in DOMAIN lots : lots[i].openDate <= lots[i].closeDate
  /\ sale.remaining > 0 => sale.date = day

LotInv == Types /\ Dated

LEMMA TradeTypes ==
  /\ \A t \in Opening \cup Closing : t.quantity \in Nat \ {0} /\ t.price \in Nat
  /\ \A t \in Closing : t.commission \in Nat
  /\ \A n \in Pause : n \in Nat
  /\ MaxTrades \in Nat
BY TaxAssumption

LEMMA InitLots == ASSUME Init PROVE LotInv
BY TradeTypes DEF Init, LotInv, Types, Dated, NoSale, Closure, Side

\* What the last trade leaves: a later day and one trade more.
LEMMA NextTradeAdvances ==
  ASSUME LotInv, NextTrade
  PROVE  /\ day' \in Nat /\ day <= day' /\ trades' \in 0 .. MaxTrades
         /\ trades' = trades + 1 /\ \E n \in Pause : day' = day + n
  BY TradeTypes DEF LotInv, Types, NextTrade

LEMMA OpenLots == ASSUME LotInv, NEW t \in Opening, Open(t) PROVE LotInv'
<1>1. PICK s \in Opens(t) :
        queue' = [queue EXCEPT ![s] =
          Append(@, [quantity |-> t.quantity, price |-> t.price, date |-> day'])]
  BY DEF Open
<1> DEFINE p == [quantity |-> t.quantity, price |-> t.price, date |-> day']
<1>2. s \in Side
  BY DEF Opens, Side
<1>3. p \in Position /\ p.date = day'
  BY TradeTypes, NextTradeAdvances DEF Open, Position
<1> HIDE DEF p
<1>4. queue[s] \in Seq(Position) /\ queue' = [queue EXCEPT ![s] = Append(queue[s], p)]
  BY <1>1, <1>2 DEF LotInv, Types, p
<1>5. /\ day' \in Nat /\ day <= day' /\ trades' \in 0 .. MaxTrades
      /\ sale' = [sale EXCEPT !.remaining = 0] /\ lots' = lots
  BY NextTradeAdvances DEF Open
<1>6. Types'
  <2>1. queue' \in [Side -> Seq(Position)]
    BY <1>2, <1>3, <1>4 DEF LotInv, Types
  <2>2. sale' \in Closure /\ sale'.remaining <= sale'.total /\ sale'.before <= Len(lots')
    BY <1>5 DEF LotInv, Types, Closure
  <2> QED BY <1>5, <2>1, <2>2 DEF LotInv, Types
<1>7. ASSUME NEW r \in Side, NEW i \in DOMAIN queue'[r] PROVE queue'[r][i].date <= day'
  <2>1. CASE r = s
    <3>1. queue'[r] = Append(queue[s], p)
      BY <1>2, <1>4, <2>1 DEF LotInv, Types
    <3>2. CASE i = Len(queue[s]) + 1
      BY <1>3, <1>4, <1>5, <3>1, <3>2
    <3>3. CASE i \in DOMAIN queue[s]
      <4>1. queue'[r][i] = queue[s][i] /\ queue[s][i] \in Position
        BY <1>4, <3>1, <3>3
      <4>2. queue[s][i].date <= day
        BY <1>2, <3>3 DEF LotInv, Dated
      <4> QED BY <1>5, <4>1, <4>2 DEF Position, LotInv, Types
    <3> QED BY <1>4, <3>1, <3>2, <3>3
  <2>2. CASE r # s
    <3>1. queue'[r] = queue[r] /\ queue[r] \in Seq(Position)
      BY <1>4, <2>2 DEF LotInv, Types
    <3>2. queue[r][i].date <= day /\ queue[r][i] \in Position
      BY <3>1 DEF LotInv, Dated
    <3> QED BY <1>5, <3>1, <3>2 DEF Position, LotInv, Types
  <2> QED BY <2>1, <2>2
<1>8. sale'.remaining = 0 /\ \A i \in DOMAIN lots' : lots'[i].openDate <= lots'[i].closeDate
  BY <1>5 DEF LotInv, Dated, Types, Closure
<1> QED BY <1>6, <1>7, <1>8 DEF LotInv, Dated

LEMMA CloseLots == ASSUME LotInv, NEW t \in Closing, Close(t) PROVE LotInv'
<1>1. PICK s \in Closes(t) :
        sale' = [side |-> s, total |-> t.quantity, remaining |-> t.quantity,
                 price |-> t.price, date |-> day', commission |-> t.commission,
                 before |-> Len(lots)]
  BY DEF Close
<1>2. s \in Side
  BY DEF Closes, Side
<1>3. /\ day' \in Nat /\ day <= day' /\ trades' \in 0 .. MaxTrades
      /\ queue' = queue /\ lots' = lots
  BY NextTradeAdvances DEF Close
<1>4. Types'
  BY <1>1, <1>2, <1>3, TradeTypes DEF LotInv, Types, Closure
<1>5. ASSUME NEW r \in Side, NEW i \in DOMAIN queue'[r] PROVE queue'[r][i].date <= day'
  <2>1. queue[r][i].date <= day /\ queue[r][i] \in Position
    BY <1>3 DEF LotInv, Dated, Types
  <2> QED BY <1>3, <2>1 DEF Position, LotInv, Types
<1> QED BY <1>1, <1>3, <1>4, <1>5 DEF LotInv, Dated

\* What a turn of the matching loop has before it: the oldest position of the
\* sale's side, and how much of it is used.
Used == IF sale.remaining < queue[sale.side][1].quantity THEN sale.remaining
        ELSE queue[sale.side][1].quantity

LEMMA MatchFacts ==
  ASSUME LotInv, Match
  PROVE  /\ sale.side \in Side /\ queue[sale.side] \in Seq(Position)
         /\ queue[sale.side] # <<>> /\ Taken(queue[sale.side]) \in Position
         /\ Taken(queue[sale.side]) = queue[sale.side][1]
         /\ sale.remaining > 0 /\ sale.date = day
         /\ Used \in Nat \ {0} /\ Used <= sale.remaining
         /\ Used <= Taken(queue[sale.side]).quantity
         /\ queue' = [queue EXCEPT ![sale.side] = Left(queue[sale.side], Used)]
         /\ sale' = [sale EXCEPT !.remaining = sale.remaining - Used]
         /\ day' = day /\ trades' = trades
<1>1. sale.side \in Side /\ queue[sale.side] \in Seq(Position) /\ sale.remaining \in Nat
  BY DEF LotInv, Types, Closure
<1>2. queue[sale.side] # <<>> /\ sale.remaining > 0
  BY DEF Match, Matching
<1>3. queue[sale.side][1] \in Position
  BY <1>1, <1>2
<1> QED BY <1>1, <1>2, <1>3 DEF LotInv, Dated, Match, Used, Taken, Position

\* The lot of a turn.
LotOf(share) ==
  LET p == queue[sale.side][1]
  IN  [quantity |-> Used, side |-> sale.side,
       openPrice |-> p.price, openDate |-> p.date,
       closePrice |-> sale.price, closeDate |-> sale.date,
       pnl |-> Gain(p) * Used - share]

LEMMA MatchLot ==
  ASSUME LotInv, Match
  PROVE  \E share \in Share(Used) : lots' = Append(lots, LotOf(share))
BY MatchFacts, Zenon DEF Match, LotOf, Used, Taken

LEMMA LotOfType ==
  ASSUME LotInv, Match, NEW share \in Share(Used)
  PROVE  LotOf(share) \in Lot /\ share \in Nat
<1> DEFINE p == queue[sale.side][1]
<1>1. p.price \in Nat /\ p.date \in Nat
  BY MatchFacts DEF Position
<1>2. /\ sale.price \in Nat /\ sale.date \in Nat /\ sale.commission \in Nat
      /\ Used \in Nat \ {0} /\ sale.side \in Side
  BY MatchFacts DEF LotInv, Types, Closure
<1>3. Gain(p) \in Int
  BY <1>1, <1>2 DEF Gain
<1>4. share \in Nat
  BY <1>2 DEF Share
<1>5. Gain(p) * Used - share \in Int
  BY <1>2, <1>3, <1>4
<1> HIDE DEF p
<1>6. LotOf(share) \in Lot
  BY <1>1, <1>2, <1>5 DEF LotOf, Lot, p
<1> QED BY <1>4, <1>6

\* What stays in the queue is of the kind, and of the age, it was.
LEMMA LeftType ==
  ASSUME NEW q \in Seq(Position), q # <<>>, NEW used \in Nat, NEW d \in Nat,
         \A i \in DOMAIN q : q[i].date <= d
  PROVE  /\ Left(q, used) \in Seq(Position)
         /\ \A i \in DOMAIN Left(q, used) : Left(q, used)[i].date <= d
<1>1. /\ q[1] \in Position /\ Tail(q) \in Seq(Position) /\ Len(Tail(q)) = Len(q) - 1
      /\ \A i \in 1 .. Len(Tail(q)) : Tail(q)[i] = q[i + 1]
      /\ Len(q) \in Nat /\ Len(q) > 0
  OBVIOUS
<1>2. \A i \in DOMAIN Tail(q) : Tail(q)[i].date <= d
  BY <1>1
<1>3. CASE q[1].quantity - used <= 0
  BY <1>1, <1>2, <1>3 DEF Left
<1>4. CASE ~ (q[1].quantity - used <= 0)
  <2> DEFINE p == [q[1] EXCEPT !.quantity = q[1].quantity - used]
  <2>1. p \in Position /\ p.date = q[1].date
    <3>1. q[1].quantity \in Nat /\ q[1].quantity - used \in Nat \ {0}
      BY <1>1, <1>4 DEF Position
    <3>2. q[1] \in [quantity : Nat \ {0}, price : Nat, date : Nat]
      BY <1>1 DEF Position
    <3> QED BY <3>1, <3>2 DEF Position
  <2> HIDE DEF p
  <2>2. Left(q, used) = <<p>> \o Tail(q)
    BY <1>4 DEF Left, p
  <2>3. q[1].date <= d
    BY <1>1
  <2>4. /\ <<p>> \o Tail(q) \in Seq(Position)
        /\ \A i \in DOMAIN (<<p>> \o Tail(q)) :
             (<<p>> \o Tail(q))[i] = IF i = 1 THEN p ELSE Tail(q)[i - 1]
        /\ Len(<<p>> \o Tail(q)) = Len(q)
    BY <1>1, <2>1
  <2>5. \A i \in DOMAIN (<<p>> \o Tail(q)) : (<<p>> \o Tail(q))[i].date <= d
    BY <1>1, <1>2, <2>1, <2>3, <2>4
  <2> QED BY <2>2, <2>4, <2>5
<1> QED BY <1>3, <1>4

LEMMA MatchLots == ASSUME LotInv, Match PROVE LotInv'
<1>1. PICK share \in Share(Used) : lots' = Append(lots, LotOf(share))
  BY MatchLot
<1> DEFINE l == LotOf(share)
           q == queue[sale.side]
<1>2. l \in Lot
  BY LotOfType
<1>3. l.openDate <= l.closeDate
  <2>1. l.openDate = q[1].date /\ l.closeDate = day
    BY MatchFacts DEF LotOf
  <2>2. 1 \in DOMAIN q
    BY MatchFacts
  <2> QED BY <2>1, <2>2, MatchFacts DEF LotInv, Dated
<1> HIDE DEF l
<1>4. lots \in Seq(Lot) /\ lots' = Append(lots, l) /\ Len(lots') = Len(lots) + 1
  BY <1>1, <1>2 DEF LotInv, Types, l
<1>5. \A i \in DOMAIN lots' : lots'[i].openDate <= lots'[i].closeDate
  BY <1>2, <1>3, <1>4 DEF LotInv, Dated
<1>6. /\ Left(q, Used) \in Seq(Position)
      /\ \A i \in DOMAIN Left(q, Used) : Left(q, Used)[i].date <= day
  <2>1. day \in Nat /\ \A i \in DOMAIN q : q[i].date <= day
    BY MatchFacts DEF LotInv, Types, Dated
  <2> QED BY <2>1, MatchFacts, LeftType
<1>7. queue' \in [Side -> Seq(Position)]
  BY <1>6, MatchFacts DEF LotInv, Types
<1>8. \A s \in Side : \A i \in DOMAIN queue'[s] : queue'[s][i].date <= day'
  BY <1>6, MatchFacts DEF LotInv, Types, Dated
<1>9. sale' \in Closure /\ sale'.remaining <= sale'.total /\ sale'.before <= Len(lots')
  <2>1. /\ sale.remaining \in Nat /\ sale.total \in Nat /\ sale.before \in Nat
        /\ sale.remaining <= sale.total /\ sale.before <= Len(lots) /\ Len(lots) \in Nat
    BY <1>4 DEF LotInv, Types, Closure
  <2>2. sale.remaining - Used \in Nat /\ sale.remaining - Used <= sale.total
    BY <2>1, MatchFacts
  <2>3. sale \in Closure /\ sale' = [sale EXCEPT !.remaining = sale.remaining - Used]
    BY MatchFacts DEF LotInv, Types
  <2>4. /\ sale' \in Closure /\ sale'.remaining = sale.remaining - Used
        /\ sale'.total = sale.total /\ sale'.before = sale.before
    BY <2>2, <2>3 DEF Closure
  <2> QED BY <1>4, <2>1, <2>2, <2>4
<1>10. sale'.date = day'
  BY MatchFacts DEF LotInv, Types, Closure
<1>11. Types'
  BY <1>2, <1>4, <1>7, <1>9, MatchFacts DEF LotInv, Types
<1> QED BY <1>5, <1>8, <1>10, <1>11 DEF LotInv, Dated

LEMMA NextLots == ASSUME LotInv, [Next]_vars PROVE LotInv'
<1>1. CASE UNCHANGED vars
  BY <1>1 DEF vars, LotInv, Types, Dated
<1> QED BY <1>1, OpenLots, CloseLots, MatchLots DEF Next

\* The types and dates above hold always.
THEOREM LotInvariant == Spec => []LotInv
<1>1. Init => LotInv
  BY InitLots
<1>2. LotInv /\ [Next]_vars => LotInv'
  BY NextLots
<1> QED BY <1>1, <1>2, PTL DEF Spec

\* Positions and lots have units, no lot is closed before it was opened, and a
\* sale or cover never closes more than it asks for (l.60-140).
THEOREM LotsTypeOK == Spec => []TypeOK
<1>1. LotInv => TypeOK
  <2> SUFFICES ASSUME LotInv PROVE TypeOK
    OBVIOUS
  <2>1. ASSUME NEW s \in Side, NEW i \in DOMAIN queue[s]
        PROVE  /\ queue[s][i].quantity \in Nat \ {0} /\ queue[s][i].price \in Nat
               /\ queue[s][i].date \in 0 .. day
    <3>1. queue[s][i] \in Position /\ queue[s][i].date <= day /\ day \in Nat
      BY DEF LotInv, Types, Dated
    <3> QED BY <3>1 DEF Position
  <2>2. ASSUME NEW i \in DOMAIN lots
        PROVE  /\ lots[i].quantity \in Nat \ {0} /\ lots[i].pnl \in Int
               /\ lots[i].openDate <= lots[i].closeDate
    <3>1. lots[i] \in Lot /\ lots[i].openDate <= lots[i].closeDate
      BY DEF LotInv, Types, Dated
    <3> QED BY <3>1 DEF Lot
  <2>3. sale.remaining \in 0 .. sale.total /\ trades \in 0 .. MaxTrades
    BY DEF LotInv, Types, Closure
  <2> QED BY <2>1, <2>2, <2>3, Zenon DEF TypeOK
<1> QED BY <1>1, LotInvariant, PTL

-----------------------------------------------------------------------------
(* The commission.  The shares of the lots so far miss what the units sold *)
(* so far should carry by half a kopeck for each lot at most; multiplied by*)
(* the units of the whole sale this is a matter of integers.               *)

\* Sums over the lots when there is a new one.
Grows(D, f, x, e) ==
  /\ f \in [D -> Int] /\ e \in [D \cup {x} -> Int]
  /\ x \notin D /\ \A i \in D : e[i] = f[i]

LEMMA SumGrows ==
  ASSUME NEW D, NEW f, NEW x, NEW e, Grows(D, f, x, e), NEW S \in SUBSET D, IsFiniteSet(S)
  PROVE  SumFunctionOnSet(e, S \cup {x}) = e[x] + SumFunctionOnSet(f, S)
<1>1. SumFunctionOnSet(e, S) = SumFunctionOnSet(f, S)
  BY SumSame DEF Grows
<1>2. SumFunctionOnSet(e, S \cup {x}) = e[x] + SumFunctionOnSet(e, S)
  BY SumAdd DEF Grows
<1> QED BY <1>1, <1>2

Earned == SumFunctionOnSet(Gross, Parts) - SumFunctionOnSet(Pnl, Parts)
SoldUnits == SumFunctionOnSet(Quantity, Parts)
Deviation == 2 * (Earned * sale.total - sale.commission * SoldUnits)

Booked ==
  /\ SoldUnits <= sale.total
  /\ sale.remaining > 0 => SoldUnits = sale.total - sale.remaining
  /\ Deviation <= Cardinality(Parts) * sale.total
  /\ 0 - Deviation <= Cardinality(Parts) * sale.total

LEMMA PartsFinite ==
  ASSUME LotInv
  PROVE  /\ DOMAIN lots = 1 .. Len(lots) /\ Len(lots) \in Nat
         /\ IsFiniteSet(DOMAIN lots)
         /\ Parts \in SUBSET DOMAIN lots /\ IsFiniteSet(Parts) /\ Cardinality(Parts) \in Nat
<1>1. DOMAIN lots = 1 .. Len(lots) /\ Len(lots) \in Nat
  BY DEF LotInv, Types
<1>2. IsFiniteSet(1 .. Len(lots))
  BY <1>1, FS_Interval
<1>3. Parts \in SUBSET DOMAIN lots
  BY DEF Parts
<1> QED BY <1>1, <1>2, <1>3, FS_Subset, FS_CardinalityType

Numbers ==
  /\ Pnl \in [DOMAIN lots -> Int]
  /\ Gross \in [DOMAIN lots -> Int]
  /\ Quantity \in [DOMAIN lots -> Int]

LEMMA LotNumbers == LotInv => Numbers
<1> SUFFICES ASSUME LotInv PROVE Numbers
  OBVIOUS
<1>1. ASSUME NEW i \in DOMAIN lots
      PROVE  /\ lots[i].pnl \in Int /\ lots[i].quantity \in Int
             /\ lots[i].openPrice \in Int /\ lots[i].closePrice \in Int
  <2>1. lots[i] \in Lot
    BY DEF LotInv, Types
  <2> QED BY <2>1 DEF Lot
<1>2. Gross \in [DOMAIN lots -> Int]
  BY <1>1 DEF Gross
<1> QED BY <1>1, <1>2 DEF Pnl, Quantity, Numbers

LEMMA BookedTypes ==
  ASSUME LotInv
  PROVE  /\ Earned \in Int /\ SoldUnits \in Int
         /\ SumFunctionOnSet(Gross, Parts) \in Int /\ SumFunctionOnSet(Pnl, Parts) \in Int
<1>1. /\ SumFunctionOnSet(Gross, Parts) \in Int /\ SumFunctionOnSet(Pnl, Parts) \in Int
      /\ SumFunctionOnSet(Quantity, Parts) \in Int
  BY PartsFinite, LotNumbers, SumType DEF Numbers
<1> QED BY <1>1 DEF Earned, SoldUnits

\* Nothing is booked before the first lot.
Unbooked ==
  /\ Parts = {} /\ sale.total \in Nat /\ sale.commission \in Nat
  /\ sale.remaining \in {0, sale.total}

LEMMA NoParts == Unbooked => Booked
<1> SUFFICES ASSUME Unbooked PROVE Booked
  OBVIOUS
<1>1. Earned = 0 /\ SoldUnits = 0
  BY SumOfNone DEF Earned, SoldUnits, Unbooked
<1>2. Cardinality(Parts) = 0
  BY FS_EmptySet DEF Unbooked
<1> QED BY <1>1, <1>2 DEF Booked, Deviation, Unbooked

LEMMA InitBooked == ASSUME Init PROVE Booked
<1>1. Parts = {}
  BY DEF Init, Parts
<1>2. sale.total = 1 /\ sale.commission = 0 /\ sale.remaining = 0
  BY DEF Init, NoSale
<1> QED BY <1>1, <1>2, NoParts DEF Unbooked

\* Booked depends on the lots and on the sale's own data only.
LEMMA SameBooked ==
  ASSUME Booked, lots' = lots, sale'.before = sale.before, sale'.total = sale.total,
         sale'.commission = sale.commission, sale'.remaining \in {0, sale.remaining},
         sale.remaining \in Nat
  PROVE  Booked'
<1>1. Parts' = Parts
  BY DEF Parts
<1>2. Pnl' = Pnl /\ Gross' = Gross /\ Quantity' = Quantity
  BY DEF Pnl, Gross, Quantity
<1>3. Earned' = Earned /\ SoldUnits' = SoldUnits
  BY <1>1, <1>2 DEF Earned, SoldUnits
<1>4. Deviation' = Deviation
  BY <1>3 DEF Deviation
<1> QED BY <1>1, <1>3, <1>4 DEF Booked

LEMMA OpenBooked == ASSUME LotInv, Booked, NEW t \in Opening, Open(t) PROVE Booked'
<1>1. sale \in Closure /\ sale' = [sale EXCEPT !.remaining = 0] /\ lots' = lots
  BY DEF LotInv, Types, Open
<1>2. /\ sale'.before = sale.before /\ sale'.total = sale.total
      /\ sale'.commission = sale.commission /\ sale'.remaining = 0 /\ sale.remaining \in Nat
  BY <1>1 DEF Closure
<1> QED BY <1>1, <1>2, SameBooked

LEMMA CloseBooked == ASSUME LotInv, NEW t \in Closing, Close(t) PROVE Booked'
<1>1. /\ sale'.before = Len(lots') /\ sale'.remaining = sale'.total
      /\ sale'.total \in Nat /\ sale'.commission \in Nat
  BY TradeTypes DEF Close
<1>2. Len(lots') \in Nat /\ DOMAIN lots' = 1 .. Len(lots')
  BY DEF LotInv, Types, Close
<1>3. Parts' = {}
  BY <1>1, <1>2 DEF Parts
<1>4. Unbooked'
  BY <1>1, <1>3 DEF Unbooked
<1> QED BY <1>4, NoParts, PTL

\* Half a kopeck more for one lot more.
LEMMA OneMoreShare ==
  ASSUME NEW t \in Nat, NEW k \in Nat, NEW n \in Nat, NEW e \in Int, NEW q \in Int,
         NEW c \in Nat, NEW u \in Nat,
         2 * (e * t - k * q) <= n * t, 0 - 2 * (e * t - k * q) <= n * t,
         2 * (c * t - k * u) <= t, 0 - 2 * (c * t - k * u) <= t
  PROVE  /\ 2 * ((e + c) * t - k * (q + u)) <= (n + 1) * t
         /\ 0 - 2 * ((e + c) * t - k * (q + u)) <= (n + 1) * t
<1>1. /\ (e + c) * t = e * t + c * t /\ k * (q + u) = k * q + k * u
      /\ (n + 1) * t = n * t + t
  OBVIOUS
<1>2. /\ e * t \in Int /\ c * t \in Int /\ k * q \in Int /\ k * u \in Int /\ n * t \in Int
  OBVIOUS
<1> QED BY <1>1, <1>2

LEMMA MatchBooked == ASSUME LotInv, Booked, Match PROVE Booked'
<1>1. PICK share \in Share(Used) : lots' = Append(lots, LotOf(share))
  BY MatchLot
<1> DEFINE l == LotOf(share)
           n == Len(lots) + 1
           g == Gain(queue[sale.side][1])
<1>2. l \in Lot /\ share \in Nat
  BY LotOfType
<1>3. /\ l.quantity = Used /\ l.pnl = g * Used - share /\ l.side = sale.side
      /\ l.openPrice = queue[sale.side][1].price /\ l.closePrice = sale.price
  BY DEF LotOf
<1>4. g = IF l.side = "long" THEN l.closePrice - l.openPrice ELSE l.openPrice - l.closePrice
  BY <1>3 DEF Gain
<1>5. /\ Used \in Nat /\ Used <= sale.remaining /\ sale.total \in Nat /\ sale.commission \in Nat
      /\ sale.remaining \in Nat /\ sale.before \in Nat /\ sale.before <= Len(lots)
      /\ sale.remaining <= sale.total /\ sale.remaining > 0
  BY MatchFacts DEF LotInv, Types, Closure
<1>6. /\ 2 * (share * sale.total - sale.commission * Used) <= sale.total
      /\ 0 - 2 * (share * sale.total - sale.commission * Used) <= sale.total
  BY DEF Share
<1>7. g \in Int
  BY <1>2, <1>4 DEF Lot
<1> HIDE DEF l, g
<1>8. /\ DOMAIN lots' = DOMAIN lots \cup {n} /\ n \notin DOMAIN lots
      /\ lots'[n] = l /\ \A i \in DOMAIN lots : lots'[i] = lots[i]
  BY <1>1, <1>2 DEF LotInv, Types, l
<1>9. LotInv'
  BY MatchLots
<1>10. /\ sale'.before = sale.before /\ sale'.total = sale.total
       /\ sale'.commission = sale.commission /\ sale'.remaining = sale.remaining - Used
  BY MatchFacts DEF LotInv, Types, Closure
<1>11. Parts' = Parts \cup {n}
  BY <1>5, <1>8, <1>10, PartsFinite DEF Parts
<1>12. Cardinality(Parts') = Cardinality(Parts) + 1
  BY <1>8, <1>11, PartsFinite, FS_AddElement
<1>13. /\ Pnl \in [DOMAIN lots -> Int] /\ Gross \in [DOMAIN lots -> Int]
       /\ Quantity \in [DOMAIN lots -> Int]
       /\ Pnl' \in [DOMAIN lots \cup {n} -> Int] /\ Gross' \in [DOMAIN lots \cup {n} -> Int]
       /\ Quantity' \in [DOMAIN lots \cup {n} -> Int]
  <2>1. /\ Pnl' \in [DOMAIN lots' -> Int] /\ Gross' \in [DOMAIN lots' -> Int]
        /\ Quantity' \in [DOMAIN lots' -> Int]
    <3>1. Numbers'
      BY <1>9, LotNumbers, PTL
    <3> QED BY <3>1 DEF Numbers
  <2> QED BY <1>8, <2>1, LotNumbers DEF Numbers
<1>14. /\ Pnl'[n] = g * Used - share /\ Quantity'[n] = Used /\ Gross'[n] = g * Used
  <2>1. Gross'[n] = Used * g
    BY <1>3, <1>4, <1>8 DEF Gross, l
  <2>2. Used * g = g * Used
    BY <1>5, <1>7
  <2> QED BY <1>3, <1>8, <2>1, <2>2 DEF Pnl, Quantity, l
<1>15. \A i \in DOMAIN lots : Pnl'[i] = Pnl[i] /\ Quantity'[i] = Quantity[i] /\ Gross'[i] = Gross[i]
  BY <1>8 DEF Pnl, Quantity, Gross
<1> HIDE DEF n
<1>16. /\ SumFunctionOnSet(Pnl', Parts') = g * Used - share + SumFunctionOnSet(Pnl, Parts)
       /\ SumFunctionOnSet(Gross', Parts') = g * Used + SumFunctionOnSet(Gross, Parts)
       /\ SumFunctionOnSet(Quantity', Parts') = Used + SumFunctionOnSet(Quantity, Parts)
  <2> DEFINE D == DOMAIN lots
  <2>1. Parts \in SUBSET D /\ IsFiniteSet(Parts) /\ n \notin D
    BY <1>8, PartsFinite
  <2>2. Grows(D, Pnl, n, Pnl') /\ Grows(D, Gross, n, Gross') /\ Grows(D, Quantity, n, Quantity')
    BY <1>8, <1>13, <1>15 DEF Grows
  <2> HIDE DEF D
  <2>3. SumFunctionOnSet(Pnl', Parts \cup {n}) = Pnl'[n] + SumFunctionOnSet(Pnl, Parts)
    BY <2>1, <2>2, SumGrows
  <2>4. SumFunctionOnSet(Gross', Parts \cup {n}) = Gross'[n] + SumFunctionOnSet(Gross, Parts)
    BY <2>1, <2>2, SumGrows
  <2>5. SumFunctionOnSet(Quantity', Parts \cup {n})
          = Quantity'[n] + SumFunctionOnSet(Quantity, Parts)
    BY <2>1, <2>2, SumGrows
  <2> QED BY <1>11, <1>14, <2>3, <2>4, <2>5
<1>17. Earned' = Earned + share /\ SoldUnits' = SoldUnits + Used
  <2>1. g * Used \in Int
    BY <1>5, <1>7
  <2> QED BY <1>2, <1>5, <1>16, <2>1, BookedTypes DEF Earned, SoldUnits
<1>18. /\ Deviation' <= Cardinality(Parts') * sale'.total
       /\ 0 - Deviation' <= Cardinality(Parts') * sale'.total
  <2>1. Deviation' = 2 * ((Earned + share) * sale.total - sale.commission * (SoldUnits + Used))
    BY <1>10, <1>17 DEF Deviation
  <2>2. /\ 2 * (Earned * sale.total - sale.commission * SoldUnits)
             <= Cardinality(Parts) * sale.total
        /\ 0 - 2 * (Earned * sale.total - sale.commission * SoldUnits)
             <= Cardinality(Parts) * sale.total
    BY DEF Booked, Deviation
  <2> QED BY <1>2, <1>5, <1>6, <1>10, <1>12, <2>1, <2>2, PartsFinite, BookedTypes, OneMoreShare
<1>19. SoldUnits' = sale'.total - sale'.remaining /\ sale'.remaining >= 0
  BY <1>5, <1>10, <1>17, BookedTypes DEF Booked
<1> QED BY <1>5, <1>10, <1>18, <1>19 DEF Booked

LEMMA NextBooked == ASSUME LotInv, Booked, [Next]_vars PROVE Booked'
<1>1. CASE UNCHANGED vars
  <2>1. sale.remaining \in Nat
    BY DEF LotInv, Types, Closure
  <2> QED BY <1>1, <2>1, SameBooked DEF vars
<1> QED BY <1>1, OpenBooked, CloseBooked, MatchBooked DEF Next

\* The deviation from the exact shares grows by half a kopeck a lot at most.
THEOREM BookedInvariant == Spec => [](LotInv /\ Booked)
<1>1. Init => LotInv /\ Booked
  BY InitLots, InitBooked
<1>2. LotInv /\ Booked /\ [Next]_vars => (LotInv /\ Booked)'
  BY NextLots, NextBooked
<1> QED BY <1>1, <1>2, PTL DEF Spec

\* A positive factor can be cancelled.
LEMMA Cancel ==
  ASSUME NEW t \in Nat \ {0}, NEW x \in Int, NEW n \in Int, x * t <= n * t
  PROVE  x <= n
<1> SUFFICES ASSUME n + 1 <= x PROVE FALSE
  OBVIOUS
<1>1. (n + 1) * t <= x * t
  OBVIOUS
<1>2. (n + 1) * t = n * t + t /\ n * t \in Int /\ x * t \in Int
  OBVIOUS
<1> QED BY <1>1, <1>2

\* The commission of a sale or cover that found all its units is carried by its
\* lots, up to half a kopeck for each (l.65-73, l.106-114).
THEOREM CommissionIsBooked == Spec => []CommissionBooked
<1>1. LotInv /\ Booked => CommissionBooked
  <2> SUFFICES ASSUME LotInv, Booked, SoldUnits = sale.total
               PROVE  /\ 2 * Misbooked <= Cardinality(Parts)
                      /\ 0 - 2 * Misbooked <= Cardinality(Parts)
    BY DEF CommissionBooked, SoldUnits
  <2> DEFINE m == Misbooked
             k == Cardinality(Parts)
             t == sale.total
  <2>1. sale.commission \in Nat /\ t \in Nat \ {0} /\ k \in Nat
    BY PartsFinite DEF LotInv, Types, Closure
  <2>2. m \in Int /\ m = Earned - sale.commission
    BY <2>1, BookedTypes DEF Misbooked, Earned
  <2>3. Deviation = (2 * m) * t
    <3>1. \A e, c, u \in Int : 2 * (e * u - c * u) = (2 * (e - c)) * u
      OBVIOUS
    <3> QED BY <2>1, <2>2, <3>1, BookedTypes DEF Deviation
  <2>4. (2 * m) * t <= k * t /\ (0 - 2 * m) * t <= k * t
    <3>1. \A e, u \in Int : (0 - 2 * e) * u = 0 - (2 * e) * u
      OBVIOUS
    <3> QED BY <2>1, <2>2, <2>3, <3>1 DEF Booked
  <2> HIDE DEF m, k, t
  <2>5. 2 * m \in Int /\ 0 - 2 * m \in Int
    BY <2>2
  <2>6. 2 * m <= k /\ 0 - 2 * m <= k
    BY <2>1, <2>4, <2>5, Cancel
  <2> QED BY <2>6 DEF m, k
<1> QED BY <1>1, BookedInvariant, PTL

-----------------------------------------------------------------------------
(* Loss harvesting: what is true after the turns of some of the wins, from *)
(* the largest downwards, by induction on their number.                    *)

\* The sum of what cannot be positive is 0 or negative.
LEMMA SumNotPositive ==
  ASSUME NEW D, NEW f \in [D -> Int], NEW S \in SUBSET D, IsFiniteSet(S), \A x \in S : f[x] <= 0
  PROVE  0 - SumFunctionOnSet(f, S) \in Nat
<1> DEFINE Q == {n \in Nat : \A s \in SUBSET S :
                   Cardinality(s) <= n => 0 - SumFunctionOnSet(f, s) \in Nat}
<1>1. \A s \in SUBSET S : IsFiniteSet(s) /\ Cardinality(s) \in Nat
  BY FS_Subset, FS_CardinalityType
<1>2. 0 \in Q
  <2>1. \A s \in SUBSET S : Cardinality(s) <= 0 => s = {}
    BY <1>1, FS_EmptySet
  <2> QED BY <2>1, SumOfNone
<1>3. ASSUME NEW n \in Q PROVE n + 1 \in Q
  <2> SUFFICES ASSUME NEW s \in SUBSET S, Cardinality(s) <= n + 1, s # {}
               PROVE  0 - SumFunctionOnSet(f, s) \in Nat
    BY SumOfNone
  <2>1. PICK x \in s : TRUE
    OBVIOUS
  <2>2. Cardinality(s \ {x}) <= n
    BY <1>1, OneLess
  <2>3. 0 - SumFunctionOnSet(f, s \ {x}) \in Nat
    BY <2>2
  <2>4. SumFunctionOnSet(f, s) = f[x] + SumFunctionOnSet(f, s \ {x})
    BY <1>1, SumSplit
  <2>5. SumFunctionOnSet(f, s \ {x}) \in Int
    BY <1>1, SumType
  <2>6. f[x] \in Int /\ f[x] <= 0
    OBVIOUS
  <2> QED BY <2>3, <2>4, <2>5, <2>6
<1> HIDE DEF Q
<1>4. Cardinality(S) \in Q
  <2>1. Cardinality(S) \in Nat /\ Q \in SUBSET Nat
    BY FS_CardinalityType DEF Q
  <2> QED BY <1>2, <1>3, <2>1, AllNumbers
<1> QED BY <1>1, <1>4 DEF Q

LEMMA LotPnl == ASSUME LotInv, NEW i \in DOMAIN lots PROVE lots[i].pnl \in Int
<1>1. lots[i] \in Lot
  BY DEF LotInv, Types
<1> QED BY <1>1 DEF Lot

LEMMA WinsFinite ==
  ASSUME LotInv
  PROVE  /\ Wins \in SUBSET DOMAIN lots /\ IsFiniteSet(Wins)
         /\ Losses \in SUBSET DOMAIN lots /\ IsFiniteSet(Losses)
         /\ \A i \in Wins : lots[i].pnl \in Nat \ {0}
         /\ \A i \in Losses : Pnl[i] <= 0
<1>1. Wins \in SUBSET DOMAIN lots /\ Losses \in SUBSET DOMAIN lots
  BY DEF Wins, Losses
<1>2. \A i \in DOMAIN lots : lots[i].pnl \in Int /\ Pnl[i] = lots[i].pnl
  BY LotPnl DEF Pnl
<1> QED BY <1>1, <1>2, PartsFinite, FS_Subset DEF Wins, Losses

LEMMA TotalLossType == ASSUME LotInv PROVE TotalLoss \in Nat
BY WinsFinite, LotNumbers, SumNotPositive DEF TotalLoss, Numbers

\* Some win has its turn last.
LEMMA SmallestWinIn == ASSUME LotInv, NEW W \in SUBSET Wins, W # {} PROVE SmallestWin(W) \in W
<1>1. PICK i \in W : \A j \in W : lots[i].pnl <= lots[j].pnl
  <2> DEFINE S == {lots[i].pnl : i \in W}
  <2>1. S \in SUBSET Nat /\ S # {}
    BY WinsFinite
  <2> HIDE DEF S
  <2>2. PICK n \in S : \A k \in S : n <= k
    BY <2>1, LeastNatural
  <2> QED BY <2>2 DEF S
<1> DEFINE K == {j \in W : lots[j].pnl = lots[i].pnl}
<1>2. PICK m \in K : \A k \in K : k <= m
  <2> DEFINE S == {Len(lots) - j : j \in K}
  <2>1. K \in SUBSET 1 .. Len(lots) /\ Len(lots) \in Nat /\ i \in K
    BY WinsFinite, PartsFinite
  <2> HIDE DEF K
  <2>2. S \in SUBSET Nat /\ S # {}
    BY <2>1
  <2> HIDE DEF S
  <2>3. PICK n \in S : \A k \in S : n <= k
    BY <2>2, LeastNatural
  <2>4. PICK m \in K : n = Len(lots) - m
    BY DEF S
  <2>5. \A k \in K : n <= Len(lots) - k
    BY <2>3 DEF S
  <2> QED BY <2>1, <2>4, <2>5
<1>3. \A j \in W : lots[m].pnl < lots[j].pnl \/ (lots[m].pnl = lots[j].pnl /\ j <= m)
  <2>1. \A j \in W : lots[j].pnl \in Nat
    BY WinsFinite
  <2> QED BY <1>1, <1>2, <2>1
<1> QED BY <1>2, <1>3 DEF SmallestWin

Tally == [loss : Int, taxed : Int]

LEMMA OffsetType ==
  ASSUME LotInv, NEW a \in Tally, NEW i \in Wins
  PROVE  OffsetWin(a, i) \in Tally
<1>1. lots[i].pnl \in Int /\ a.loss \in Int /\ a.taxed \in Int
  BY WinsFinite DEF Tally
<1> QED BY <1>1 DEF OffsetWin, Tally

HarvestRec(h) ==
  h = [W \in SUBSET Wins |->
        IF W = {} THEN [loss |-> TotalLoss, taxed |-> 0]
        ELSE OffsetWin(h[W \ {SmallestWin(W)}], SmallestWin(W))]

\* The loop over the wins is well defined.
LEMMA HarvestSolves == ASSUME LotInv PROVE HarvestRec(Harvest)
<1> DEFINE pick == [W \in SUBSET Wins |-> SmallestWin(W)]
           step == [p \in Wins \X Tally |-> OffsetWin(p[2], p[1])]
           b == [loss |-> TotalLoss, taxed |-> 0]
<1>1. \A W \in SUBSET Wins : W # {} => pick[W] \in W
  BY SmallestWinIn
<1>2. step \in [Wins \X Tally -> Tally]
  BY OffsetType
<1>3. b \in Tally
  BY TotalLossType DEF Tally
<1> HIDE DEF pick, step, b
<1>4. PICK g : Recursion(Wins, Tally, b, pick, step, g)
  BY <1>1, <1>2, <1>3, WinsFinite, RecursionExists
<1>5. ASSUME NEW W \in SUBSET Wins
      PROVE  g[W] = IF W = {} THEN b ELSE OffsetWin(g[W \ {SmallestWin(W)}], SmallestWin(W))
  <2>1. CASE W # {}
    <3>1. SmallestWin(W) \in Wins /\ W \ {SmallestWin(W)} \in SUBSET Wins
          /\ pick[W] = SmallestWin(W)
      BY <2>1, SmallestWinIn DEF pick
    <3>2. /\ g[W \ {SmallestWin(W)}] \in Tally
          /\ g[W] = step[<<SmallestWin(W), g[W \ {SmallestWin(W)}]>>]
      BY <1>4, <2>1, <3>1 DEF Recursion, Turn
    <3> QED BY <2>1, <3>1, <3>2 DEF step
  <2> QED BY <1>4, <2>1 DEF Recursion, Turn
<1>6. HarvestRec(g)
  BY <1>4, <1>5 DEF HarvestRec, Recursion, b
<1>7. Harvest = CHOOSE h : HarvestRec(h)
  BY DEF Harvest, HarvestRec
<1> QED BY <1>6, <1>7

Alone(W) == SumFunctionOnSet(TaxedAlone, W)

\* What is taxed so far, against what would be without losses and the losses
\* spent; as long as losses are left, taxable wins are not taxed at all.
FairTurns(a, W) ==
  /\ a.loss \in Nat /\ a.taxed \in Nat /\ a.loss <= TotalLoss
  /\ a.taxed <= Alone(W)
  /\ Alone(W) - (TotalLoss - a.loss) <= a.taxed
  /\ (\A i \in W : Taxable(lots[i])) =>
       /\ a.taxed = Alone(W) - (TotalLoss - a.loss)
       /\ a.loss = 0 \/ a.taxed = 0

LEMMA AloneTypes ==
  ASSUME LotInv, NEW W \in SUBSET Wins
  PROVE  /\ IsFiniteSet(W) /\ TaxedAlone \in [DOMAIN lots -> Int] /\ Alone(W) \in Int
         /\ \A i \in W : Alone(W) = TaxedAlone[i] + Alone(W \ {i})
<1>1. W \in SUBSET DOMAIN lots /\ IsFiniteSet(W)
  BY WinsFinite, FS_Subset
<1>2. \A i \in DOMAIN lots : lots[i].pnl \in Int
  BY LotPnl
<1>3. TaxedAlone \in [DOMAIN lots -> Int]
  BY <1>2 DEF TaxedAlone
<1>4. Alone(W) \in Int
  BY <1>1, <1>3, SumType DEF Alone
<1>5. ASSUME NEW i \in W PROVE Alone(W) = TaxedAlone[i] + Alone(W \ {i})
  BY <1>1, <1>3, SumSplit DEF Alone
<1> QED BY <1>1, <1>3, <1>4, <1>5

\* One turn: the next win is offset by what is left of the losses.
LEMMA OffsetIsFair ==
  ASSUME LotInv, NEW W \in SUBSET Wins, NEW i \in W, NEW a, FairTurns(a, W \ {i})
  PROVE  FairTurns(OffsetWin(a, i), W)
<1> DEFINE p == lots[i].pnl
           x == TaxedAlone[i]
           r == Alone(W \ {i})
           s == Alone(W)
           o == IF p < a.loss THEN p ELSE a.loss
           c == OffsetWin(a, i)
<1>1. p \in Nat \ {0} /\ x = IF Taxable(lots[i]) THEN p ELSE 0
  BY WinsFinite DEF TaxedAlone
<1>2. r \in Int /\ s \in Int /\ s = x + r
  <2>1. W \ {i} \in SUBSET Wins
    OBVIOUS
  <2> QED BY <2>1, AloneTypes
<1>3. /\ a.loss \in Nat /\ a.taxed \in Nat /\ a.loss <= TotalLoss /\ TotalLoss \in Nat
      /\ a.taxed <= r /\ r - (TotalLoss - a.loss) <= a.taxed
  BY TotalLossType DEF FairTurns
<1>4. c.loss = a.loss - o /\ c.taxed = a.taxed + IF Taxable(lots[i]) THEN p - o ELSE 0
  BY DEF OffsetWin
<1>5. (\A j \in W : Taxable(lots[j])) =>
        /\ Taxable(lots[i])
        /\ a.taxed = r - (TotalLoss - a.loss)
        /\ a.loss = 0 \/ a.taxed = 0
  BY DEF FairTurns
<1>6. o \in Nat /\ o <= p /\ o <= a.loss /\ (o = p \/ o = a.loss)
  BY <1>1, <1>3
<1> HIDE DEF p, x, r, s, o, c
<1>7. c.loss \in Nat /\ c.taxed \in Nat /\ c.loss <= TotalLoss
  BY <1>1, <1>3, <1>4, <1>6
<1>8. c.taxed <= s /\ s - (TotalLoss - c.loss) <= c.taxed
  <2>1. CASE Taxable(lots[i])
    BY <1>1, <1>2, <1>3, <1>4, <1>6, <2>1
  <2>2. CASE ~ Taxable(lots[i])
    BY <1>1, <1>2, <1>3, <1>4, <1>6, <2>2
  <2> QED BY <2>1, <2>2
<1>9. (\A j \in W : Taxable(lots[j])) =>
        /\ c.taxed = s - (TotalLoss - c.loss)
        /\ c.loss = 0 \/ c.taxed = 0
  <2> SUFFICES ASSUME \A j \in W : Taxable(lots[j])
               PROVE  /\ c.taxed = s - (TotalLoss - c.loss)
                      /\ c.loss = 0 \/ c.taxed = 0
    OBVIOUS
  <2>1. /\ x = p /\ c.taxed = a.taxed + (p - o)
        /\ a.taxed = r - (TotalLoss - a.loss) /\ (a.loss = 0 \/ a.taxed = 0)
    BY <1>1, <1>4, <1>5
  <2> QED BY <1>1, <1>2, <1>3, <1>4, <1>6, <2>1
<1> QED BY <1>7, <1>8, <1>9 DEF FairTurns, s, c

LEMMA HarvestIsFair ==
  ASSUME LotInv, NEW W \in SUBSET Wins
  PROVE  FairTurns(Harvest[W], W)
<1> DEFINE Q == {n \in Nat : \A w \in SUBSET Wins :
                   Cardinality(w) <= n => FairTurns(Harvest[w], w)}
<1>1. \A w \in SUBSET Wins : IsFiniteSet(w) /\ Cardinality(w) \in Nat
  BY WinsFinite, FS_Subset, FS_CardinalityType
<1>2. \A w \in SUBSET Wins :
        Harvest[w] = IF w = {} THEN [loss |-> TotalLoss, taxed |-> 0]
                     ELSE OffsetWin(Harvest[w \ {SmallestWin(w)}], SmallestWin(w))
  BY HarvestSolves DEF HarvestRec
<1>3. FairTurns(Harvest[{}], {})
  <2>1. Harvest[{}] = [loss |-> TotalLoss, taxed |-> 0] /\ Alone({}) = 0
    BY <1>2, SumOfNone DEF Alone
  <2> QED BY <2>1, TotalLossType DEF FairTurns
<1>4. 0 \in Q
  <2>1. \A w \in SUBSET Wins : Cardinality(w) <= 0 => w = {}
    BY <1>1, FS_EmptySet
  <2> QED BY <1>3, <2>1
<1>5. ASSUME NEW n \in Q PROVE n + 1 \in Q
  <2> SUFFICES ASSUME NEW w \in SUBSET Wins, Cardinality(w) <= n + 1, w # {}
               PROVE  FairTurns(Harvest[w], w)
    BY <1>3
  <2> DEFINE i == SmallestWin(w)
  <2>1. i \in w
    BY SmallestWinIn
  <2>2. w \ {i} \in SUBSET Wins /\ Cardinality(w \ {i}) <= n
    BY <1>1, <2>1, OneLess
  <2>3. FairTurns(Harvest[w \ {i}], w \ {i})
    BY <2>2
  <2>4. Harvest[w] = OffsetWin(Harvest[w \ {i}], i)
    BY <1>2
  <2> HIDE DEF i
  <2> QED BY <2>1, <2>3, <2>4, OffsetIsFair
<1> HIDE DEF Q
<1>6. Cardinality(W) \in Q
  <2>1. Cardinality(W) \in Nat /\ Q \in SUBSET Nat
    BY <1>1 DEF Q
  <2> QED BY <1>4, <1>5, <2>1, AllNumbers
<1> QED BY <1>6, <1>1 DEF Q

\* Harvesting never adds tax, never takes off more than the losses, and without
\* tax-free lots taxes exactly what wins exceed losses (l.164-177).
THEOREM HarvestIsAlwaysFair == Spec => []HarvestFair
<1>1. LotInv => HarvestFair
  <2> SUFFICES ASSUME LotInv PROVE HarvestFair
    OBVIOUS
  <2> DEFINE alone == SumFunctionOnSet(TaxedAlone, Wins)
             excess == IF alone > TotalLoss THEN alone - TotalLoss ELSE 0
             a == Harvest[Wins]
  <2>1. FairTurns(a, Wins) /\ alone = Alone(Wins) /\ alone \in Int /\ TotalLoss \in Nat
    BY HarvestIsFair, AloneTypes, TotalLossType DEF Alone
  <2>2. /\ a.loss \in Nat /\ a.taxed \in Nat /\ a.taxed <= alone
        /\ alone - (TotalLoss - a.loss) <= a.taxed
        /\ (\A i \in Wins : Taxable(lots[i])) =>
             /\ a.taxed = alone - (TotalLoss - a.loss) /\ (a.loss = 0 \/ a.taxed = 0)
    BY <2>1 DEF FairTurns
  <2>3. Taxed = a.taxed
    BY DEF Taxed
  <2> HIDE DEF alone, a
  <2>4. Taxed \in excess .. alone
    BY <2>1, <2>2, <2>3
  <2>5. (\A i \in Wins : Taxable(lots[i])) => Taxed = excess
    <3> SUFFICES ASSUME \A i \in Wins : Taxable(lots[i]) PROVE Taxed = excess
      OBVIOUS
    <3>1. /\ a.taxed = alone - (TotalLoss - a.loss) /\ (a.loss = 0 \/ a.taxed = 0)
          /\ a.loss <= TotalLoss
      BY <2>1, <2>2 DEF FairTurns
    <3> QED BY <2>1, <2>2, <2>3, <3>1
  <2> QED BY <2>4, <2>5 DEF HarvestFair, alone
<1> QED BY <1>1, LotInvariant, PTL

-----------------------------------------------------------------------------
(* Sequences of units: what FlattenSeq does with a queue that grows at its *)
(* end and shrinks at its head.                                            *)

\* A name of its own keeps the provers from unfolding sequences here.
Cat(a, b) == a \o b

\* Rows of elements of Y, which any two of them together are again.
Rows(q, Y) ==
  /\ Len(q) \in Nat /\ \A i \in 1 .. Len(q) : q[i] \in Y
  /\ \A a \in Y, b \in Y : Cat(a, b) \in Y

FlatRec(q, g) ==
  g = [i \in 1 .. Len(q) |-> IF i = 1 THEN q[i] ELSE Cat(g[i - 1], q[i])]
FlatUpTo(q, Y, n, g) ==
  /\ g \in [1 .. n -> Y]
  /\ \A i \in 1 .. n : g[i] = IF i = 1 THEN q[i] ELSE Cat(g[i - 1], q[i])

LEMMA FlatExists ==
  ASSUME NEW Y, NEW q, Rows(q, Y)
  PROVE  \E g : FlatRec(q, g)
<1> DEFINE Q == {n \in Nat : n <= Len(q) => \E g : FlatUpTo(q, Y, n, g)}
<1>1. 0 \in Q
  <2>1. FlatUpTo(q, Y, 0, [i \in 1 .. 0 |-> <<>>])
    BY DEF FlatUpTo
  <2> QED BY <2>1
<1>2. ASSUME NEW n \in Q PROVE n + 1 \in Q
  <2> SUFFICES ASSUME n + 1 <= Len(q) PROVE \E g : FlatUpTo(q, Y, n + 1, g)
    OBVIOUS
  <2>0. n \in Nat /\ Len(q) \in Nat
    BY DEF Rows
  <2>1. PICK g : FlatUpTo(q, Y, n, g)
    BY <2>0
  <2> DEFINE last == IF n = 0 THEN q[n + 1] ELSE Cat(g[n], q[n + 1])
             h == [i \in 1 .. n + 1 |-> IF i = n + 1 THEN last ELSE g[i]]
  <2>2. q[n + 1] \in Y /\ (n # 0 => g[n] \in Y)
    BY <2>0, <2>1 DEF FlatUpTo, Rows
  <2>3. last \in Y
    BY <2>2 DEF Rows
  <2>4. h \in [1 .. n + 1 -> Y]
    BY <2>0, <2>1, <2>3 DEF FlatUpTo
  <2>5. ASSUME NEW i \in 1 .. n + 1
        PROVE  h[i] = IF i = 1 THEN q[i] ELSE Cat(h[i - 1], q[i])
    <3>1. CASE i = n + 1
      <4>1. n # 0 => h[n] = g[n]
        BY <2>0
      <4>2. h[i] = last
        BY <2>0, <3>1
      <4> HIDE DEF h
      <4> QED BY <2>0, <3>1, <4>1, <4>2
    <3>2. CASE i # n + 1
      <4>1. h[i] = g[i] /\ (i # 1 => h[i - 1] = g[i - 1]) /\ i \in 1 .. n
        BY <2>0, <3>2
      <4> HIDE DEF h
      <4> QED BY <2>1, <4>1 DEF FlatUpTo
    <3> QED BY <3>1, <3>2
  <2> HIDE DEF h
  <2>6. FlatUpTo(q, Y, n + 1, h)
    BY <2>4, <2>5 DEF FlatUpTo
  <2> QED BY <2>6
<1> HIDE DEF Q
<1>3. Len(q) \in Q
  <2>1. Len(q) \in Nat /\ Q \in SUBSET Nat
    BY DEF Q, Rows
  <2> QED BY <1>1, <1>2, <2>1, AllNumbers
<1>4. PICK g : FlatUpTo(q, Y, Len(q), g)
  BY <1>3 DEF Q
<1>5. FlatRec(q, g)
  BY <1>4 DEF FlatUpTo, FlatRec
<1> QED BY <1>5

\* Flat(q, Y, g): g holds what the first rows of q are together.
Flat(q, Y, g) ==
  /\ FlatUpTo(q, Y, Len(q), g)
  /\ Len(q) # 0 => FlattenSeq(q) = g[Len(q)]
  /\ Len(q) = 0 => FlattenSeq(q) = q

LEMMA FlatSolution ==
  ASSUME NEW Y, NEW q, Rows(q, Y)
  PROVE  \E g : Flat(q, Y, g)
<1> DEFINE g == CHOOSE g : FlatRec(q, g)
<1>1. FlatRec(q, g)
  BY FlatExists
<1>2. FlattenSeq(q) = IF Len(q) = 0 THEN q ELSE g[Len(q)]
  BY DEF FlattenSeq, FlatRec, Cat
<1> HIDE DEF g
<1> DEFINE Q == {n \in Nat : n \in 1 .. Len(q) => g[n] \in Y}
<1>3. 0 \in Q
  OBVIOUS
<1>4. ASSUME NEW n \in Q PROVE n + 1 \in Q
  <2> SUFFICES ASSUME n + 1 \in 1 .. Len(q) PROVE g[n + 1] \in Y
    OBVIOUS
  <2>0. n \in Nat /\ Len(q) \in Nat
    BY DEF Rows
  <2>1. q[n + 1] \in Y
    BY DEF Rows
  <2>2. g[n + 1] = IF n = 0 THEN q[n + 1] ELSE Cat(g[n], q[n + 1])
    BY <1>1, <2>0 DEF FlatRec
  <2>3. n # 0 => g[n] \in Y
    BY <2>0
  <2> QED BY <2>1, <2>2, <2>3 DEF Rows
<1>5. \A n \in Nat : n \in Q
  <2>1. Q \in SUBSET Nat
    OBVIOUS
  <2> HIDE DEF Q
  <2> QED BY <1>3, <1>4, <2>1, AllNumbers
<1>6. \A n \in 1 .. Len(q) : g[n] \in Y
  BY <1>5
<1>7. FlatUpTo(q, Y, Len(q), g)
  BY <1>1, <1>6 DEF FlatUpTo, FlatRec
<1>8. Flat(q, Y, g)
  BY <1>2, <1>7 DEF Flat
<1> QED BY <1>8

LEMMA FlatType ==
  ASSUME NEW Y, NEW q, Rows(q, Y), Len(q) # 0
  PROVE  FlattenSeq(q) \in Y
<1>1. PICK g : Flat(q, Y, g)
  BY FlatSolution
<1> QED BY <1>1 DEF Flat, FlatUpTo, Rows

\* One row more at the end.
LEMMA FlatAppend ==
  ASSUME NEW Y, NEW q, Rows(q, Y), NEW r, Rows(r, Y), Len(r) = Len(q) + 1,
         \A i \in 1 .. Len(q) : r[i] = q[i], Len(q) # 0
  PROVE  FlattenSeq(r) = Cat(FlattenSeq(q), r[Len(r)])
<1>0. Len(q) \in Nat
  BY DEF Rows
<1>1. PICK g : Flat(q, Y, g)
  BY FlatSolution
<1>2. PICK h : Flat(r, Y, h)
  BY FlatSolution
<1>3. \A i \in 1 .. Len(q) : g[i] = IF i = 1 THEN q[i] ELSE Cat(g[i - 1], q[i])
  BY <1>1 DEF Flat, FlatUpTo
<1>4. \A i \in 1 .. Len(q) + 1 : h[i] = IF i = 1 THEN r[i] ELSE Cat(h[i - 1], r[i])
  BY <1>2 DEF Flat, FlatUpTo
<1> DEFINE Q == {n \in Nat : n \in 1 .. Len(q) => h[n] = g[n]}
<1>5. 0 \in Q
  OBVIOUS
<1>6. ASSUME NEW n \in Q PROVE n + 1 \in Q
  <2> SUFFICES ASSUME n + 1 \in 1 .. Len(q) PROVE h[n + 1] = g[n + 1]
    OBVIOUS
  <2>1. n \in Nat /\ (n # 0 => h[n] = g[n])
    BY <1>0
  <2>2. /\ g[n + 1] = IF n = 0 THEN q[n + 1] ELSE Cat(g[n], q[n + 1])
        /\ h[n + 1] = IF n = 0 THEN r[n + 1] ELSE Cat(h[n], r[n + 1])
    BY <1>0, <1>3, <1>4, <2>1
  <2> QED BY <2>1, <2>2
<1>7. \A n \in Nat : n \in Q
  <2>1. Q \in SUBSET Nat
    OBVIOUS
  <2> HIDE DEF Q
  <2> QED BY <1>5, <1>6, <2>1, AllNumbers
<1>8. h[Len(q)] = g[Len(q)]
  BY <1>0, <1>7
<1>9. h[Len(q) + 1] = Cat(h[Len(q)], r[Len(q) + 1])
  BY <1>0, <1>4
<1>10. FlattenSeq(q) = g[Len(q)] /\ FlattenSeq(r) = h[Len(q) + 1]
  BY <1>0, <1>1, <1>2 DEF Flat
<1> QED BY <1>8, <1>9, <1>10

\* The first row and the others.
LEMMA FlatHead ==
  ASSUME NEW Y, NEW q, Rows(q, Y), NEW t, Rows(t, Y), Len(q) = Len(t) + 1, Len(t) # 0,
         \A i \in 1 .. Len(t) : t[i] = q[i + 1],
         \A a \in Y, b \in Y, c \in Y : Cat(Cat(a, b), c) = Cat(a, Cat(b, c))
  PROVE  FlattenSeq(q) = Cat(q[1], FlattenSeq(t))
<1>0. Len(t) \in Nat /\ q[1] \in Y /\ \A i \in 1 .. Len(t) : t[i] \in Y
  BY DEF Rows
<1>1. PICK g : Flat(q, Y, g)
  BY FlatSolution
<1>2. PICK h : Flat(t, Y, h)
  BY FlatSolution
<1>3. \A i \in 1 .. Len(t) + 1 : g[i] = IF i = 1 THEN q[i] ELSE Cat(g[i - 1], q[i])
  BY <1>1 DEF Flat, FlatUpTo
<1>4. \A i \in 1 .. Len(t) : h[i] \in Y /\ h[i] = IF i = 1 THEN t[i] ELSE Cat(h[i - 1], t[i])
  BY <1>2 DEF Flat, FlatUpTo
<1> DEFINE Q == {n \in Nat : n \in 1 .. Len(t) => g[n + 1] = Cat(q[1], h[n])}
<1>5. 0 \in Q
  OBVIOUS
<1>6. ASSUME NEW n \in Q PROVE n + 1 \in Q
  <2> SUFFICES ASSUME n + 1 \in 1 .. Len(t) PROVE g[n + 2] = Cat(q[1], h[n + 1])
    OBVIOUS
  <2>1. n \in Nat /\ (n # 0 => g[n + 1] = Cat(q[1], h[n]))
    BY <1>0
  <2>2. g[n + 2] = Cat(g[n + 1], q[n + 2]) /\ q[n + 2] = t[n + 1] /\ t[n + 1] \in Y
    <3>1. n + 2 \in 1 .. Len(t) + 1 /\ n + 2 # 1 /\ (n + 2) - 1 = n + 1 /\ (n + 1) + 1 = n + 2
      BY <1>0, <2>1
    <3>2. g[n + 2] = Cat(g[(n + 2) - 1], q[n + 2])
      BY <1>3, <3>1
    <3>3. t[n + 1] = q[(n + 1) + 1]
      OBVIOUS
    <3> QED BY <1>0, <3>1, <3>2, <3>3
  <2>3. CASE n = 0
    <3>1. g[1] = q[1] /\ h[1] = t[1]
      BY <1>0, <1>3, <1>4, <2>3
    <3> QED BY <2>2, <2>3, <3>1
  <2>4. CASE n # 0
    <3>1. h[n + 1] = Cat(h[n], t[n + 1]) /\ h[n] \in Y
      <4>1. n \in 1 .. Len(t) /\ n + 1 # 1 /\ (n + 1) - 1 = n
        BY <1>0, <2>1, <2>4
      <4> QED BY <1>4, <4>1
    <3>2. Cat(Cat(q[1], h[n]), t[n + 1]) = Cat(q[1], Cat(h[n], t[n + 1]))
      BY <1>0, <2>2, <3>1
    <3> QED BY <2>1, <2>2, <2>4, <3>1, <3>2
  <2> QED BY <2>3, <2>4
<1>7. \A n \in Nat : n \in Q
  <2>1. Q \in SUBSET Nat
    OBVIOUS
  <2> HIDE DEF Q
  <2> QED BY <1>5, <1>6, <2>1, AllNumbers
<1>8. g[Len(t) + 1] = Cat(q[1], h[Len(t)])
  BY <1>0, <1>7
<1>9. FlattenSeq(t) = h[Len(t)] /\ FlattenSeq(q) = g[Len(t) + 1]
  BY <1>0, <1>1, <1>2 DEF Flat
<1> QED BY <1>8, <1>9

\* The same for rows that are sequences.
LEMMA SequenceRows ==
  ASSUME NEW X, NEW q, Len(q) \in Nat, \A i \in 1 .. Len(q) : q[i] \in Seq(X)
  PROVE  Rows(q, Seq(X))
<1>1. ASSUME NEW a \in Seq(X), NEW b \in Seq(X) PROVE Cat(a, b) \in Seq(X)
  BY ConcatProperties DEF Cat
<1> QED BY <1>1 DEF Rows

LEMMA CatAssociative ==
  ASSUME NEW X, NEW a \in Seq(X), NEW b \in Seq(X), NEW c \in Seq(X)
  PROVE  Cat(Cat(a, b), c) = Cat(a, Cat(b, c))
BY ConcatAssociative DEF Cat

LEMMA OneRow ==
  ASSUME NEW Y, NEW q, Rows(q, Y), Len(q) = 1
  PROVE  FlattenSeq(q) = q[1]
<1>1. PICK g : Flat(q, Y, g)
  BY FlatSolution
<1> QED BY <1>1 DEF Flat, FlatUpTo

LEMMA NoRow == FlattenSeq(<<>>) = <<>>
BY DEF FlattenSeq

LEMMA FlattenGrows ==
  ASSUME NEW X, NEW q, Len(q) \in Nat, \A i \in 1 .. Len(q) : q[i] \in Seq(X),
         Len(q) = 0 => q = <<>>,
         NEW r, Len(r) = Len(q) + 1, \A i \in 1 .. Len(q) : r[i] = q[i],
         r[Len(r)] \in Seq(X)
  PROVE  FlattenSeq(r) = FlattenSeq(q) \o r[Len(r)]
<1>1. Rows(q, Seq(X))
  BY SequenceRows
<1>2. Rows(r, Seq(X))
  <2>1. \A i \in 1 .. Len(r) : r[i] \in Seq(X)
    <3> SUFFICES ASSUME NEW i \in 1 .. Len(r) PROVE r[i] \in Seq(X)
      OBVIOUS
    <3>1. i = Len(r) \/ i \in 1 .. Len(q)
      OBVIOUS
    <3> QED BY <3>1
  <2> QED BY <2>1, SequenceRows
<1>3. CASE Len(q) = 0
  <2>1. FlattenSeq(r) = r[1] /\ r[Len(r)] = r[1] /\ FlattenSeq(q) = <<>>
    BY <1>2, <1>3, OneRow, NoRow
  <2>2. <<>> \o r[1] = r[1]
    BY <2>1, ConcatEmptySeq
  <2> QED BY <2>1, <2>2
<1>4. CASE Len(q) # 0
  BY <1>1, <1>2, <1>4, FlatAppend DEF Cat
<1> QED BY <1>3, <1>4

LEMMA FlattenFirst ==
  ASSUME NEW X, NEW q, NEW t, Len(t) \in Nat, Len(q) = Len(t) + 1, Len(t) = 0 => t = <<>>,
         \A i \in 1 .. Len(t) : t[i] = q[i + 1] /\ t[i] \in Seq(X), q[1] \in Seq(X)
  PROVE  FlattenSeq(q) = q[1] \o FlattenSeq(t)
<1>1. Rows(t, Seq(X))
  BY SequenceRows
<1>2. Rows(q, Seq(X))
  <2>1. \A i \in 1 .. Len(q) : q[i] \in Seq(X)
    <3> SUFFICES ASSUME NEW i \in 1 .. Len(q), i # 1 PROVE q[i] \in Seq(X)
      OBVIOUS
    <3>1. i - 1 \in 1 .. Len(t) /\ (i - 1) + 1 = i
      OBVIOUS
    <3> QED BY <3>1
  <2> QED BY <2>1, SequenceRows
<1>3. CASE Len(t) = 0
  <2>1. FlattenSeq(q) = q[1] /\ FlattenSeq(t) = <<>>
    BY <1>2, <1>3, OneRow, NoRow
  <2>2. q[1] \o <<>> = q[1]
    BY ConcatEmptySeq
  <2> QED BY <2>1, <2>2
<1>4. CASE Len(t) # 0
  <2>1. \A a \in Seq(X), b \in Seq(X), c \in Seq(X) : Cat(Cat(a, b), c) = Cat(a, Cat(b, c))
    BY CatAssociative
  <2> DEFINE Y == Seq(X)
  <2>2. /\ Rows(q, Y) /\ Rows(t, Y)
        /\ \A a \in Y, b \in Y, c \in Y : Cat(Cat(a, b), c) = Cat(a, Cat(b, c))
    BY <1>1, <1>2, <2>1
  <2> HIDE DEF Y
  <2>3. FlattenSeq(q) = Cat(q[1], FlattenSeq(t))
    BY <1>4, <2>2, FlatHead
  <2> QED BY <2>3 DEF Cat
<1> QED BY <1>3, <1>4

LEMMA FlattenType ==
  ASSUME NEW X, NEW q, Len(q) \in Nat, \A i \in 1 .. Len(q) : q[i] \in Seq(X),
         Len(q) = 0 => q = <<>>
  PROVE  FlattenSeq(q) \in Seq(X)
<1>1. CASE Len(q) = 0
  BY <1>1, NoRow, EmptySeq
<1>2. CASE Len(q) # 0
  <2> DEFINE Y == Seq(X)
  <2>1. Rows(q, Y)
    BY SequenceRows
  <2> HIDE DEF Y
  <2>2. FlattenSeq(q) \in Y
    BY <1>2, <2>1, FlatType
  <2> QED BY <2>2 DEF Y
<1> QED BY <1>1, <1>2

-----------------------------------------------------------------------------
(* Queues and lots as sequences of single units.                           *)

UnitOpen == [price : Nat, date : Nat]
UnitRows(q) == [i \in DOMAIN q |-> Units(q[i])]

LEMMA UnitsType ==
  ASSUME NEW p \in Position
  PROVE  /\ Units(p) \in Seq(UnitOpen) /\ Len(Units(p)) = p.quantity
         /\ p.quantity \in Nat \ {0}
         /\ \A i \in 1 .. p.quantity : Units(p)[i] = [price |-> p.price, date |-> p.date]
<1>1. p.quantity \in Nat \ {0} /\ p.price \in Nat /\ p.date \in Nat
  BY DEF Position
<1>2. [price |-> p.price, date |-> p.date] \in UnitOpen
  BY <1>1 DEF UnitOpen
<1> QED BY <1>1, <1>2 DEF Units

LEMMA UnitRowsType ==
  ASSUME NEW q \in Seq(Position)
  PROVE  /\ Len(UnitRows(q)) = Len(q) /\ Len(q) \in Nat
         /\ \A i \in 1 .. Len(q) : UnitRows(q)[i] = Units(q[i]) /\ UnitRows(q)[i] \in Seq(UnitOpen)
         /\ UnitsOpen(q) = FlattenSeq(UnitRows(q))
         /\ Len(q) = 0 => UnitRows(q) = <<>>
<1>1. DOMAIN q = 1 .. Len(q) /\ Len(q) \in Nat
  OBVIOUS
<1>2. ASSUME NEW i \in 1 .. Len(q)
      PROVE  UnitRows(q)[i] = Units(q[i]) /\ UnitRows(q)[i] \in Seq(UnitOpen)
  <2>1. q[i] \in Position
    OBVIOUS
  <2> QED BY <1>1, <2>1, UnitsType DEF UnitRows
<1>3. UnitRows(q) \in Seq(Seq(UnitOpen)) /\ Len(UnitRows(q)) = Len(q)
  <2> DEFINE Y == Seq(UnitOpen)
  <2>1. \A i \in 1 .. Len(q) : Units(q[i]) \in Y
    BY <1>1, <1>2 DEF UnitRows
  <2> HIDE DEF Y
  <2>2. UnitRows(q) \in Seq(Y) /\ Len(UnitRows(q)) = Len(q)
    BY <1>1, <2>1 DEF UnitRows
  <2> QED BY <2>2 DEF Y
<1>4. Len(q) = 0 => UnitRows(q) = <<>>
  BY <1>1 DEF UnitRows
<1> QED BY <1>1, <1>2, <1>3, <1>4 DEF UnitsOpen, UnitRows

LEMMA UnitsOpenType == ASSUME NEW q \in Seq(Position) PROVE UnitsOpen(q) \in Seq(UnitOpen)
BY UnitRowsType, FlattenType

\* A new position adds its units at the end.
LEMMA UnitsAppended ==
  ASSUME NEW q \in Seq(Position), NEW p \in Position
  PROVE  UnitsOpen(Append(q, p)) = UnitsOpen(q) \o Units(p)
<1> DEFINE r == Append(q, p)
<1>1. /\ r \in Seq(Position) /\ Len(r) = Len(q) + 1 /\ r[Len(r)] = p
      /\ \A i \in 1 .. Len(q) : r[i] = q[i]
  OBVIOUS
<1> HIDE DEF r
<1>2. Len(q) \in Nat /\ Len(UnitRows(r)) = Len(UnitRows(q)) + 1
  BY <1>1, UnitRowsType
<1>3. UnitRows(r)[Len(UnitRows(r))] = Units(p) /\ Units(p) \in Seq(UnitOpen)
  BY <1>1, <1>2, UnitRowsType, UnitsType
<1>4. \A i \in 1 .. Len(UnitRows(q)) : UnitRows(r)[i] = UnitRows(q)[i]
  <2> SUFFICES ASSUME NEW i \in 1 .. Len(q) PROVE UnitRows(r)[i] = UnitRows(q)[i]
    BY UnitRowsType
  <2>1. i \in 1 .. Len(r) /\ r[i] = q[i]
    BY <1>1, <1>2
  <2>2. UnitRows(r)[i] = Units(r[i]) /\ UnitRows(q)[i] = Units(q[i])
    BY <1>1, <2>1, UnitRowsType
  <2> QED BY <2>1, <2>2
<1>5. /\ Len(UnitRows(q)) \in Nat
      /\ \A i \in 1 .. Len(UnitRows(q)) : UnitRows(q)[i] \in Seq(UnitOpen)
      /\ Len(UnitRows(q)) = 0 => UnitRows(q) = <<>>
  BY UnitRowsType
<1>6. FlattenSeq(UnitRows(r)) = FlattenSeq(UnitRows(q)) \o UnitRows(r)[Len(UnitRows(r))]
  BY <1>2, <1>3, <1>4, <1>5, FlattenGrows
<1>7. UnitsOpen(q) = FlattenSeq(UnitRows(q)) /\ UnitsOpen(r) = FlattenSeq(UnitRows(r))
  BY <1>1, UnitRowsType
<1> QED BY <1>3, <1>6, <1>7 DEF r

\* The oldest position has the first units.
LEMMA UnitsFirst ==
  ASSUME NEW q \in Seq(Position), NEW t \in Seq(Position), Len(q) = Len(t) + 1,
         \A i \in 1 .. Len(t) : t[i] = q[i + 1]
  PROVE  UnitsOpen(q) = Units(q[1]) \o UnitsOpen(t)
<1>1. /\ Len(UnitRows(t)) \in Nat /\ Len(UnitRows(q)) = Len(UnitRows(t)) + 1
      /\ Len(UnitRows(t)) = 0 => UnitRows(t) = <<>>
  BY UnitRowsType
<1>2. UnitRows(q)[1] = Units(q[1]) /\ UnitRows(q)[1] \in Seq(UnitOpen)
  <2>1. 1 \in 1 .. Len(q)
    BY UnitRowsType
  <2> QED BY <2>1, UnitRowsType
<1>3. ASSUME NEW i \in 1 .. Len(UnitRows(t))
      PROVE  UnitRows(t)[i] = UnitRows(q)[i + 1] /\ UnitRows(t)[i] \in Seq(UnitOpen)
  <2>1. i \in 1 .. Len(t) /\ i + 1 \in 1 .. Len(q) /\ t[i] = q[i + 1]
    BY UnitRowsType
  <2>2. UnitRows(q)[i + 1] = Units(q[i + 1]) /\ UnitRows(t)[i] = Units(t[i])
    BY <2>1, UnitRowsType
  <2>3. UnitRows(t)[i] \in Seq(UnitOpen)
    BY <2>1, UnitRowsType
  <2> QED BY <2>1, <2>2, <2>3
<1>4. FlattenSeq(UnitRows(q)) = UnitRows(q)[1] \o FlattenSeq(UnitRows(t))
  <2> DEFINE a == UnitRows(q)
             b == UnitRows(t)
  <2>1. /\ Len(b) \in Nat /\ Len(a) = Len(b) + 1 /\ (Len(b) = 0 => b = <<>>)
        /\ a[1] \in Seq(UnitOpen)
        /\ \A i \in 1 .. Len(b) : b[i] = a[i + 1] /\ b[i] \in Seq(UnitOpen)
    BY <1>1, <1>2, <1>3
  <2> HIDE DEF a, b
  <2>2. FlattenSeq(a) = a[1] \o FlattenSeq(b)
    BY <2>1, FlattenFirst
  <2> QED BY <2>2 DEF a, b
<1> QED BY <1>2, <1>4, UnitRowsType

\* A queue has no units only when it is empty.
LEMMA UnitsNone ==
  ASSUME NEW q \in Seq(Position)
  PROVE  (UnitsOpen(q) = <<>>) <=> (q = <<>>)
<1>1. UnitsOpen(<<>>) = <<>>
  <2>1. UnitRows(<<>>) = <<>>
    BY DEF UnitRows
  <2> QED BY <2>1, NoRow DEF UnitsOpen, UnitRows
<1>2. ASSUME q # <<>> PROVE UnitsOpen(q) # <<>>
  <2>1. /\ Tail(q) \in Seq(Position) /\ Len(q) = Len(Tail(q)) + 1 /\ q[1] \in Position
        /\ \A i \in 1 .. Len(Tail(q)) : Tail(q)[i] = q[i + 1]
    BY <1>2
  <2>2. UnitsOpen(q) = Units(q[1]) \o UnitsOpen(Tail(q))
    BY <2>1, UnitsFirst
  <2>3. Units(q[1]) \in Seq(UnitOpen) /\ Len(Units(q[1])) # 0
    BY <2>1, UnitsType
  <2>4. UnitsOpen(Tail(q)) \in Seq(UnitOpen)
    BY <2>1, UnitsOpenType
  <2> QED BY <2>2, <2>3, <2>4
<1> QED BY <1>1, <1>2

\* c is what is left of the queue a without its first k units; the same of the
\* queue a with b behind it, as UnitLedger takes closed units off.
RestOf(X, a, c, k) ==
  /\ a \in Seq(X) /\ c \in Seq(X) /\ k \in Nat
  /\ k + Len(c) = Len(a) /\ \A i \in 1 .. Len(c) : c[i] = a[i + k]

Dropped(a, b, c, k) == c \o b = SubSeq(a \o b, k + 1, Len(a \o b))

LEMMA DropFirst ==
  ASSUME NEW X, NEW a, NEW c, NEW k, RestOf(X, a, c, k), NEW b \in Seq(X)
  PROVE  Dropped(a, b, c, k)
<1>0. a \in Seq(X) /\ c \in Seq(X) /\ k \in Nat /\ k + Len(c) = Len(a)
  BY DEF RestOf
<1>a. \A i \in 1 .. Len(c) : c[i] = a[i + k]
  BY DEF RestOf
<1> DEFINE s == SubSeq(a \o b, k + 1, Len(a \o b))
<1>1. a \o b \in Seq(X) /\ Len(a \o b) = Len(a) + Len(b) /\ Len(a) \in Nat
      /\ Len(b) \in Nat /\ Len(c) \in Nat
  BY <1>0
<1>2. \A i \in k + 1 .. Len(a \o b) : (a \o b)[i] \in X
  BY <1>0, <1>1
<1>3. /\ s \in Seq(X) /\ Len(s) = Len(a) + Len(b) - k
      /\ \A i \in 1 .. Len(a) + Len(b) - k : s[i] = (a \o b)[i + k]
  <2>1. /\ s \in Seq(X)
        /\ Len(s) = IF k + 1 <= Len(a \o b) THEN Len(a \o b) - (k + 1) + 1 ELSE 0
        /\ \A i \in 1 .. Len(a \o b) - (k + 1) + 1 : s[i] = (a \o b)[(k + 1) + i - 1]
    BY <1>0, <1>1, <1>2, SubSeqProperties
  <2> HIDE DEF s
  <2>2. Len(s) = Len(a) + Len(b) - k
    BY <1>0, <1>1, <2>1
  <2>3. ASSUME NEW i \in 1 .. Len(a) + Len(b) - k PROVE s[i] = (a \o b)[i + k]
    <3>1. i \in 1 .. Len(a \o b) - (k + 1) + 1 /\ (k + 1) + i - 1 = i + k
      BY <1>0, <1>1
    <3> QED BY <1>0, <2>1, <3>1
  <2> QED BY <2>1, <2>2, <2>3
<1> HIDE DEF s
<1>4. /\ c \o b \in Seq(X) /\ Len(c \o b) = Len(s)
      /\ \A i \in 1 .. Len(c \o b) : (c \o b)[i] = IF i <= Len(c) THEN c[i] ELSE b[i - Len(c)]
  <2>1. /\ c \o b \in Seq(X) /\ Len(c \o b) = Len(c) + Len(b)
        /\ \A i \in 1 .. Len(c) + Len(b) : (c \o b)[i] = IF i <= Len(c) THEN c[i] ELSE b[i - Len(c)]
    BY <1>0, ConcatProperties
  <2>2. Len(c) + Len(b) = Len(s)
    <3>1. /\ Len(a) \in Nat /\ Len(b) \in Nat /\ Len(c) \in Nat /\ k \in Nat
          /\ k + Len(c) = Len(a)
      BY <1>0, <1>1
    <3>2. Len(s) = Len(a) + Len(b) - k
      BY <1>3
    <3> QED BY <3>1, <3>2
  <2> QED BY <2>1, <2>2
<1>5. \A i \in 1 .. Len(a) + Len(b) : (a \o b)[i] = IF i <= Len(a) THEN a[i] ELSE b[i - Len(a)]
  BY <1>0, ConcatProperties
<1>6. ASSUME NEW i \in 1 .. Len(c \o b) PROVE (c \o b)[i] = s[i]
  <2>1. s[i] = (a \o b)[i + k] /\ i + k \in 1 .. Len(a) + Len(b)
    BY <1>0, <1>1, <1>3, <1>4
  <2>2. CASE i <= Len(c)
    <3>1. i \in 1 .. Len(c) /\ i + k <= Len(a)
      <4>1. i \in Int /\ 1 <= i /\ Len(c) \in Int /\ Len(a) \in Int /\ k \in Int
        BY <1>0, <1>1
      <4> QED BY <1>0, <2>2, <4>1
    <3> QED BY <1>a, <1>4, <1>5, <2>1, <2>2, <3>1
  <2>3. CASE ~ (i <= Len(c))
    <3>1. (i + k) - Len(a) = i - Len(c) /\ ~ (i + k <= Len(a))
      <4>1. \A x, y, z, w \in Int : w + y = z => (x + w) - z = x - y /\ (x <= y <=> x + w <= z)
        OBVIOUS
      <4>2. i \in Int /\ k \in Int /\ Len(a) \in Int /\ Len(c) \in Int
        BY <1>0, <1>1
      <4>3. k + Len(c) = Len(a)
        BY <1>0
      <4> QED BY <2>3, <4>1, <4>2, <4>3
    <3> QED BY <1>4, <1>5, <2>1, <2>3, <3>1
  <2> QED BY <2>2, <2>3
<1>7. c \o b = s
  BY <1>0, <1>3, <1>4, <1>6, SeqEqual
<1> QED BY <1>7 DEF s, Dropped

OrderOfLot == [side : Side, price : Nat, date : Nat]
UnitClosed == UnitOpen \X OrderOfLot
LotRows(ls) == [i \in DOMAIN ls |-> UnitsOfLot(ls[i])]

LEMMA UnitsOfLotType ==
  ASSUME NEW l \in Lot
  PROVE  UnitsOfLot(l) \in Seq(UnitClosed)
<1>1. /\ l.quantity \in Nat /\ l.openPrice \in Nat /\ l.openDate \in Nat
      /\ l.side \in Side /\ l.closePrice \in Nat /\ l.closeDate \in Nat
  BY DEF Lot
<1> DEFINE u == <<[price |-> l.openPrice, date |-> l.openDate],
                  [side |-> l.side, price |-> l.closePrice, date |-> l.closeDate]>>
<1>2. u \in UnitClosed
  BY <1>1 DEF UnitClosed, UnitOpen, OrderOfLot
<1>3. UnitsOfLot(l) = [i \in 1 .. l.quantity |-> u]
  BY DEF UnitsOfLot
<1> HIDE DEF u
<1> QED BY <1>1, <1>2, <1>3

LEMMA LotRowsType ==
  ASSUME NEW ls \in Seq(Lot)
  PROVE  /\ Len(LotRows(ls)) = Len(ls) /\ Len(ls) \in Nat
         /\ \A i \in 1 .. Len(ls) : LotRows(ls)[i] = UnitsOfLot(ls[i]) /\ LotRows(ls)[i] \in Seq(UnitClosed)
         /\ Len(ls) = 0 => LotRows(ls) = <<>>
<1>1. DOMAIN ls = 1 .. Len(ls) /\ Len(ls) \in Nat
  OBVIOUS
<1>2. ASSUME NEW i \in 1 .. Len(ls)
      PROVE  LotRows(ls)[i] = UnitsOfLot(ls[i]) /\ LotRows(ls)[i] \in Seq(UnitClosed)
  <2>1. ls[i] \in Lot
    OBVIOUS
  <2> QED BY <1>1, <2>1, UnitsOfLotType DEF LotRows
<1>3. Len(LotRows(ls)) = Len(ls)
  <2> DEFINE Y == Seq(UnitClosed)
  <2>1. \A i \in 1 .. Len(ls) : UnitsOfLot(ls[i]) \in Y
    BY <1>1, <1>2 DEF LotRows
  <2> HIDE DEF Y
  <2> QED BY <1>1, <2>1 DEF LotRows
<1>4. Len(ls) = 0 => LotRows(ls) = <<>>
  BY <1>1 DEF LotRows
<1> QED BY <1>1, <1>2, <1>3, <1>4

\* A new lot adds its units at the end.
LEMMA LotAppended ==
  ASSUME NEW ls \in Seq(Lot), NEW l \in Lot
  PROVE  FlattenSeq(LotRows(Append(ls, l))) = FlattenSeq(LotRows(ls)) \o UnitsOfLot(l)
<1> DEFINE r == Append(ls, l)
           a == LotRows(ls)
           b == LotRows(r)
<1>1. /\ r \in Seq(Lot) /\ Len(r) = Len(ls) + 1 /\ r[Len(r)] = l
      /\ \A i \in 1 .. Len(ls) : r[i] = ls[i]
  OBVIOUS
<1> HIDE DEF r
<1>2. Len(a) \in Nat /\ Len(b) = Len(a) + 1 /\ (Len(a) = 0 => a = <<>>)
  BY <1>1, LotRowsType
<1>3. b[Len(b)] = UnitsOfLot(l) /\ b[Len(b)] \in Seq(UnitClosed)
  <2>1. Len(b) = Len(r) /\ Len(r) \in 1 .. Len(r)
    BY <1>1, LotRowsType
  <2> QED BY <1>1, <2>1, LotRowsType
<1>4. \A i \in 1 .. Len(a) : b[i] = a[i] /\ a[i] \in Seq(UnitClosed)
  <2> SUFFICES ASSUME NEW i \in 1 .. Len(ls) PROVE b[i] = a[i] /\ a[i] \in Seq(UnitClosed)
    BY LotRowsType
  <2>1. i \in 1 .. Len(r) /\ r[i] = ls[i]
    BY <1>1, LotRowsType
  <2>2. b[i] = UnitsOfLot(r[i]) /\ a[i] = UnitsOfLot(ls[i]) /\ a[i] \in Seq(UnitClosed)
    BY <1>1, <2>1, LotRowsType
  <2> QED BY <2>1, <2>2
<1> HIDE DEF a, b
<1>5. FlattenSeq(b) = FlattenSeq(a) \o b[Len(b)]
  BY <1>2, <1>3, <1>4, FlattenGrows
<1> QED BY <1>3, <1>5 DEF a, b, r

-----------------------------------------------------------------------------
(* The refinement.                                                         *)

\* No date is later than the trades so far and their pauses allow.
DayInv == day = 0 \/ \E n \in Pause : day <= n * trades

LEMMA Times ==
  ASSUME NEW a \in Nat, NEW b \in Nat, NEW c \in Nat, a <= b
  PROVE  a * c <= b * c /\ c * a <= c * b /\ a * c \in Nat
<1>1. (b - a) * c \in Nat /\ (b - a) * c = b * c - a * c
  OBVIOUS
<1> QED BY <1>1

LEMMA NextDay ==
  ASSUME LotInv, DayInv, NextTrade
  PROVE  DayInv' /\ day' \in Dates
<1>1. PICK m \in Pause : day' = day + m
  BY NextTradeAdvances
<1>2. /\ m \in Nat /\ trades \in Nat /\ trades' = trades + 1 /\ trades' <= MaxTrades
      /\ MaxTrades \in Nat /\ day \in Nat
  BY <1>1, TradeTypes, NextTradeAdvances DEF LotInv, Types
<1>3. \E k \in Pause : k \in Nat /\ day' <= k * (trades + 1)
  <2>1. CASE day = 0
    <3>1. m * 1 <= m * (trades + 1)
      BY <1>2, Times
    <3> QED BY <1>1, <1>2, <2>1, <3>1
  <2>2. CASE day # 0
    <3>1. PICK n \in Pause : day <= n * trades
      BY <2>2 DEF DayInv
    <3>2. n \in Nat
      BY <3>1, TradeTypes
    <3>3. /\ \A k \in Nat : k * (trades + 1) = k * trades + k /\ k * trades \in Nat
      BY <1>2
    <3>4. CASE n <= m
      <4>1. n * trades <= m * trades
        BY <1>2, <3>2, <3>4, Times
      <4> QED BY <1>1, <1>2, <3>1, <3>2, <3>3, <4>1
    <3>5. CASE m <= n
      BY <1>1, <1>2, <3>1, <3>2, <3>3, <3>5
    <3> QED BY <1>2, <3>2, <3>4, <3>5
  <2> QED BY <2>1, <2>2
<1>4. PICK k \in Pause : k \in Nat /\ day' <= k * trades'
  BY <1>2, <1>3
<1>5. k * trades' <= k * MaxTrades /\ k * trades' \in Nat /\ k * MaxTrades \in Nat
  BY <1>2, <1>4, Times
<1>6. day' \in 0 .. k * MaxTrades
  BY <1>1, <1>2, <1>4, <1>5
<1> QED BY <1>4, <1>6 DEF DayInv, Dates

LEMMA LedgerOpens ==
  ASSUME LotInv, DayInv, NEW t \in Opening, Open(t)
  PROVE  \E s \in Side, u \in Bought, n \in Quantities : Ledger!OpenUnits(s, u, n)
<1>1. PICK s \in Opens(t) :
        queue' = [queue EXCEPT ![s] =
          Append(@, [quantity |-> t.quantity, price |-> t.price, date |-> day'])]
  BY DEF Open
<1> DEFINE p == [quantity |-> t.quantity, price |-> t.price, date |-> day']
           u == [price |-> t.price, date |-> day']
<1>2. s \in Side /\ t.quantity \in Quantities
  BY DEF Opens, Side, Quantities
<1>3. NextTrade /\ lots' = lots /\ sale' = [sale EXCEPT !.remaining = 0]
  BY DEF Open
<1>4. u \in Bought
  BY <1>3, NextDay DEF Bought
<1>5. p \in Position
  BY <1>3, TradeTypes, NextTradeAdvances DEF Position
<1>6. Units(p) = [i \in 1 .. t.quantity |-> u]
  BY DEF Units
<1> HIDE DEF p, u
<1>7. queue[s] \in Seq(Position) /\ queue' = [queue EXCEPT ![s] = Append(queue[s], p)]
      /\ queue \in [Side -> Seq(Position)]
  BY <1>1, <1>2 DEF LotInv, Types, p
<1>8. UnitsOpen(queue'[s]) = UnitsOpen(queue[s]) \o [i \in 1 .. t.quantity |-> u]
  <2>1. queue'[s] = Append(queue[s], p)
    BY <1>2, <1>7
  <2> QED BY <1>5, <1>6, <1>7, <2>1, UnitsAppended
<1>9. OpenNow' = [OpenNow EXCEPT ![s] = @ \o [i \in 1 .. t.quantity |-> u]]
  <2>1. OpenNow' = [r \in Side |-> UnitsOpen(queue'[r])]
    BY DEF OpenNow, UnitsOpen, Units
  <2>2. \A r \in Side : r # s => queue'[r] = queue[r]
    BY <1>7
  <2>3. \A r \in Side : UnitsOpen(queue'[r]) =
          IF r = s THEN UnitsOpen(queue[s]) \o [i \in 1 .. t.quantity |-> u] ELSE UnitsOpen(queue[r])
    BY <1>8, <2>2
  <2> QED BY <1>2, <2>1, <2>3, Zenon DEF OpenNow
<1>10. ClosedNow' = ClosedNow
  BY <1>3 DEF ClosedNow
<1>11. OrderNow' = OrderNow /\ WantedNow' = 0
  BY <1>3 DEF OrderNow, WantedNow, Matching, LotInv, Types, Closure
<1>12. WantedNow = 0
  BY <1>3 DEF NextTrade, WantedNow
<1>13. Ledger!OpenUnits(s, u, t.quantity)
  BY <1>9, <1>10, <1>11, <1>12 DEF Ledger!OpenUnits
<1> QED BY <1>2, <1>4, <1>13

LEMMA LedgerBegins ==
  ASSUME LotInv, DayInv, NEW t \in Closing, Close(t)
  PROVE  \E o \in Sold, n \in Quantities : Ledger!BeginClosing(o, n)
<1>1. PICK s \in Closes(t) :
        sale' = [side |-> s, total |-> t.quantity, remaining |-> t.quantity,
                 price |-> t.price, date |-> day', commission |-> t.commission,
                 before |-> Len(lots)]
  BY DEF Close
<1> DEFINE o == [side |-> s, price |-> t.price, date |-> day']
<1>2. s \in Side /\ t.quantity \in Quantities /\ t.quantity \in Nat \ {0}
  BY TradeTypes DEF Closes, Side, Quantities
<1>3. NextTrade /\ lots' = lots /\ queue' = queue
  BY DEF Close
<1>4. o \in Sold
  BY <1>2, <1>3, NextDay DEF Sold
<1>5. OrderNow' = o /\ o.side = s
  BY <1>1 DEF OrderNow
<1>6. OpenNow' = OpenNow /\ ClosedNow' = ClosedNow
  BY <1>3 DEF OpenNow, ClosedNow, UnitsOpen
<1>7. WantedNow = 0
  BY <1>3 DEF NextTrade, WantedNow
<1>8. WantedNow' = IF OpenNow[s] = <<>> THEN 0 ELSE t.quantity
  <2>1. queue[s] \in Seq(Position) /\ OpenNow[s] = UnitsOpen(queue[s])
    BY <1>2 DEF LotInv, Types, OpenNow
  <2>2. (OpenNow[s] = <<>>) <=> (queue[s] = <<>>)
    BY <2>1, UnitsNone
  <2>3. Matching' <=> (queue[s] # <<>>)
    BY <1>1, <1>2, <1>3 DEF Matching
  <2> QED BY <1>1, <2>2, <2>3 DEF WantedNow
<1> HIDE DEF o
<1>9. Ledger!BeginClosing(o, t.quantity)
  BY <1>5, <1>6, <1>7, <1>8 DEF Ledger!BeginClosing
<1> QED BY <1>2, <1>4, <1>9

\* What one turn of the matching loop does to the units of the queue.
LEMMA UnitsLeft ==
  ASSUME NEW q \in Seq(Position), q # <<>>, NEW k \in Nat \ {0}, k <= q[1].quantity
  PROVE  /\ UnitsOpen(Left(q, k)) = SubSeq(UnitsOpen(q), k + 1, Len(UnitsOpen(q)))
         /\ k <= Len(UnitsOpen(q)) /\ Len(UnitsOpen(q)) \in Nat
         /\ (k = Len(UnitsOpen(q))) <=> (Left(q, k) = <<>>)
         /\ \A i \in 1 .. k : UnitsOpen(q)[i] = [price |-> q[1].price, date |-> q[1].date]
<1> DEFINE p == q[1]
           t == Tail(q)
           a == Units(p)
           b == UnitsOpen(t)
<1>1. /\ p \in Position /\ t \in Seq(Position) /\ Len(q) = Len(t) + 1
      /\ \A i \in 1 .. Len(t) : t[i] = q[i + 1]
  OBVIOUS
<1>2. UnitsOpen(q) = a \o b
  BY <1>1, UnitsFirst
<1>3. /\ a \in Seq(UnitOpen) /\ Len(a) = p.quantity /\ p.quantity \in Nat \ {0}
      /\ \A i \in 1 .. p.quantity : a[i] = [price |-> p.price, date |-> p.date]
  BY <1>1, UnitsType
<1>4. b \in Seq(UnitOpen) /\ Len(b) \in Nat /\ ((Len(b) = 0) <=> (b = <<>>)) /\ ((b = <<>>) <=> (t = <<>>))
  <2>1. b \in Seq(UnitOpen) /\ ((b = <<>>) <=> (t = <<>>))
    BY <1>1, UnitsOpenType, UnitsNone
  <2> HIDE DEF b, t
  <2> QED BY <2>1
<1> HIDE DEF a, b, t
<1>5. Len(a \o b) = Len(a) + Len(b) /\ \A i \in 1 .. Len(a) : (a \o b)[i] = a[i]
  <2>1. a \in Seq(UnitOpen) /\ b \in Seq(UnitOpen) /\ Len(a) \in Nat /\ Len(b) \in Nat
    BY <1>3, <1>4
  <2>2. /\ Len(a \o b) = Len(a) + Len(b)
        /\ \A i \in 1 .. Len(a) + Len(b) : (a \o b)[i] = IF i <= Len(a) THEN a[i] ELSE b[i - Len(a)]
    BY <2>1, ConcatProperties
  <2> QED BY <2>1, <2>2
<1>6. k <= p.quantity /\ Left(q, k) = IF p.quantity - k <= 0 THEN t
                                     ELSE <<[p EXCEPT !.quantity = p.quantity - k]>> \o t
  BY DEF Left, t
<1> HIDE DEF p
<1>7. CASE k = p.quantity
  <2>1. Left(q, k) = t
    BY <1>3, <1>6, <1>7
  <2>2. <<>> \o b = SubSeq(a \o b, k + 1, Len(a \o b))
    <3> DEFINE c == <<>>
    <3>1. RestOf(UnitOpen, a, c, k)
      BY <1>3, <1>7 DEF RestOf
    <3> HIDE DEF c
    <3>2. b \in Seq(UnitOpen)
      BY <1>4
    <3>3. Dropped(a, b, c, k)
      BY <3>1, <3>2, DropFirst
    <3> QED BY <3>3 DEF c, Dropped
  <2>3. <<>> \o b = b
    BY <1>4, ConcatEmptySeq
  <2>4. UnitsOpen(Left(q, k)) = SubSeq(UnitsOpen(q), k + 1, Len(UnitsOpen(q)))
    BY <1>2, <2>1, <2>2, <2>3 DEF b
  <2>5. (k = Len(a \o b)) <=> (t = <<>>)
    BY <1>3, <1>4, <1>5, <1>7
  <2>6. k <= Len(a \o b) /\ Len(a \o b) \in Nat
    BY <1>3, <1>4, <1>5, <1>7
  <2>7. \A i \in 1 .. k : (a \o b)[i] = [price |-> p.price, date |-> p.date]
    BY <1>3, <1>5, <1>7
  <2> QED BY <1>2, <2>1, <2>4, <2>5, <2>6, <2>7 DEF p
<1>8. CASE k # p.quantity
  <2> DEFINE r == [p EXCEPT !.quantity = p.quantity - k]
             c == Units(r)
  <2>0. p.quantity - k \in Nat \ {0}
    BY <1>3, <1>6, <1>8
  <2>1. /\ r \in Position /\ r.quantity = p.quantity - k
        /\ r.price = p.price /\ r.date = p.date
    BY <1>1, <2>0 DEF Position
  <2> HIDE DEF r
  <2>2. Left(q, k) = <<r>> \o t
    BY <1>6, <2>0 DEF r
  <2>3. UnitsOpen(<<r>> \o t) = c \o b
    <3> DEFINE w == <<r>> \o t
    <3>1. /\ w \in Seq(Position) /\ w[1] = r /\ Len(w) = Len(t) + 1
          /\ \A i \in 1 .. Len(t) : t[i] = w[i + 1]
      BY <1>1, <2>1
    <3> HIDE DEF w
    <3>2. UnitsOpen(w) = Units(w[1]) \o UnitsOpen(t)
      BY <1>1, <3>1, UnitsFirst
    <3> QED BY <3>1, <3>2 DEF w, b
  <2>4. /\ c \in Seq(UnitOpen) /\ k + Len(c) = Len(a)
        /\ \A i \in 1 .. Len(c) : c[i] = a[i + k]
    <3>1. /\ c \in Seq(UnitOpen) /\ Len(c) = p.quantity - k
          /\ \A i \in 1 .. p.quantity - k : c[i] = [price |-> p.price, date |-> p.date]
      BY <2>1, UnitsType
    <3> HIDE DEF c
    <3>2. ASSUME NEW i \in 1 .. Len(c) PROVE c[i] = a[i + k]
      <4>1. i \in 1 .. p.quantity - k /\ i + k \in 1 .. p.quantity
        BY <1>3, <3>1
      <4> QED BY <1>3, <3>1, <4>1
    <3> QED BY <1>3, <3>1, <3>2
  <2> HIDE DEF c
  <2>5. c \o b = SubSeq(a \o b, k + 1, Len(a \o b))
    <3>1. RestOf(UnitOpen, a, c, k)
      BY <1>3, <2>4 DEF RestOf
    <3>2. b \in Seq(UnitOpen)
      BY <1>4
    <3>3. Dropped(a, b, c, k)
      BY <3>1, <3>2, DropFirst
    <3> QED BY <3>3 DEF Dropped
  <2>6. <<r>> \o t # <<>>
    BY <1>1, <2>1
  <2>7. k # Len(a \o b) /\ k <= Len(a \o b) /\ Len(a \o b) \in Nat
    BY <1>3, <1>4, <1>5, <1>6, <1>8
  <2>8. \A i \in 1 .. k : (a \o b)[i] = [price |-> p.price, date |-> p.date]
    BY <1>3, <1>5, <1>6
  <2> QED BY <1>2, <2>2, <2>3, <2>5, <2>6, <2>7, <2>8 DEF p
<1> QED BY <1>7, <1>8

LEMMA LedgerCloses ==
  ASSUME LotInv, Match
  PROVE  \E k \in 1 .. WantedNow : Ledger!CloseUnits(k)
<1>1. PICK share \in Share(Used) : lots' = Append(lots, LotOf(share))
  BY MatchLot
<1> DEFINE q == queue[sale.side]
           l == LotOf(share)
           k == Used
           u == OpenNow[sale.side]
<1>2. /\ sale.side \in Side /\ q \in Seq(Position) /\ q # <<>> /\ sale.remaining > 0
      /\ k \in Nat \ {0} /\ k <= sale.remaining /\ k <= q[1].quantity
      /\ queue' = [queue EXCEPT ![sale.side] = Left(q, k)]
      /\ sale' = [sale EXCEPT !.remaining = sale.remaining - k]
  BY MatchFacts
<1>3. sale.remaining \in Nat /\ sale \in Closure /\ queue \in [Side -> Seq(Position)]
  BY DEF LotInv, Types, Closure
<1>4. WantedNow = sale.remaining
  BY <1>2 DEF WantedNow, Matching
<1>5. OrderNow' = OrderNow /\ OrderNow.side = sale.side /\ sale'.remaining = sale.remaining - k
      /\ sale'.side = sale.side
  BY <1>2, <1>3 DEF OrderNow, Closure
<1>6. u = UnitsOpen(q)
  BY <1>2 DEF OpenNow
<1>7. /\ UnitsOpen(Left(q, k)) = SubSeq(u, k + 1, Len(u))
      /\ k <= Len(u) /\ Len(u) \in Nat /\ ((k = Len(u)) <=> (Left(q, k) = <<>>))
      /\ \A i \in 1 .. k : u[i] = [price |-> q[1].price, date |-> q[1].date]
  BY <1>2, <1>6, UnitsLeft
<1>8. OpenNow' = [OpenNow EXCEPT ![OrderNow.side] = SubSeq(u, k + 1, Len(u))]
  <2>1. OpenNow' = [r \in Side |-> UnitsOpen(queue'[r])]
    BY DEF OpenNow, UnitsOpen, Units
  <2>2. \A r \in Side : queue'[r] = IF r = sale.side THEN Left(q, k) ELSE queue[r]
    BY <1>2, <1>3
  <2>3. \A r \in Side : UnitsOpen(queue'[r]) =
          IF r = sale.side THEN SubSeq(u, k + 1, Len(u)) ELSE UnitsOpen(queue[r])
    BY <1>7, <2>2
  <2> HIDE DEF u, k, q
  <2> QED BY <1>2, <1>5, <2>1, <2>3, Zenon DEF OpenNow
<1>9. ClosedNow' = ClosedNow \o [i \in 1 .. k |-> <<u[i], OrderNow>>]
  <2>1. l \in Lot /\ lots \in Seq(Lot)
    BY LotOfType DEF LotInv, Types
  <2>2. ClosedNow = FlattenSeq(LotRows(lots)) /\ ClosedNow' = FlattenSeq(LotRows(lots'))
    BY DEF ClosedNow, LotRows, UnitsOfLot
  <2>3. UnitsOfLot(l) = [i \in 1 .. k |-> <<[price |-> q[1].price, date |-> q[1].date], OrderNow>>]
    BY DEF UnitsOfLot, LotOf, OrderNow
  <2>4. [i \in 1 .. k |-> <<[price |-> q[1].price, date |-> q[1].date], OrderNow>>] =
        [i \in 1 .. k |-> <<u[i], OrderNow>>]
    BY <1>7
  <2> HIDE DEF u, k, q, l
  <2>5. ClosedNow' = ClosedNow \o UnitsOfLot(l)
    BY <1>1, <2>1, <2>2, LotAppended DEF l
  <2> QED BY <2>3, <2>4, <2>5
<1>10. WantedNow' = IF k = Len(u) THEN 0 ELSE WantedNow - k
  <2>1. queue'[sale'.side] = Left(q, k)
    BY <1>2, <1>3, <1>5
  <2>2. Matching' <=> (sale.remaining - k > 0 /\ k # Len(u))
    BY <1>5, <1>7, <2>1 DEF Matching
  <2>3. sale.remaining - k \in Nat
    BY <1>2, <1>3
  <2>4. WantedNow' = IF Matching' THEN sale.remaining - k ELSE 0
    BY <1>5 DEF WantedNow
  <2> HIDE DEF k, u
  <2> QED BY <1>4, <2>2, <2>3, <2>4
<1>11. k \in 1 .. WantedNow
  BY <1>2, <1>3, <1>4
<1>12. u = OpenNow[OrderNow.side]
  BY <1>5
<1> HIDE DEF u, k
<1>13. Ledger!CloseUnits(k)
  BY <1>5, <1>7, <1>8, <1>9, <1>10, <1>11, <1>12 DEF Ledger!CloseUnits
<1> QED BY <1>11, <1>13

LEMMA LedgerStarts == ASSUME Init PROVE Ledger!LedgerInit
<1>1. queue = [s \in Side |-> <<>>] /\ lots = <<>> /\ sale = NoSale
  BY DEF Init
<1>2. OpenNow = [s \in Side |-> <<>>]
  <2>1. \A s \in Side : UnitsOpen(queue[s]) = <<>>
    BY <1>1, UnitsNone, EmptySeq
  <2> QED BY <2>1 DEF OpenNow
<1>3. ClosedNow = <<>>
  <2>1. LotRows(<<>>) = <<>>
    BY DEF LotRows
  <2> QED BY <1>1, <2>1, NoRow DEF ClosedNow, LotRows
<1>4. OrderNow \in Sold /\ WantedNow = 0
  BY <1>1 DEF OrderNow, Sold, NoSale, WantedNow, Matching
<1> QED BY <1>2, <1>3, <1>4 DEF Ledger!LedgerInit

LEMMA LedgerSteps ==
  ASSUME LotInv, DayInv, [Next]_vars
  PROVE  [Ledger!LedgerNext]_(Ledger!vars) /\ DayInv'
<1>1. ASSUME NEW t \in Opening, Open(t) PROVE Ledger!LedgerNext /\ DayInv'
  <2>1. DayInv'
    BY <1>1, NextDay DEF Open
  <2> QED BY <1>1, <2>1, LedgerOpens DEF Ledger!LedgerNext
<1>2. ASSUME NEW t \in Closing, Close(t) PROVE Ledger!LedgerNext /\ DayInv'
  <2>1. DayInv'
    BY <1>2, NextDay DEF Close
  <2> QED BY <1>2, <2>1, LedgerBegins DEF Ledger!LedgerNext
<1>3. CASE Match
  <2>1. DayInv'
    BY <1>3, MatchFacts DEF DayInv
  <2> QED BY <1>3, <2>1, LedgerCloses DEF Ledger!LedgerNext
<1>4. CASE UNCHANGED vars
  <2>1. /\ OpenNow' = OpenNow /\ ClosedNow' = ClosedNow
        /\ OrderNow' = OrderNow /\ WantedNow' = WantedNow
    BY <1>4 DEF vars, OpenNow, UnitsOpen, ClosedNow, OrderNow, WantedNow, Matching
  <2> QED BY <1>4, <2>1 DEF vars, DayInv, Ledger!vars
<1> QED BY <1>1, <1>2, <1>3, <1>4 DEF Next

\* The lots implement the first-in-first-out ledger of single units: none is
\* closed twice or out of turn, however trades are split into lots (l.24-140).
THEOREM LotsImplementLedger == Spec => ImplementsLedger
<1>1. Init => Ledger!LedgerInit /\ DayInv
  BY LedgerStarts DEF Init, DayInv
<1>2. LotInv /\ DayInv /\ [Next]_vars => [Ledger!LedgerNext]_(Ledger!vars) /\ DayInv'
  BY LedgerSteps
<1> QED BY <1>1, <1>2, LotInvariant, PTL DEF Spec, ImplementsLedger, Ledger!LedgerSpec
=============================================================================
