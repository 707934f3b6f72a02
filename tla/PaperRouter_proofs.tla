------------------------- MODULE PaperRouter_proofs -------------------------
(***************************************************************************)
(* What PaperRouter guarantees for every set of orders and requests, every *)
(* number of watching threads, of replacements and of crashes.             *)
(***************************************************************************)
EXTENDS PaperRouter, FiniteSetTheorems, TLAPS

-----------------------------------------------------------------------------
(* Sums of a function over a finite set.  The least set on which a claim   *)
(* fails stands for the induction.                                         *)

LEMMA LeastNatural ==
    ASSUME NEW T \in SUBSET Nat, T # {}
    PROVE  \E x \in T : \A y \in T : x <= y
<1> DEFINE R == {ss \in Nat \X Nat : ss[1] < ss[2]}
<1>1. R = OpToRel(<, Nat)  BY DEF OpToRel
<1>2. IsWellFoundedOn(R, Nat)  BY <1>1, NatLessThanWellFounded
<1> HIDE DEF R
<1>3. PICK x \in T : \A y \in T : ~(<<y, x>> \in R)  BY <1>2, WFMin
<1>4. \A y \in T : ~(y < x)  BY <1>3 DEF R
<1> QED  BY <1>4

\* of some finite sets, one is smallest
LEMMA SmallestSet ==
    ASSUME NEW F, F # {}, \A S \in F : IsFiniteSet(S)
    PROVE  \E S \in F : \A T \in F : Cardinality(S) <= Cardinality(T)
<1> DEFINE N == {Cardinality(S) : S \in F}
<1>1. N \in SUBSET Nat /\ N # {}  BY FS_CardinalityType
<1>2. PICK m \in N : \A n \in N : m <= n  BY <1>1, LeastNatural
<1> QED  BY <1>2

Chosen(s) == CHOOSE x \in s : TRUE
SumStep(f, g, s) == IF s = {} THEN 0 ELSE f[Chosen(s)] + g[s \ {Chosen(s)}]
IsSum(g, f, S) == g = [s \in SUBSET S |-> SumStep(f, g, s)]

LEMMA ChosenIn == \A s : s # {} => Chosen(s) \in s
BY DEF Chosen

LEMMA SumExists ==
    ASSUME NEW f, NEW S, IsFiniteSet(S)
    PROVE  \E g : IsSum(g, f, S)
<1> DEFINE Upto(n) == {s \in SUBSET S : Cardinality(s) <= n}
           Summed(n) == \E g : g = [s \in Upto(n) |-> SumStep(f, g, s)]
           Missing == {n \in Nat : ~Summed(n)}
<1>1. \A s \in SUBSET S : IsFiniteSet(s) /\ Cardinality(s) \in Nat
                          /\ Cardinality(s) <= Cardinality(S)
  BY FS_Subset, FS_CardinalityType
<1>2. \A s \in SUBSET S : s # {} => Cardinality(s \ {Chosen(s)}) = Cardinality(s) - 1
  BY <1>1, ChosenIn, FS_RemoveElement
<1>3. \A s \in SUBSET S : Cardinality(s) = 0 <=> s = {}
  BY <1>1, FS_EmptySet
<1>4. Summed(0)
  <2> DEFINE g == [s \in Upto(0) |-> 0]
  <2>1. \A s \in Upto(0) : s = {}  BY <1>1, <1>3
  <2>2. \A s \in Upto(0) : SumStep(f, g, s) = 0  BY <2>1 DEF SumStep
  <2>3. g = [s \in Upto(0) |-> SumStep(f, g, s)]  BY <2>2
  <2> QED  BY <2>3
<1>5. ASSUME NEW n \in Nat, n > 0, Summed(n - 1) PROVE Summed(n)
  <2>1. PICK g : g = [s \in Upto(n - 1) |-> SumStep(f, g, s)]  BY <1>5
  <2> DEFINE h == [s \in Upto(n) |-> SumStep(f, g, s)]
  <2>2. \A s \in Upto(n - 1) : s \in Upto(n)  BY <1>1
  <2>3. \A s \in Upto(n - 1) : h[s] = g[s]  BY <2>1, <2>2
  <2>4. \A s \in Upto(n) : s # {} => s \ {Chosen(s)} \in Upto(n - 1)
    BY <1>1, <1>2
  <2>5. \A s \in Upto(n) : SumStep(f, h, s) = SumStep(f, g, s)
    <3> TAKE s \in Upto(n)
    <3>1. CASE s = {}  BY <3>1 DEF SumStep
    <3>2. CASE s # {}
      <4>1. h[s \ {Chosen(s)}] = g[s \ {Chosen(s)}]  BY <3>2, <2>3, <2>4
      <4> HIDE DEF h
      <4> QED  BY <4>1 DEF SumStep
    <3> QED  BY <3>1, <3>2
  <2>6. h = [s \in Upto(n) |-> SumStep(f, h, s)]  BY <2>5
  <2> QED  BY <2>6
<1> HIDE DEF Summed
<1>6. Missing = {}
  <2> SUFFICES ASSUME Missing # {} PROVE FALSE  OBVIOUS
  <2>1. PICK m \in Missing : \A n \in Missing : m <= n  BY LeastNatural
  <2>2. m # 0 /\ m \in Nat  BY <1>4
  <2>3. Summed(m - 1)  BY <2>1, <2>2
  <2> QED  BY <1>5, <2>2, <2>3
<1>7. Summed(Cardinality(S))  BY <1>1, <1>6
<1>8. Upto(Cardinality(S)) = SUBSET S  BY <1>1
<1> QED  BY <1>7, <1>8 DEF Summed, IsSum

LEMMA SumIs ==
    ASSUME NEW f, NEW S, IsFiniteSet(S)
    PROVE  \E g : IsSum(g, f, S) /\ SumFunctionOnSet(f, S) = g[S]
<1> DEFINE h == CHOOSE g : IsSum(g, f, S)
<1>1. IsSum(h, f, S)  BY SumExists
<1>2. SumFunctionOnSet(f, S) = h[S]
  BY DEF SumFunctionOnSet, FoldFunctionOnSet, MapThenFoldSet, IsSum, SumStep, Chosen
<1> QED  BY <1>1, <1>2

\* the recursion sums a part of the set as it sums that part alone
LEMMA SumOfPart ==
    ASSUME NEW f, NEW S, NEW g, NEW T \in SUBSET S, IsFiniteSet(S), IsSum(g, f, S)
    PROVE  g[T] = SumFunctionOnSet(f, T)
<1> IsFiniteSet(T)  BY FS_Subset
<1>1. PICK h : IsSum(h, f, T) /\ SumFunctionOnSet(f, T) = h[T]  BY SumIs
<1> DEFINE Wrong == {s \in SUBSET T : g[s] # h[s]}
<1>2. Wrong = {}
  <2> SUFFICES ASSUME Wrong # {} PROVE FALSE  OBVIOUS
  <2>1. \A s \in Wrong : IsFiniteSet(s)  BY FS_Subset
  <2>2. PICK s \in Wrong : \A t \in Wrong : Cardinality(s) <= Cardinality(t)
    BY <2>1, SmallestSet
  <2>3. g[s] = SumStep(f, g, s) /\ h[s] = SumStep(f, h, s)  BY <1>1 DEF IsSum
  <2>4. s # {}  BY <2>3 DEF SumStep
  <2>5. Chosen(s) \in s /\ Cardinality(s \ {Chosen(s)}) = Cardinality(s) - 1
        /\ Cardinality(s) \in Nat
    BY <2>1, <2>4, ChosenIn, FS_RemoveElement, FS_CardinalityType
  <2>6. s \ {Chosen(s)} \notin Wrong  BY <2>2, <2>5
  <2>7. g[s \ {Chosen(s)}] = h[s \ {Chosen(s)}]  BY <2>6
  <2> QED  BY <2>3, <2>4, <2>7 DEF SumStep
<1> QED  BY <1>1, <1>2

LEMMA SumEmpty == \A f : SumFunctionOnSet(f, {}) = 0
<1> TAKE f
<1>1. PICK g : IsSum(g, f, {}) /\ SumFunctionOnSet(f, {}) = g[{}]  BY SumIs, FS_EmptySet
<1> QED  BY <1>1 DEF IsSum, SumStep

LEMMA SumChosen ==
    ASSUME NEW f, NEW S, IsFiniteSet(S), S # {}
    PROVE  SumFunctionOnSet(f, S) = f[Chosen(S)] + SumFunctionOnSet(f, S \ {Chosen(S)})
<1>1. PICK g : IsSum(g, f, S) /\ SumFunctionOnSet(f, S) = g[S]  BY SumIs
<1>2. g[S] = f[Chosen(S)] + g[S \ {Chosen(S)}]  BY <1>1 DEF IsSum, SumStep
<1>3. g[S \ {Chosen(S)}] = SumFunctionOnSet(f, S \ {Chosen(S)})
  <2>1. PICK T \in SUBSET S : T = S \ {Chosen(S)}  OBVIOUS
  <2>2. g[T] = SumFunctionOnSet(f, T)  BY <1>1, <2>1, SumOfPart, ZenonT(40)
  <2> QED  BY <2>1, <2>2
<1> QED  BY <1>1, <1>2, <1>3

LEMMA SumInt ==
    ASSUME NEW f, NEW S, IsFiniteSet(S), \A x \in S : f[x] \in Int
    PROVE  SumFunctionOnSet(f, S) \in Int
<1> DEFINE Wrong == {s \in SUBSET S : SumFunctionOnSet(f, s) \notin Int}
<1>1. Wrong = {}
  <2> SUFFICES ASSUME Wrong # {} PROVE FALSE  OBVIOUS
  <2>1. \A s \in Wrong : IsFiniteSet(s)  BY FS_Subset
  <2>2. PICK s \in Wrong : \A t \in Wrong : Cardinality(s) <= Cardinality(t)
    BY <2>1, SmallestSet
  <2>3. s # {}  BY SumEmpty
  <2>4. Chosen(s) \in s /\ Cardinality(s \ {Chosen(s)}) = Cardinality(s) - 1
        /\ Cardinality(s) \in Nat
    BY <2>1, <2>3, ChosenIn, FS_RemoveElement, FS_CardinalityType
  <2>5. s \ {Chosen(s)} \notin Wrong  BY <2>2, <2>4
  <2>6. SumFunctionOnSet(f, s) = f[Chosen(s)] + SumFunctionOnSet(f, s \ {Chosen(s)})
    BY <2>1, <2>3, SumChosen
  <2> QED  BY <2>4, <2>5, <2>6
<1> QED  BY <1>1

LEMMA SumRemove ==
    ASSUME NEW f, NEW S, IsFiniteSet(S), \A x \in S : f[x] \in Int, NEW x \in S
    PROVE  SumFunctionOnSet(f, S) = f[x] + SumFunctionOnSet(f, S \ {x})
<1> DEFINE Total(s) == SumFunctionOnSet(f, s)
           Wrong == {s \in SUBSET S : \E y \in s : Total(s) # f[y] + Total(s \ {y})}
<1>1. \A s \in SUBSET S : IsFiniteSet(s) /\ Total(s) \in Int  BY FS_Subset, SumInt
<1>2. \A s \in SUBSET S : s # {} => Chosen(s) \in s /\ Total(s) = f[Chosen(s)] + Total(s \ {Chosen(s)})
  BY <1>1, ChosenIn, SumChosen
<1> HIDE DEF Total
<1>3. Wrong = {}
  <2> SUFFICES ASSUME Wrong # {} PROVE FALSE  OBVIOUS
  <2>1. \A s \in Wrong : IsFiniteSet(s)  BY <1>1
  <2>2. PICK s \in Wrong : \A t \in Wrong : Cardinality(s) <= Cardinality(t)
    BY <2>1, SmallestSet
  <2>3. PICK y \in s : Total(s) # f[y] + Total(s \ {y})  OBVIOUS
  <2> DEFINE c == Chosen(s)
  <2>4. c \in s /\ Total(s) = f[c] + Total(s \ {c})  BY <1>2
  <2>5. y # c  BY <2>3, <2>4
  <2>6. \A z \in s : Cardinality(s \ {z}) = Cardinality(s) - 1 /\ Cardinality(s) \in Nat
    BY <2>1, FS_RemoveElement, FS_CardinalityType
  <2>7. ASSUME NEW z \in s PROVE s \ {z} \notin Wrong
    <3> HIDE DEF Wrong
    <3> QED  BY <2>2, <2>6
  <2>8. Total(s \ {c}) = f[y] + Total((s \ {c}) \ {y})  BY <2>4, <2>5, <2>7
  <2>9. Total(s \ {y}) = f[c] + Total((s \ {y}) \ {c})  BY <2>4, <2>5, <2>7
  <2>10. (s \ {y}) \ {c} = (s \ {c}) \ {y}  OBVIOUS
  <2>11. f[y] \in Int /\ f[c] \in Int /\ Total((s \ {c}) \ {y}) \in Int  BY <1>1, <2>4
  <2> HIDE DEF c
  <2>12. f[c] + (f[y] + Total((s \ {c}) \ {y})) = f[y] + (f[c] + Total((s \ {c}) \ {y}))
    BY <2>11
  <2> QED  BY <2>3, <2>4, <2>8, <2>9, <2>10, <2>12
<1>4. Total(S) = f[x] + Total(S \ {x})  BY <1>3
<1> QED  BY <1>4 DEF Total

LEMMA SumSame ==
    ASSUME NEW f, NEW h, NEW S, IsFiniteSet(S), \A x \in S : f[x] = h[x]
    PROVE  SumFunctionOnSet(f, S) = SumFunctionOnSet(h, S)
<1> DEFINE Wrong == {s \in SUBSET S : SumFunctionOnSet(f, s) # SumFunctionOnSet(h, s)}
<1>1. Wrong = {}
  <2> SUFFICES ASSUME Wrong # {} PROVE FALSE  OBVIOUS
  <2>1. \A s \in Wrong : IsFiniteSet(s)  BY FS_Subset
  <2>2. PICK s \in Wrong : \A t \in Wrong : Cardinality(s) <= Cardinality(t)
    BY <2>1, SmallestSet
  <2>3. s # {}  BY SumEmpty
  <2>4. Chosen(s) \in s /\ Cardinality(s \ {Chosen(s)}) = Cardinality(s) - 1
        /\ Cardinality(s) \in Nat
    BY <2>1, <2>3, ChosenIn, FS_RemoveElement, FS_CardinalityType
  <2>5. s \ {Chosen(s)} \notin Wrong  BY <2>2, <2>4
  <2>6. /\ SumFunctionOnSet(f, s) = f[Chosen(s)] + SumFunctionOnSet(f, s \ {Chosen(s)})
        /\ SumFunctionOnSet(h, s) = h[Chosen(s)] + SumFunctionOnSet(h, s \ {Chosen(s)})
    BY <2>1, <2>3, SumChosen
  <2> QED  BY <2>4, <2>5, <2>6
<1> QED  BY <1>1

LEMMA SumFunctionIs == \A f : SumFunction(f) = SumFunctionOnSet(f, DOMAIN f)
BY DEF SumFunction

\* a function that changes at one point changes its sum by that
LEMMA SumChange ==
    ASSUME NEW S, NEW x \in S, NEW f \in [S -> Int], NEW h \in [S -> Int],
           IsFiniteSet(S), \A y \in S : y # x => h[y] = f[y]
    PROVE  SumFunction(h) = SumFunction(f) - f[x] + h[x]
<1>1. SumFunction(f) = SumFunctionOnSet(f, S) /\ SumFunction(h) = SumFunctionOnSet(h, S)
  BY SumFunctionIs
<1>2. /\ SumFunctionOnSet(f, S) = f[x] + SumFunctionOnSet(f, S \ {x})
      /\ SumFunctionOnSet(h, S) = h[x] + SumFunctionOnSet(h, S \ {x})
  BY SumRemove
<1>3. IsFiniteSet(S \ {x})  BY FS_RemoveElement
<1>4. SumFunctionOnSet(f, S \ {x}) = SumFunctionOnSet(h, S \ {x})  BY <1>3, SumSame
<1>5. SumFunctionOnSet(f, S \ {x}) \in Int  BY <1>3, SumInt
<1> QED  BY <1>1, <1>2, <1>4, <1>5

\* a sequence that gets one more element
LEMMA SumExtend ==
    ASSUME NEW n \in Nat, NEW f, NEW h, f \in [1..n -> Int], h \in [1..(n + 1) -> Int],
           \A i \in 1..n : h[i] = f[i]
    PROVE  SumFunction(h) = SumFunction(f) + h[n + 1]
<1> DEFINE S == 1..n
           T == 1..(n + 1)
           x == n + 1
<1>1. SumFunction(f) = SumFunctionOnSet(f, S) /\ SumFunction(h) = SumFunctionOnSet(h, T)
  BY SumFunctionIs
<1>2. IsFiniteSet(S) /\ IsFiniteSet(T)  BY FS_Interval
<1>3. x \in T /\ (\A i \in T : h[i] \in Int) /\ (\A i \in S : f[i] \in Int /\ h[i] = f[i])
  OBVIOUS
<1>4. T \ {x} = S  OBVIOUS
<1> HIDE DEF S, T, x
<1>5. SumFunctionOnSet(h, T) = h[x] + SumFunctionOnSet(h, T \ {x})
  BY <1>2, <1>3, SumRemove
<1>6. SumFunctionOnSet(h, S) = SumFunctionOnSet(f, S)  BY <1>2, <1>3, SumSame
<1>7. SumFunctionOnSet(f, S) \in Int /\ h[x] \in Int  BY <1>2, <1>3, SumInt
<1>8. SumFunctionOnSet(h, T \ {x}) = SumFunctionOnSet(h, S)  BY <1>4, Zenon
<1>9. SumFunction(h) = h[x] + SumFunctionOnSet(f, S)  BY <1>1, <1>5, <1>6, <1>8
<1>10. SumFunction(h) = SumFunction(f) + h[x]  BY <1>1, <1>7, <1>9
<1> QED  BY <1>10 DEF x

LEMMA SumZero ==
    ASSUME NEW S, NEW f, IsFiniteSet(S), \A x \in S : f[x] = 0
    PROVE  SumFunctionOnSet(f, S) = 0
<1> DEFINE Wrong == {s \in SUBSET S : SumFunctionOnSet(f, s) # 0}
<1>1. Wrong = {}
  <2> SUFFICES ASSUME Wrong # {} PROVE FALSE  OBVIOUS
  <2>1. \A s \in Wrong : IsFiniteSet(s)  BY FS_Subset
  <2>2. PICK s \in Wrong : \A t \in Wrong : Cardinality(s) <= Cardinality(t)
    BY <2>1, SmallestSet
  <2>3. s # {}  BY SumEmpty
  <2>4. Chosen(s) \in s /\ Cardinality(s \ {Chosen(s)}) = Cardinality(s) - 1
        /\ Cardinality(s) \in Nat
    BY <2>1, <2>3, ChosenIn, FS_RemoveElement, FS_CardinalityType
  <2>5. s \ {Chosen(s)} \notin Wrong  BY <2>2, <2>4
  <2>6. SumFunctionOnSet(f, s) = f[Chosen(s)] + SumFunctionOnSet(f, s \ {Chosen(s)})
    BY <2>1, <2>3, SumChosen
  <2> QED  BY <2>4, <2>5, <2>6
<1> QED  BY <1>1

-----------------------------------------------------------------------------
(* A book that is sound, and what its parts are made of.  The same is said *)
(* of the book in memory and of the one on disk.                           *)

\* an open order
Detail == [qty : Nat \ {0}, left : Nat \ {0}, filled : Nat, price : Nat, acked : BOOLEAN]
Report == [order : Order, kind : Kind, qty : Nat]
Book == [open : [Order -> Detail \union {NoOrder}], cash : Nat, held : [Symbol -> Nat],
         owned : [Symbol -> Int], reports : Seq(Report)]

BookType(b) ==
    /\ b \in Book
    /\ \A o \in Open(b) : b.open[o].filled + b.open[o].left = b.open[o].qty

AskedType == asked \in [Order -> Request]

\* ReservationsCover, PositionsMatchFills and EndsOnce of any book
Covers(b) ==
    /\ b.cash >= SumFunction(CashOpen(b))
    /\ \A s \in Symbol : b.held[s] >= SumFunction(SaleOpen(b, s))
Exact(b) ==
    /\ b.cash = SumFunction(CashOpen(b))
    /\ \A s \in Symbol : b.held[s] = SumFunction(SaleOpen(b, s))
Accounts(b) ==
    /\ \A s \in Symbol : b.owned[s] = SumFunction(Bought(b, s))
    /\ \A o \in Open(b) : b.open[o].filled = Fills(b, o)
OneEnd(b, o) ==
    /\ \A i \in Ends(b, o), j \in ReportsOf(b, o) : j <= i
    /\ Ends(b, o) # {} => o \notin Open(b)
    /\ ReportsOf(b, o) # {} /\ Ends(b, o) = {} => o \in Open(b)

Sound(b) == BookType(b) /\ Covers(b) /\ Accounts(b) /\ \A o \in Order : OneEnd(b, o)

LEMMA AskedFacts ==
    ASSUME AskedType, NEW o \in Order
    PROVE  /\ asked[o] \in Request /\ asked[o].symbol \in Symbol
           /\ asked[o].side \in {"buy", "sell"} /\ asked[o].type \in {"market", "limit"}
           /\ asked[o].tif \in {"gtc", "ioc", "fok", "day"}
           /\ asked[o].qty \in Nat \ {0} /\ asked[o].price \in Nat
<1>1. asked[o] \in Request  BY DEF AskedType
<1>2. Price \union {0} \subseteq Nat  BY PriceAssumption
<1> QED  BY <1>1, <1>2, RequestAssumption DEF Symbol

USE OrderAssumption

LEMMA OpenIs ==
    ASSUME NEW b \in Book, NEW o \in Order
    PROVE  o \in Open(b) <=> b.open[o] \in Detail
<1>1. NoOrder \notin Detail  BY DEF NoOrder, Detail
<1> QED  BY <1>1 DEF Book, Open

\* what an order reserves, by its details d
Cost(o, d) == IF d # NoOrder /\ asked[o].side = "buy" THEN d.left * d.price ELSE 0
Stock(o, d, s) ==
    IF d # NoOrder /\ asked[o].side = "sell" /\ asked[o].symbol = s THEN d.left ELSE 0
Gain(r, s) ==
    IF asked[r.order].symbol # s THEN 0
    ELSE IF asked[r.order].side = "buy" THEN r.qty ELSE -r.qty

LEMMA CashIs ==
    ASSUME NEW b \in Book
    PROVE  /\ CashOpen(b) \in [Order -> Nat]
           /\ \A o \in Order : CashOpen(b)[o] = Cost(o, b.open[o])
<1>1. ASSUME NEW o \in Order PROVE CashOpen(b)[o] = Cost(o, b.open[o])
  BY DEF CashOpen, Cost, Open
<1>2. ASSUME NEW o \in Order PROVE Cost(o, b.open[o]) \in Nat
  <2>1. CASE b.open[o] # NoOrder
    <3>1. b.open[o] \in Detail  BY <2>1 DEF Book
    <3>2. b.open[o].left \in Nat /\ b.open[o].price \in Nat  BY <3>1 DEF Detail
    <3>3. b.open[o].left * b.open[o].price \in Nat  BY <3>2
    <3> QED  BY <3>3 DEF Cost
  <2> QED  BY <2>1 DEF Cost
<1> QED  BY <1>1, <1>2 DEF CashOpen

LEMMA SaleIs ==
    ASSUME NEW b \in Book, NEW s \in Symbol
    PROVE  /\ SaleOpen(b, s) \in [Order -> Nat]
           /\ \A o \in Order : SaleOpen(b, s)[o] = Stock(o, b.open[o], s)
<1>1. ASSUME NEW o \in Order PROVE SaleOpen(b, s)[o] = Stock(o, b.open[o], s)
  BY DEF SaleOpen, Stock, Open
<1>2. ASSUME NEW o \in Order PROVE Stock(o, b.open[o], s) \in Nat
  <2>1. CASE b.open[o] # NoOrder
    <3>1. b.open[o] \in Detail  BY <2>1 DEF Book
    <3> QED  BY <3>1 DEF Stock, Detail
  <2> QED  BY <2>1 DEF Stock
<1> QED  BY <1>1, <1>2 DEF SaleOpen

LEMMA SumsInt ==
    ASSUME NEW b \in Book
    PROVE  /\ SumFunction(CashOpen(b)) \in Int
           /\ \A s \in Symbol : SumFunction(SaleOpen(b, s)) \in Int
<1>1. DOMAIN CashOpen(b) = Order /\ \A s \in Symbol : DOMAIN SaleOpen(b, s) = Order
  BY DEF CashOpen, SaleOpen
<1>2. \A o \in Order : CashOpen(b)[o] \in Int  BY CashIs
<1>3. \A s \in Symbol, o \in Order : SaleOpen(b, s)[o] \in Int  BY SaleIs
<1> QED  BY <1>1, <1>2, <1>3, SumInt, SumFunctionIs

\* what is reserved when the details of one order change
LEMMA CoverChange ==
    ASSUME NEW b \in Book, NEW c \in Book, NEW o \in Order,
           \A p \in Order : p # o => c.open[p] = b.open[p]
    PROVE  /\ SumFunction(CashOpen(c)) =
                SumFunction(CashOpen(b)) - Cost(o, b.open[o]) + Cost(o, c.open[o])
           /\ \A s \in Symbol :
                SumFunction(SaleOpen(c, s)) =
                  SumFunction(SaleOpen(b, s)) - Stock(o, b.open[o], s) + Stock(o, c.open[o], s)
<1>1. SumFunction(CashOpen(c)) =
        SumFunction(CashOpen(b)) - Cost(o, b.open[o]) + Cost(o, c.open[o])
  <2>1. CashOpen(b) \in [Order -> Int] /\ CashOpen(c) \in [Order -> Int]  BY CashIs
  <2>2. \A p \in Order : p # o => CashOpen(c)[p] = CashOpen(b)[p]  BY CashIs
  <2>3. CashOpen(b)[o] = Cost(o, b.open[o]) /\ CashOpen(c)[o] = Cost(o, c.open[o])  BY CashIs
  <2> QED  BY <2>1, <2>2, <2>3, SumChange
<1>2. ASSUME NEW s \in Symbol
      PROVE  SumFunction(SaleOpen(c, s)) =
               SumFunction(SaleOpen(b, s)) - Stock(o, b.open[o], s) + Stock(o, c.open[o], s)
  <2>1. SaleOpen(b, s) \in [Order -> Int] /\ SaleOpen(c, s) \in [Order -> Int]  BY SaleIs
  <2>2. \A p \in Order : p # o => SaleOpen(c, s)[p] = SaleOpen(b, s)[p]  BY SaleIs
  <2>3. SaleOpen(b, s)[o] = Stock(o, b.open[o], s) /\ SaleOpen(c, s)[o] = Stock(o, c.open[o], s)
    BY SaleIs
  <2> QED  BY <2>1, <2>2, <2>3, SumChange
<1> QED  BY <1>1, <1>2

\* what the reports say when one is appended
LEMMA ReportAdded ==
    ASSUME AskedType, NEW b \in Book, NEW c \in Book, NEW r \in Report,
           c.reports = Append(b.reports, r)
    PROVE  /\ \A s \in Symbol :
                SumFunction(Bought(c, s)) = SumFunction(Bought(b, s)) + Gain(r, s)
           /\ \A o \in Order :
                /\ Fills(c, o) = Fills(b, o) + (IF o = r.order THEN r.qty ELSE 0)
                /\ ReportsOf(c, o) = ReportsOf(b, o)
                     \union (IF o = r.order THEN {Len(c.reports)} ELSE {})
                /\ Ends(c, o) = Ends(b, o)
                     \union (IF o = r.order /\ r.kind \in FinalKind THEN {Len(c.reports)} ELSE {})
<1> DEFINE n == Len(b.reports)
<1>1. /\ n \in Nat /\ Len(c.reports) = n + 1
      /\ DOMAIN b.reports = 1..n /\ DOMAIN c.reports = 1..(n + 1)
      /\ 1..(n + 1) = (1..n) \union {n + 1} /\ n + 1 \notin 1..n
      /\ c.reports[n + 1] = r /\ \A i \in 1..n : c.reports[i] = b.reports[i]
      /\ \A i \in 1..n : b.reports[i] \in Report
  BY DEF Book
<1> HIDE DEF n
<1>2. IsFiniteSet(1..n)  BY <1>1, FS_Interval
<1>3. ASSUME NEW s \in Symbol
      PROVE  SumFunction(Bought(c, s)) = SumFunction(Bought(b, s)) + Gain(r, s)
  <2>1. \A q \in Report : Gain(q, s) \in Int  BY AskedFacts DEF Gain, Report
  <2>2. /\ Bought(b, s) = [i \in 1..n |-> Gain(b.reports[i], s)]
        /\ Bought(c, s) = [i \in 1..(n + 1) |-> Gain(c.reports[i], s)]
    BY <1>1 DEF Bought, Gain
  <2>3. /\ Bought(b, s) \in [1..n -> Int]
        /\ Bought(c, s) \in [1..(n + 1) -> Int]
    BY <1>1, <2>1, <2>2
  <2>4. \A i \in 1..n : Bought(c, s)[i] = Bought(b, s)[i]  BY <1>1, <2>2
  <2>5. Bought(c, s)[n + 1] = Gain(r, s)  BY <1>1, <2>2
  <2>6. PICK f, h : f = Bought(b, s) /\ h = Bought(c, s)  OBVIOUS
  <2>7. SumFunction(h) = SumFunction(f) + h[n + 1]
    BY <1>1, <2>3, <2>4, <2>6, SumExtend
  <2> QED  BY <2>5, <2>6, <2>7
<1>4. ASSUME NEW o \in Order
      PROVE  /\ ReportsOf(c, o) = ReportsOf(b, o)
                  \union (IF o = r.order THEN {n + 1} ELSE {})
             /\ Ends(c, o) = Ends(b, o)
                  \union (IF o = r.order /\ r.kind \in FinalKind THEN {n + 1} ELSE {})
  BY <1>1 DEF ReportsOf, Ends
<1>5. ASSUME NEW o \in Order
      PROVE  Fills(c, o) = Fills(b, o) + (IF o = r.order THEN r.qty ELSE 0)
  <2> DEFINE f == [i \in 1..n |-> b.reports[i].qty]
             g == [i \in 1..(n + 1) |-> c.reports[i].qty]
             S == ReportsOf(b, o)
  <2>1. Fills(b, o) = SumFunctionOnSet(f, S) /\ Fills(c, o) = SumFunctionOnSet(g, ReportsOf(c, o))
    BY <1>1 DEF Fills
  <2>2. S \in SUBSET (1..n)  BY <1>1 DEF ReportsOf
  <2>3. IsFiniteSet(S) /\ n + 1 \notin S  BY <1>1, <1>2, <2>2, FS_Subset
  <2>4. \A i \in S : f[i] = g[i] /\ f[i] \in Int  BY <1>1, <2>2 DEF Report
  <2>5. g[n + 1] = r.qty /\ r.qty \in Int  BY <1>1 DEF Report
  <2> HIDE DEF f, g, S
  <2>6. SumFunctionOnSet(g, S) = SumFunctionOnSet(f, S) /\ SumFunctionOnSet(f, S) \in Int
    BY <2>3, <2>4, SumSame, SumInt
  <2>7. CASE o = r.order
    <3>1. ReportsOf(c, o) = S \union {n + 1}  BY <1>4, <2>7 DEF S
    <3> DEFINE T == S \union {n + 1}
    <3>2. IsFiniteSet(T)  BY <2>3, FS_AddElement
    <3>3. n + 1 \in T /\ \A i \in T : g[i] \in Int  BY <2>4, <2>5
    <3>4. T \ {n + 1} = S  BY <2>3
    <3> HIDE DEF T
    <3>5. SumFunctionOnSet(g, T) = g[n + 1] + SumFunctionOnSet(g, T \ {n + 1})
      BY <3>2, <3>3, SumRemove
    <3>6. SumFunctionOnSet(g, T) = r.qty + SumFunctionOnSet(f, S)  BY <2>5, <2>6, <3>4, <3>5
    <3>7. Fills(c, o) = SumFunctionOnSet(g, T)  BY <2>1, <3>1 DEF T
    <3> QED  BY <2>1, <2>5, <2>6, <2>7, <3>6, <3>7
  <2>8. CASE o # r.order
    <3>1. ReportsOf(c, o) = S  BY <1>4, <2>8 DEF S
    <3> QED  BY <2>1, <2>6, <2>8, <3>1
  <2> QED  BY <2>7, <2>8
<1> QED  BY <1>1, <1>3, <1>4, <1>5

LEMMA ReportsSame ==
    ASSUME NEW b, NEW c, c.reports = b.reports
    PROVE  /\ \A s : Bought(c, s) = Bought(b, s)
           /\ \A o : Fills(c, o) = Fills(b, o) /\ ReportsOf(c, o) = ReportsOf(b, o)
                     /\ Ends(c, o) = Ends(b, o)
BY DEF Bought, Fills, ReportsOf, Ends

-----------------------------------------------------------------------------
(* What a change to one order leaves of a sound book.                      *)

LEMMA SumAtLeast ==
    ASSUME NEW S, NEW f, IsFiniteSet(S), f \in [S -> Nat]
    PROVE  SumFunction(f) \in Nat /\ \A x \in S : f[x] <= SumFunction(f)
<1> DEFINE Wrong == {s \in SUBSET S : SumFunctionOnSet(f, s) \notin Nat}
<1>1. Wrong = {}
  <2> SUFFICES ASSUME Wrong # {} PROVE FALSE  OBVIOUS
  <2>1. \A s \in Wrong : IsFiniteSet(s)  BY FS_Subset
  <2>2. PICK s \in Wrong : \A t \in Wrong : Cardinality(s) <= Cardinality(t)
    BY <2>1, SmallestSet
  <2>3. s # {}  BY SumEmpty
  <2>4. Chosen(s) \in s /\ Cardinality(s \ {Chosen(s)}) = Cardinality(s) - 1
        /\ Cardinality(s) \in Nat
    BY <2>1, <2>3, ChosenIn, FS_RemoveElement, FS_CardinalityType
  <2>5. s \ {Chosen(s)} \notin Wrong  BY <2>2, <2>4
  <2>6. SumFunctionOnSet(f, s) = f[Chosen(s)] + SumFunctionOnSet(f, s \ {Chosen(s)})
    BY <2>1, <2>3, SumChosen
  <2> QED  BY <2>4, <2>5, <2>6
<1>2. SumFunction(f) = SumFunctionOnSet(f, S)  BY SumFunctionIs
<1>3. ASSUME NEW x \in S PROVE f[x] <= SumFunctionOnSet(f, S)
  <2>1. SumFunctionOnSet(f, S) = f[x] + SumFunctionOnSet(f, S \ {x})  BY SumRemove
  <2>2. SumFunctionOnSet(f, S \ {x}) \in Nat  BY <1>1
  <2> QED  BY <2>1, <2>2
<1> QED  BY <1>1, <1>2, <1>3

\* a covered order can give back what it holds
LEMMA CoverHeld ==
    ASSUME NEW b \in Book, NEW o \in Order, Covers(b)
    PROVE  /\ b.cash >= Cost(o, b.open[o]) /\ Cost(o, b.open[o]) \in Nat
           /\ \A s \in Symbol : /\ b.held[s] >= Stock(o, b.open[o], s)
                                /\ Stock(o, b.open[o], s) \in Nat
<1>1. /\ SumFunction(CashOpen(b)) \in Nat /\ CashOpen(b)[o] = Cost(o, b.open[o])
      /\ CashOpen(b)[o] <= SumFunction(CashOpen(b)) /\ CashOpen(b)[o] \in Nat
  BY CashIs, SumAtLeast
<1>2. \A s \in Symbol : /\ SumFunction(SaleOpen(b, s)) \in Nat
                        /\ SaleOpen(b, s)[o] = Stock(o, b.open[o], s)
                        /\ SaleOpen(b, s)[o] <= SumFunction(SaleOpen(b, s))
                        /\ SaleOpen(b, s)[o] \in Nat
  <2> TAKE s \in Symbol
  <2>1. PICK f : f = SaleOpen(b, s)  OBVIOUS
  <2>2. f \in [Order -> Nat] /\ f[o] = Stock(o, b.open[o], s)  BY <2>1, SaleIs
  <2>3. SumFunction(f) \in Nat /\ f[o] <= SumFunction(f)  BY <2>2, SumAtLeast
  <2> QED  BY <2>1, <2>2, <2>3
<1>3. b.cash \in Nat /\ \A s \in Symbol : b.held[s] \in Nat  BY DEF Book
<1> QED  BY <1>1, <1>2, <1>3 DEF Covers

\* reserves that move with the one order that changes cover as before
LEMMA CoverStep ==
    ASSUME NEW b \in Book, NEW c \in Book, NEW o \in Order, Covers(b),
           \A p \in Order : p # o => c.open[p] = b.open[p],
           c.cash >= b.cash - Cost(o, b.open[o]) + Cost(o, c.open[o]),
           \A s \in Symbol :
               c.held[s] >= b.held[s] - Stock(o, b.open[o], s) + Stock(o, c.open[o], s)
    PROVE  Covers(c)
<1>1. /\ b.cash \in Nat /\ c.cash \in Nat
      /\ \A s \in Symbol : b.held[s] \in Nat /\ c.held[s] \in Nat
  BY DEF Book
<1>2. /\ Cost(o, b.open[o]) \in Nat /\ Cost(o, c.open[o]) \in Nat
      /\ \A s \in Symbol : Stock(o, b.open[o], s) \in Nat /\ Stock(o, c.open[o], s) \in Nat
  BY CashIs, SaleIs
<1>3. /\ SumFunction(CashOpen(b)) \in Int /\ \A s \in Symbol : SumFunction(SaleOpen(b, s)) \in Int
  BY SumsInt
<1>4. c.cash >= SumFunction(CashOpen(c))
  <2>1. SumFunction(CashOpen(c)) =
          SumFunction(CashOpen(b)) - Cost(o, b.open[o]) + Cost(o, c.open[o])
    BY CoverChange
  <2> QED  BY <1>1, <1>2, <1>3, <2>1 DEF Covers
<1>5. ASSUME NEW s \in Symbol PROVE c.held[s] >= SumFunction(SaleOpen(c, s))
  <2>1. SumFunction(SaleOpen(c, s)) =
          SumFunction(SaleOpen(b, s)) - Stock(o, b.open[o], s) + Stock(o, c.open[o], s)
    BY CoverChange
  <2> QED  BY <1>1, <1>2, <1>3, <2>1 DEF Covers
<1> QED  BY <1>4, <1>5 DEF Covers

LEMMA ExactStep ==
    ASSUME NEW b \in Book, NEW c \in Book, NEW o \in Order, Exact(b),
           \A p \in Order : p # o => c.open[p] = b.open[p],
           c.cash = b.cash - Cost(o, b.open[o]) + Cost(o, c.open[o]),
           \A s \in Symbol :
               c.held[s] = b.held[s] - Stock(o, b.open[o], s) + Stock(o, c.open[o], s)
    PROVE  Exact(c)
<1>1. SumFunction(CashOpen(c)) =
        SumFunction(CashOpen(b)) - Cost(o, b.open[o]) + Cost(o, c.open[o])
  BY CoverChange
<1>2. \A s \in Symbol :
        SumFunction(SaleOpen(c, s)) =
          SumFunction(SaleOpen(b, s)) - Stock(o, b.open[o], s) + Stock(o, c.open[o], s)
  BY CoverChange
<1> QED  BY <1>1, <1>2 DEF Exact

\* a report on an order that was open, and still is unless the report ends it
LEMMA EndStep ==
    ASSUME AskedType, NEW b \in Book, NEW c \in Book, NEW r \in Report,
           \A p \in Order : OneEnd(b, p), r.order \in Open(b),
           \A p \in Order : p # r.order => c.open[p] = b.open[p],
           r.kind \in FinalKind <=> r.order \notin Open(c),
           c.reports = Append(b.reports, r)
    PROVE  \A p \in Order : OneEnd(c, p)
<1> TAKE p \in Order
<1>1. /\ ReportsOf(c, p) = ReportsOf(b, p)
           \union (IF p = r.order THEN {Len(c.reports)} ELSE {})
      /\ Ends(c, p) = Ends(b, p)
           \union (IF p = r.order /\ r.kind \in FinalKind THEN {Len(c.reports)} ELSE {})
  BY ReportAdded
<1>2. \A i \in ReportsOf(b, p) : i \in Nat /\ i < Len(c.reports) /\ Len(c.reports) \in Nat
  BY DEF ReportsOf, Book
<1>3. Len(c.reports) \in Nat  BY DEF Book
<1>4. Ends(b, p) \subseteq ReportsOf(b, p)  BY DEF Ends
<1>5. CASE p = r.order
  <2>1. Ends(b, p) = {}  BY <1>5 DEF OneEnd
  <2>2. \A i : i \in Ends(c, p) <=> i = Len(c.reports) /\ r.kind \in FinalKind
    BY <1>1, <1>5, <2>1
  <2>3. \A j \in ReportsOf(c, p) : j <= Len(c.reports)  BY <1>1, <1>2, <1>3
  <2>4. \A i \in Ends(c, p), j \in ReportsOf(c, p) : j <= i  BY <2>2, <2>3
  <2>5. Ends(c, p) # {} => p \notin Open(c)  BY <1>5, <2>2
  <2>6. Ends(c, p) = {} => p \in Open(c)
    <3>1. SUFFICES ASSUME Ends(c, p) = {} PROVE p \in Open(c)  OBVIOUS
    <3>2. Len(c.reports) \notin Ends(c, p)  BY <3>1
    <3> QED  BY <1>5, <2>2, <3>2
  <2> QED  BY <2>4, <2>5, <2>6 DEF OneEnd
<1>6. CASE p # r.order
  <2>1. ReportsOf(c, p) = ReportsOf(b, p) /\ Ends(c, p) = Ends(b, p)  BY <1>1, <1>6
  <2>2. p \in Open(c) <=> p \in Open(b)  BY <1>6 DEF Open
  <2> QED  BY <2>1, <2>2 DEF OneEnd
<1> QED  BY <1>5, <1>6

LEMMA AccountStep ==
    ASSUME AskedType, NEW b \in Book, NEW c \in Book, NEW r \in Report, Accounts(b),
           \A p \in Order : p # r.order => c.open[p] = b.open[p],
           c.reports = Append(b.reports, r),
           \A s \in Symbol : c.owned[s] = b.owned[s] + Gain(r, s),
           r.order \in Open(c) =>
               /\ r.order \in Open(b)
               /\ c.open[r.order].filled = b.open[r.order].filled + r.qty
    PROVE  Accounts(c)
<1>1. ASSUME NEW s \in Symbol PROVE c.owned[s] = SumFunction(Bought(c, s))
  <2>1. SumFunction(Bought(c, s)) = SumFunction(Bought(b, s)) + Gain(r, s)  BY ReportAdded
  <2> QED  BY <2>1 DEF Accounts
<1>2. ASSUME NEW o \in Open(c) PROVE c.open[o].filled = Fills(c, o)
  <2>1. o \in Order  BY DEF Open
  <2>2. Fills(c, o) = Fills(b, o) + (IF o = r.order THEN r.qty ELSE 0)  BY <2>1, ReportAdded
  <2>3. CASE o = r.order  BY <1>2, <2>2, <2>3 DEF Accounts
  <2>4. CASE o # r.order
    <3>1. o \in Open(b) /\ c.open[o] = b.open[o]  BY <1>2, <2>1, <2>4 DEF Open
    <3>2. b.open[o].filled = Fills(b, o) /\ b.open[o].filled \in Nat
      BY <2>1, <3>1, OpenIs DEF Accounts, Detail
    <3> QED  BY <2>2, <2>4, <3>1, <3>2
  <2> QED  BY <2>3, <2>4
<1> QED  BY <1>1, <1>2 DEF Accounts

-----------------------------------------------------------------------------
(* The operators of the broker keep a book sound.                          *)

LEMMA Products ==
    /\ \A a, b \in Nat : a * b \in Nat
    /\ \A a, b, c \in Nat : a <= b => a * c <= b * c /\ (b - a) * c = b * c - a * c
    /\ \A a, b, c \in Nat : (a + b) * c = a * c + b * c
OBVIOUS

\* nothing is cut off where a covered order gives back a part of what is left
LEMMA ReleaseIs ==
    ASSUME AskedType, NEW b \in Book, NEW o \in Order, NEW n \in Nat,
           Covers(b), b.open[o] \in Detail, n <= b.open[o].left
    PROVE  LET c == Release(b, o, n)
           IN  /\ c \in Book
               /\ c.open = b.open /\ c.owned = b.owned /\ c.reports = b.reports
               /\ asked[o].side = "buy" =>
                    /\ c.cash = b.cash - n * b.open[o].price /\ c.held = b.held
               /\ asked[o].side = "sell" =>
                    /\ c.cash = b.cash
                    /\ \A s \in Symbol :
                         c.held[s] = b.held[s] - (IF s = asked[o].symbol THEN n ELSE 0)
<1> DEFINE c == Release(b, o, n)
           d == b.open[o]
<1>1. /\ b.cash \in Nat /\ b.held \in [Symbol -> Nat] /\ d # NoOrder
      /\ asked[o].side \in {"buy", "sell"} /\ asked[o].symbol \in Symbol
      /\ d.left \in Nat /\ d.price \in Nat
  BY AskedFacts DEF Book, Detail, NoOrder
<1>2. CASE asked[o].side = "buy"
  <2>1. b.cash >= d.left * d.price  BY <1>1, <1>2, CoverHeld DEF Cost
  <2>2. n * d.price \in Nat /\ d.left * d.price \in Nat /\ n * d.price <= d.left * d.price
    BY <1>1, Products
  <2>3. Less(b.cash, n * d.price) = b.cash - n * d.price /\ b.cash - n * d.price \in Nat
    BY <1>1, <2>1, <2>2 DEF Less
  <2>4. c = [b EXCEPT !.cash = b.cash - n * d.price]
    BY <1>2, <2>3 DEF Release
  <2> QED  BY <1>2, <2>3, <2>4 DEF Book
<1>3. CASE asked[o].side = "sell"
  <2>1. b.held[asked[o].symbol] >= d.left  BY <1>1, <1>3, CoverHeld DEF Stock
  <2>2. /\ Less(b.held[asked[o].symbol], n) = b.held[asked[o].symbol] - n
        /\ b.held[asked[o].symbol] - n \in Nat
    BY <1>1, <2>1 DEF Less
  <2> DEFINE h == [b.held EXCEPT ![asked[o].symbol] = b.held[asked[o].symbol] - n]
  <2>3. c = [b EXCEPT !.held = h]  BY <1>3, <2>2 DEF Release
  <2>4. /\ h \in [Symbol -> Nat]
        /\ \A s \in Symbol : h[s] = b.held[s] - (IF s = asked[o].symbol THEN n ELSE 0)
    BY <1>1, <2>2
  <2> HIDE DEF h
  <2> QED  BY <1>3, <2>3, <2>4 DEF Book
<1> QED  BY <1>1, <1>2, <1>3

LEMMA ReserveIs ==
    ASSUME AskedType, NEW b \in Book, NEW o \in Order, NEW d \in Detail
    PROVE  LET c == Reserve(b, o, d)
           IN  /\ c \in Book
               /\ c.open = b.open /\ c.owned = b.owned /\ c.reports = b.reports
               /\ asked[o].side = "buy" =>
                    /\ c.cash = b.cash + d.qty * d.price /\ c.held = b.held
               /\ asked[o].side = "sell" =>
                    /\ c.cash = b.cash
                    /\ \A s \in Symbol :
                         c.held[s] = b.held[s] + (IF s = asked[o].symbol THEN d.qty ELSE 0)
<1> DEFINE c == Reserve(b, o, d)
<1>1. /\ b.cash \in Nat /\ b.held \in [Symbol -> Nat]
      /\ asked[o].side \in {"buy", "sell"} /\ asked[o].symbol \in Symbol
      /\ d.qty \in Nat /\ d.price \in Nat
  BY AskedFacts DEF Book, Detail
<1>2. CASE asked[o].side = "buy"
  <2>1. b.cash + d.qty * d.price \in Nat  BY <1>1, Products
  <2>2. c = [b EXCEPT !.cash = b.cash + d.qty * d.price]  BY <1>2 DEF Reserve
  <2> QED  BY <1>2, <2>1, <2>2 DEF Book
<1>3. CASE asked[o].side = "sell"
  <2> DEFINE h == [b.held EXCEPT ![asked[o].symbol] = b.held[asked[o].symbol] + d.qty]
  <2>1. c = [b EXCEPT !.held = h]  BY <1>3 DEF Reserve
  <2>2. /\ h \in [Symbol -> Nat]
        /\ \A s \in Symbol : h[s] = b.held[s] + (IF s = asked[o].symbol THEN d.qty ELSE 0)
    BY <1>1
  <2> HIDE DEF h
  <2> QED  BY <1>3, <2>1, <2>2 DEF Book
<1> QED  BY <1>1, <1>2, <1>3

LEMMA ReportedIs ==
    ASSUME NEW b \in Book, NEW o \in Order, NEW kind \in Kind, NEW n \in Nat
    PROVE  LET c == Reported(b, o, kind, n)
               r == [order |-> o, kind |-> kind, qty |-> n]
           IN  /\ c \in Book /\ r \in Report
               /\ c.open = b.open /\ c.owned = b.owned /\ c.cash = b.cash /\ c.held = b.held
               /\ c.reports = Append(b.reports, r)
<1> DEFINE r == [order |-> o, kind |-> kind, qty |-> n]
<1>1. r \in Report  BY DEF Report
<1>2. Append(b.reports, r) \in Seq(Report)  BY <1>1 DEF Book
<1> QED  BY <1>1, <1>2 DEF Reported, Book

\* a book whose one order gets other details
LEMMA PutIs ==
    ASSUME NEW b \in Book, NEW o \in Order, NEW d \in Detail \union {NoOrder}
    PROVE  LET c == [b EXCEPT !.open[o] = d]
           IN  /\ c \in Book /\ c.open[o] = d /\ \A p \in Order : p # o => c.open[p] = b.open[p]
               /\ c.cash = b.cash /\ c.held = b.held /\ c.owned = b.owned
               /\ c.reports = b.reports
BY DEF Book

\* Placed: the order reserves what it asks for.
LEMMA PlacedKeeps ==
    ASSUME AskedType, NEW b, Sound(b), NEW o \in Order,
           b.open[o] = NoOrder, ReportsOf(b, o) = {}
    PROVE  LET c == Placed(b, o)
           IN  /\ Sound(c) /\ (Exact(b) => Exact(c))
               /\ c.open[o] \in Detail /\ ~c.open[o].acked
               /\ c.reports = b.reports /\ \A p \in Order : p # o => c.open[p] = b.open[p]
<1> DEFINE d == [qty |-> asked[o].qty, left |-> asked[o].qty, filled |-> 0,
                 price |-> asked[o].price, acked |-> FALSE]
           e == Reserve(b, o, d)
           c == Placed(b, o)
<1>1. b \in Book /\ Covers(b) /\ Accounts(b)  BY DEF Sound, BookType
<1>2. /\ d \in Detail /\ d # NoOrder /\ d.left = d.qty /\ d.filled = 0 /\ ~d.acked
      /\ d.filled + d.left = d.qty
  BY AskedFacts DEF Detail, NoOrder
<1>3. c = [e EXCEPT !.open[o] = d]  BY DEF Placed
<1> HIDE DEF d
<1>4. /\ e \in Book /\ e.open = b.open /\ e.owned = b.owned /\ e.reports = b.reports
      /\ asked[o].side = "buy" => e.cash = b.cash + d.qty * d.price /\ e.held = b.held
      /\ asked[o].side = "sell" =>
           /\ e.cash = b.cash
           /\ \A s \in Symbol :
                e.held[s] = b.held[s] + (IF s = asked[o].symbol THEN d.qty ELSE 0)
  BY <1>1, <1>2, ReserveIs
<1> HIDE DEF e, c
<1>5. /\ c \in Book /\ c.open[o] = d /\ \A p \in Order : p # o => c.open[p] = b.open[p]
      /\ c.owned = b.owned /\ c.reports = b.reports /\ c.cash = e.cash /\ c.held = e.held
  BY <1>2, <1>3, <1>4, PutIs
<1>6. asked[o].side \in {"buy", "sell"}  BY AskedFacts
<1>7. /\ b.cash \in Nat /\ \A s \in Symbol : b.held[s] \in Nat  BY <1>1 DEF Book
<1>8. c.cash = b.cash - Cost(o, b.open[o]) + Cost(o, c.open[o])
  BY <1>2, <1>4, <1>5, <1>6, <1>7 DEF Cost
<1>9. \A s \in Symbol :
        c.held[s] = b.held[s] - Stock(o, b.open[o], s) + Stock(o, c.open[o], s)
  BY <1>2, <1>4, <1>5, <1>6, <1>7 DEF Stock
<1>10. Covers(c)
  <2>1. c.cash \in Nat /\ \A s \in Symbol : c.held[s] \in Nat  BY <1>5 DEF Book
  <2>2. /\ c.cash >= b.cash - Cost(o, b.open[o]) + Cost(o, c.open[o])
        /\ \A s \in Symbol :
             c.held[s] >= b.held[s] - Stock(o, b.open[o], s) + Stock(o, c.open[o], s)
    BY <1>8, <1>9, <2>1
  <2> QED  BY <1>1, <1>5, <2>2, CoverStep
<1>11. Exact(b) => Exact(c)  BY <1>1, <1>5, <1>8, <1>9, ExactStep
<1>12. \A p \in Order : p # o => (p \in Open(c) <=> p \in Open(b))  BY <1>5 DEF Open
<1>13. BookType(c)
  <2> SUFFICES ASSUME NEW p \in Open(c)
               PROVE  c.open[p].filled + c.open[p].left = c.open[p].qty
    BY <1>5 DEF BookType
  <2>1. CASE p = o  BY <1>2, <1>5, <2>1
  <2>2. CASE p # o  BY <1>5, <1>12, <2>2 DEF Sound, BookType, Open
  <2> QED  BY <2>1, <2>2
<1>14. /\ \A s : Bought(c, s) = Bought(b, s)
       /\ \A p : Fills(c, p) = Fills(b, p) /\ ReportsOf(c, p) = ReportsOf(b, p)
                 /\ Ends(c, p) = Ends(b, p)
  BY <1>5, ReportsSame
<1>15. Accounts(c)
  <2>1. \A s \in Symbol : c.owned[s] = SumFunction(Bought(c, s))
    BY <1>1, <1>5, <1>14 DEF Accounts
  <2>2. Fills(b, o) = 0  BY SumEmpty DEF Fills
  <2>3. \A p \in Open(c) : c.open[p].filled = Fills(c, p)
    BY <1>1, <1>2, <1>5, <1>12, <1>14, <2>2 DEF Accounts, Open
  <2> QED  BY <2>1, <2>3 DEF Accounts
<1>16. \A p \in Order : OneEnd(c, p)
  <2>1. Ends(b, o) = {}  BY DEF Ends
  <2> QED  BY <1>12, <1>14, <2>1 DEF Sound, OneEnd
<1> QED  BY <1>2, <1>5, <1>10, <1>11, <1>13, <1>15, <1>16 DEF Sound, c

\* A report on one open order, with the change it reports.
LEMMA ReportKeeps ==
    ASSUME NEW b, NEW c \in Book, NEW o \in Order, NEW r \in Report,
           AskedType, Sound(b), o \in Open(b), r.order = o,
           c.reports = Append(b.reports, r),
           \A p \in Order : p # o => c.open[p] = b.open[p],
           c.cash >= b.cash - Cost(o, b.open[o]) + Cost(o, c.open[o]),
           \A s \in Symbol :
               c.held[s] >= b.held[s] - Stock(o, b.open[o], s) + Stock(o, c.open[o], s),
           \A s \in Symbol : c.owned[s] = b.owned[s] + Gain(r, s),
           r.kind \in FinalKind <=> o \notin Open(c),
           o \in Open(c) => /\ c.open[o].filled + c.open[o].left = c.open[o].qty
                            /\ c.open[o].filled = b.open[o].filled + r.qty
    PROVE  Sound(c)
<1>1. b \in Book /\ Covers(b) /\ Accounts(b)  BY DEF Sound, BookType
<1>2. Covers(c)  BY <1>1, CoverStep
<1>3. BookType(c)
  <2> SUFFICES ASSUME NEW p \in Open(c)
               PROVE  c.open[p].filled + c.open[p].left = c.open[p].qty
    BY DEF BookType
  <2>1. CASE p = o  BY <2>1
  <2>2. CASE p # o  BY <2>2 DEF Sound, BookType, Open
  <2> QED  BY <2>1, <2>2
<1>4. Accounts(c)  BY <1>1, AccountStep
<1>5. \A p \in Order : OneEnd(c, p)
  <2>1. \A p \in Order : OneEnd(b, p)  BY DEF Sound
  <2> QED  BY <1>1, <2>1, EndStep
<1> QED  BY <1>2, <1>3, <1>4, <1>5 DEF Sound

LEMMA GainNothing ==
    ASSUME NEW r, r.qty = 0, NEW b \in Book, NEW s \in Symbol
    PROVE  b.owned[s] = b.owned[s] + Gain(r, s)
<1>1. Gain(r, s) = 0
  <2>1. PICK x \in Int : x = r.qty  OBVIOUS
  <2>2. PICK y \in Int : y = -x  OBVIOUS
  <2>3. x + y = 0  BY <2>2
  <2>4. y = 0  BY <2>1, <2>3
  <2> QED  BY <2>1, <2>2, <2>4 DEF Gain
<1>2. b.owned[s] \in Int  BY DEF Book
<1> QED  BY <1>1, <1>2

\* the reserves are numbers
LEMMA ReservesAre ==
    ASSUME NEW b \in Book, NEW o \in Order
    PROVE  /\ b.cash \in Nat /\ Cost(o, b.open[o]) \in Nat
           /\ \A s \in Symbol : /\ b.held[s] \in Nat /\ Stock(o, b.open[o], s) \in Nat
                                /\ b.owned[s] \in Int
<1>1. Cost(o, b.open[o]) \in Nat  BY CashIs
<1>2. \A s \in Symbol : Stock(o, b.open[o], s) \in Nat  BY SaleIs
<1> QED  BY <1>1, <1>2 DEF Book

LEMMA AcknowledgedKeeps ==
    ASSUME NEW b, NEW o \in Order, AskedType, Sound(b), b.open[o] \in Detail
    PROVE  LET c == Acknowledged(b, o)
           IN  /\ Sound(c) /\ (Exact(b) => Exact(c))
               /\ c.open[o] \in Detail /\ c.open[o].acked
               /\ c.open[o].left = b.open[o].left
               /\ \A p \in Order : p # o => c.open[p] = b.open[p]
               /\ b.open[o].acked => c = b
               /\ ~b.open[o].acked =>
                    c.reports = Append(b.reports,
                                       [order |-> o, kind |-> "acknowledged", qty |-> 0])
<1> DEFINE d == [b.open[o] EXCEPT !.acked = TRUE]
           e == [b EXCEPT !.open[o] = d]
           r == [order |-> o, kind |-> "acknowledged", qty |-> 0]
           c == Reported(e, o, "acknowledged", 0)
<1>1. b \in Book  BY DEF Sound, BookType
<1>2. PICK x \in Detail : x = b.open[o]  OBVIOUS
<1>3. /\ d \in Detail /\ d.acked
      /\ d.qty = x.qty /\ d.left = x.left /\ d.filled = x.filled /\ d.price = x.price
  BY <1>2 DEF Detail
<1>4. d # NoOrder /\ x # NoOrder  BY <1>3 DEF Detail, NoOrder
<1>5. CASE b.open[o].acked  BY <1>5 DEF Acknowledged
<1>6. CASE ~b.open[o].acked
  <2>1. Acknowledged(b, o) = c  BY <1>6 DEF Acknowledged
  <2> HIDE DEF d
  <2>2. /\ e \in Book /\ e.open[o] = d /\ \A p \in Order : p # o => e.open[p] = b.open[p]
        /\ e.cash = b.cash /\ e.held = b.held /\ e.owned = b.owned /\ e.reports = b.reports
    BY <1>1, <1>3, PutIs
  <2> HIDE DEF e
  <2>3. /\ c \in Book /\ r \in Report
        /\ c.open = e.open /\ c.owned = e.owned /\ c.cash = e.cash /\ c.held = e.held
        /\ c.reports = Append(e.reports, r)
    <3>1. "acknowledged" \in Kind /\ 0 \in Nat  BY DEF Kind
    <3> QED  BY <2>2, <3>1, ReportedIs
  <2>4. r.order = o /\ r.kind \notin FinalKind /\ r.qty = 0  BY DEF FinalKind
  <2> HIDE DEF c, r
  <2>5. /\ c.open[o] = d /\ \A p \in Order : p # o => c.open[p] = b.open[p]
        /\ c.cash = b.cash /\ c.held = b.held /\ c.owned = b.owned
        /\ c.reports = Append(b.reports, r)
    BY <2>2, <2>3
  <2>6. /\ Cost(o, c.open[o]) = Cost(o, b.open[o])
        /\ \A s \in Symbol : Stock(o, c.open[o], s) = Stock(o, b.open[o], s)
    BY <1>2, <1>3, <1>4, <2>5 DEF Cost, Stock
  <2>7. /\ c.cash = b.cash - Cost(o, b.open[o]) + Cost(o, c.open[o])
        /\ c.cash >= b.cash - Cost(o, b.open[o]) + Cost(o, c.open[o])
        /\ \A s \in Symbol :
             /\ c.held[s] = b.held[s] - Stock(o, b.open[o], s) + Stock(o, c.open[o], s)
             /\ c.held[s] >= b.held[s] - Stock(o, b.open[o], s) + Stock(o, c.open[o], s)
    BY <1>1, <2>5, <2>6, ReservesAre
  <2>8. o \in Open(b) /\ o \in Open(c)  BY <1>2, <1>4, <2>5 DEF Open
  <2>9. /\ c.open[o].filled + c.open[o].left = c.open[o].qty
        /\ c.open[o].filled = b.open[o].filled + r.qty
    <3>1. x.filled + x.left = x.qty  BY <1>2, <2>8 DEF Sound, BookType
    <3>2. x.filled \in Nat  BY DEF Detail
    <3> QED  BY <1>2, <1>3, <2>4, <2>5, <3>1, <3>2
  <2>10. \A s \in Symbol : c.owned[s] = b.owned[s] + Gain(r, s)
    BY <1>1, <2>4, <2>5, GainNothing
  <2>11. Sound(c)  BY <2>3, <2>4, <2>5, <2>7, <2>8, <2>9, <2>10, ReportKeeps
  <2>12. Exact(b) => Exact(c)  BY <1>1, <2>3, <2>5, <2>7, ExactStep
  <2> QED  BY <1>2, <1>3, <1>6, <2>1, <2>5, <2>11, <2>12 DEF r
<1> QED  BY <1>5, <1>6

\* Ended: what is left is released, reported and forgotten.
LEMMA EndedKeeps ==
    ASSUME NEW b, NEW o \in Order, NEW kind \in FinalKind,
           AskedType, Sound(b), b.open[o] \in Detail
    PROVE  LET c == Ended(b, o, kind)
           IN  /\ Sound(c) /\ (Exact(b) => Exact(c))
               /\ c.open[o] = NoOrder /\ \A p \in Order : p # o => c.open[p] = b.open[p]
               /\ c.reports = Append(b.reports, [order |-> o, kind |-> kind, qty |-> 0])
<1> DEFINE n == b.open[o].left
           f == Release(b, o, n)
           e == [f EXCEPT !.open[o] = NoOrder]
           r == [order |-> o, kind |-> kind, qty |-> 0]
           c == Reported(e, o, kind, 0)
<1>1. b \in Book /\ Covers(b)  BY DEF Sound, BookType
<1>2. Ended(b, o, kind) = c  BY DEF Ended
<1>3. /\ n \in Nat /\ n <= b.open[o].left /\ n = b.open[o].left
      /\ b.open[o] # NoOrder /\ n * b.open[o].price \in Nat
  BY Products DEF Detail, NoOrder
<1> HIDE DEF n
<1>4. /\ f \in Book /\ f.open = b.open /\ f.owned = b.owned /\ f.reports = b.reports
      /\ asked[o].side = "buy" => f.cash = b.cash - n * b.open[o].price /\ f.held = b.held
      /\ asked[o].side = "sell" =>
           /\ f.cash = b.cash
           /\ \A s \in Symbol :
                f.held[s] = b.held[s] - (IF s = asked[o].symbol THEN n ELSE 0)
  BY <1>1, <1>3, ReleaseIs
<1> HIDE DEF f
<1>5. /\ e \in Book /\ e.open[o] = NoOrder /\ \A p \in Order : p # o => e.open[p] = f.open[p]
      /\ e.cash = f.cash /\ e.held = f.held /\ e.owned = f.owned /\ e.reports = f.reports
  BY <1>4, PutIs
<1> HIDE DEF e
<1>6. /\ c \in Book /\ r \in Report
      /\ c.open = e.open /\ c.owned = e.owned /\ c.cash = e.cash /\ c.held = e.held
      /\ c.reports = Append(e.reports, r)
  <2>1. kind \in Kind /\ 0 \in Nat  BY DEF Kind
  <2> QED  BY <1>5, <2>1, ReportedIs
<1>7. r.order = o /\ r.kind = kind /\ r.qty = 0  OBVIOUS
<1> HIDE DEF c, r
<1>8. /\ c.open[o] = NoOrder /\ \A p \in Order : p # o => c.open[p] = b.open[p]
      /\ c.cash = f.cash /\ c.held = f.held /\ c.owned = b.owned
      /\ c.reports = Append(b.reports, r)
  BY <1>4, <1>5, <1>6
<1>9. asked[o].side \in {"buy", "sell"}  BY AskedFacts
<1>10. /\ Cost(o, c.open[o]) = 0 /\ \A s \in Symbol : Stock(o, c.open[o], s) = 0
  BY <1>8 DEF Cost, Stock
<1>11. /\ c.cash = b.cash - Cost(o, b.open[o]) + Cost(o, c.open[o])
       /\ c.cash >= b.cash - Cost(o, b.open[o]) + Cost(o, c.open[o])
  <2>1. c.cash = b.cash - Cost(o, b.open[o])  BY <1>1, <1>3, <1>4, <1>8, <1>9, ReservesAre DEF Cost
  <2>2. c.cash \in Nat  BY <1>6 DEF Book
  <2> QED  BY <1>10, <2>1, <2>2
<1>12. \A s \in Symbol :
         /\ c.held[s] = b.held[s] - Stock(o, b.open[o], s) + Stock(o, c.open[o], s)
         /\ c.held[s] >= b.held[s] - Stock(o, b.open[o], s) + Stock(o, c.open[o], s)
  <2> TAKE s \in Symbol
  <2>1. c.held[s] = b.held[s] - Stock(o, b.open[o], s)
    BY <1>1, <1>3, <1>4, <1>8, <1>9, ReservesAre DEF Stock
  <2>2. c.held[s] \in Nat  BY <1>6 DEF Book
  <2> QED  BY <1>10, <2>1, <2>2
<1>13. o \in Open(b) /\ o \notin Open(c)  BY <1>3, <1>8 DEF Open
<1>14. \A s \in Symbol : c.owned[s] = b.owned[s] + Gain(r, s)
  BY <1>1, <1>7, <1>8, GainNothing
<1>15. Sound(c)
  BY <1>6, <1>7, <1>8, <1>11, <1>12, <1>13, <1>14, ReportKeeps
<1>16. Exact(b) => Exact(c)  BY <1>1, <1>6, <1>8, <1>11, <1>12, ExactStep
<1> QED  BY <1>2, <1>8, <1>15, <1>16 DEF r

\* Booked: the position moves, and nothing else.
LEMMA BookedIs ==
    ASSUME AskedType, NEW b \in Book, NEW o \in Order, NEW n \in Nat
    PROVE  LET c == Booked(b, o, n)
           IN  /\ c \in Book /\ c.open = b.open /\ c.cash = b.cash /\ c.held = b.held
               /\ c.reports = b.reports
               /\ \A s \in Symbol :
                    c.owned[s] = b.owned[s] + (IF asked[o].symbol # s THEN 0
                                               ELSE IF asked[o].side = "buy" THEN n ELSE -n)
<1> DEFINE s == asked[o].symbol
           m == IF asked[o].side = "buy" THEN n ELSE -n
           w == [b.owned EXCEPT ![s] = b.owned[s] + m]
<1>1. /\ b.owned \in [Symbol -> Int] /\ s \in Symbol /\ m \in Int
      /\ asked[o].side \in {"buy", "sell"}
  BY AskedFacts DEF Book
<1>2. b.owned[s] \in Int  BY <1>1
<1>3. b.owned[s] + m = IF asked[o].side = "buy" THEN b.owned[s] + n ELSE b.owned[s] - n
  BY <1>1, <1>2
<1> HIDE DEF m
<1>4. Booked(b, o, n) = [b EXCEPT !.owned = w]  BY <1>3 DEF Booked
<1>5. /\ w \in [Symbol -> Int]
      /\ \A v \in Symbol : w[v] = b.owned[v] + (IF s # v THEN 0 ELSE m)
  BY <1>1, <1>2
<1> HIDE DEF w
<1> QED  BY <1>4, <1>5 DEF Book, m

\* Filled: a fill of n, which ends the order if it is all that was left.
LEMMA FilledKeeps ==
    ASSUME NEW b, NEW o \in Order, NEW n \in Nat \ {0},
           AskedType, Sound(b), b.open[o] \in Detail, n <= b.open[o].left
    PROVE  LET c == Filled(b, o, n)
               all == n = b.open[o].left
           IN  /\ Sound(c) /\ (Exact(b) => Exact(c))
               /\ IF all THEN c.open[o] = NoOrder
                  ELSE /\ c.open[o] \in Detail /\ c.open[o].acked = b.open[o].acked
                       /\ c.open[o].left = b.open[o].left - n
               /\ \A p \in Order : p # o => c.open[p] = b.open[p]
               /\ c.reports = Append(b.reports,
                    [order |-> o, kind |-> IF all THEN "filled" ELSE "partial", qty |-> n])
<1>1. PICK x \in Detail : x = b.open[o]  OBVIOUS
<1> DEFINE all == n = x.left
           s == asked[o].symbol
           g == Booked(b, o, n)
           f == Release(g, o, n)
           d == IF all THEN NoOrder ELSE [x EXCEPT !.left = @ - n, !.filled = @ + n]
           e == [f EXCEPT !.open[o] = d]
           kind == IF all THEN "filled" ELSE "partial"
           r == [order |-> o, kind |-> kind, qty |-> n]
           c == Reported(e, o, kind, n)
<1>2. b \in Book /\ Covers(b)  BY DEF Sound, BookType
<1>3. /\ x.left \in Nat /\ x.filled \in Nat /\ x.price \in Nat /\ x.qty \in Nat /\ x.left # 0
      /\ x # NoOrder /\ x.filled + x.left = x.qty
  <2>1. x # NoOrder  BY DEF Detail, NoOrder
  <2>2. o \in Open(b)  BY <1>1, <2>1 DEF Open
  <2> QED  BY <1>1, <2>1, <2>2 DEF Detail, Sound, BookType
<1>4. /\ all => d = NoOrder
      /\ ~all => /\ d \in Detail /\ d # NoOrder /\ d.acked = x.acked
                 /\ d.left = x.left - n /\ d.filled = x.filled + n
                 /\ d.price = x.price /\ d.qty = x.qty
  <2>1. CASE all  BY <2>1
  <2>2. CASE ~all
    <3>1. d = [x EXCEPT !.left = x.left - n, !.filled = x.filled + n]  BY <2>2
    <3>2. x.left - n \in Nat \ {0} /\ x.filled + n \in Nat  BY <1>1, <1>3, <2>2
    <3>3. PICK i \in Nat \ {0}, j \in Nat : i = x.left - n /\ j = x.filled + n  BY <3>2
    <3>4. d = [x EXCEPT !.left = i, !.filled = j]  BY <3>1, <3>3
    <3>5. /\ d \in Detail /\ d.acked = x.acked /\ d.left = i /\ d.filled = j
          /\ d.price = x.price /\ d.qty = x.qty
      BY <3>4 DEF Detail
    <3>6. d # NoOrder  BY <3>5 DEF Detail, NoOrder
    <3> QED  BY <2>2, <3>3, <3>5, <3>6
  <2> QED  BY <2>1, <2>2
<1>5. asked[o].side \in {"buy", "sell"} /\ s \in Symbol  BY AskedFacts
<1> HIDE DEF d
<1>6. /\ g \in Book /\ g.open = b.open /\ g.cash = b.cash /\ g.held = b.held
      /\ g.reports = b.reports
      /\ \A v \in Symbol : g.owned[v] = b.owned[v] + (IF s # v THEN 0
                                                    ELSE IF asked[o].side = "buy" THEN n ELSE -n)
  BY <1>2, <1>5, BookedIs
<1> HIDE DEF g
<1>7. Covers(g)
  <2>1. /\ g.cash >= b.cash - Cost(o, b.open[o]) + Cost(o, g.open[o])
        /\ \A v \in Symbol :
             g.held[v] >= b.held[v] - Stock(o, b.open[o], v) + Stock(o, g.open[o], v)
    BY <1>2, <1>6, ReservesAre
  <2> QED  BY <1>2, <1>6, <2>1, CoverStep
<1>8. /\ f \in Book /\ f.open = g.open /\ f.owned = g.owned /\ f.reports = g.reports
      /\ asked[o].side = "buy" => f.cash = b.cash - n * x.price /\ f.held = b.held
      /\ asked[o].side = "sell" =>
           /\ f.cash = b.cash
           /\ \A v \in Symbol : f.held[v] = b.held[v] - (IF v = s THEN n ELSE 0)
  BY <1>1, <1>6, <1>7, ReleaseIs
<1>9. Filled(b, o, n) = c
  BY <1>1, <1>6 DEF Filled, Settled, d, g
<1> HIDE DEF f
<1>10. d \in Detail \union {NoOrder}  BY <1>4
<1>11. /\ e \in Book /\ e.open[o] = d /\ \A p \in Order : p # o => e.open[p] = f.open[p]
       /\ e.cash = f.cash /\ e.held = f.held /\ e.owned = f.owned /\ e.reports = f.reports
  BY <1>8, <1>10, PutIs
<1> HIDE DEF e
<1>12. kind \in Kind /\ n \in Nat /\ (kind \in FinalKind <=> all)  BY DEF Kind, FinalKind
<1>13. r.order = o /\ r.kind = kind /\ r.qty = n  OBVIOUS
<1> HIDE DEF kind
<1>14. /\ c \in Book /\ r \in Report
       /\ c.open = e.open /\ c.owned = e.owned /\ c.cash = e.cash /\ c.held = e.held
       /\ c.reports = Append(e.reports, r)
  BY <1>11, <1>12, ReportedIs
<1> HIDE DEF c, r
<1>15. /\ c.open[o] = d /\ \A p \in Order : p # o => c.open[p] = b.open[p]
       /\ c.cash = f.cash /\ c.held = f.held /\ c.owned = g.owned
       /\ c.reports = Append(b.reports, r)
  BY <1>6, <1>8, <1>11, <1>14
<1>16. /\ c.cash = b.cash - Cost(o, b.open[o]) + Cost(o, c.open[o])
       /\ c.cash >= b.cash - Cost(o, b.open[o]) + Cost(o, c.open[o])
  <2>1. b.cash \in Nat /\ c.cash \in Nat  BY <1>2, <1>14 DEF Book
  <2>2. CASE asked[o].side = "buy"
    <3>1. Cost(o, b.open[o]) = x.left * x.price  BY <1>1, <1>3, <2>2 DEF Cost
    <3>2. Cost(o, c.open[o]) = (x.left - n) * x.price
      <4>1. CASE all
        <5>1. 0 * x.price = 0 /\ x.left - n = 0  BY <1>3, <4>1
        <5> QED  BY <1>4, <1>15, <4>1, <5>1 DEF Cost
      <4>2. CASE ~all  BY <1>4, <1>15, <2>2, <4>2 DEF Cost
      <4> QED  BY <4>1, <4>2
    <3>3. (x.left - n) * x.price = x.left * x.price - n * x.price
      <4>1. n \in Nat /\ x.left \in Nat /\ x.price \in Nat /\ n <= x.left  BY <1>1, <1>3
      <4>2. \A u, v, z \in Nat : u <= v => (v - u) * z = v * z - u * z  BY Products
      <4> QED  BY <4>1, <4>2, Zenon
    <3>4. x.left * x.price \in Nat /\ n * x.price \in Nat  BY <1>3, Products
    <3>5. c.cash = b.cash - n * x.price  BY <1>8, <1>15, <2>2
    <3>6. PICK u, v \in Nat : u = x.left * x.price /\ v = n * x.price  BY <3>4
    <3> QED  BY <2>1, <3>1, <3>2, <3>3, <3>5, <3>6
  <2>3. CASE asked[o].side = "sell"
    <3>1. Cost(o, b.open[o]) = 0 /\ Cost(o, c.open[o]) = 0  BY <2>3 DEF Cost
    <3> QED  BY <1>8, <1>15, <2>1, <2>3, <3>1
  <2> QED  BY <1>5, <2>2, <2>3
<1>17. \A v \in Symbol :
         /\ c.held[v] = b.held[v] - Stock(o, b.open[o], v) + Stock(o, c.open[o], v)
         /\ c.held[v] >= b.held[v] - Stock(o, b.open[o], v) + Stock(o, c.open[o], v)
  <2> TAKE v \in Symbol
  <2>1. b.held[v] \in Nat /\ c.held[v] \in Nat  BY <1>2, <1>14 DEF Book
  <2>2. CASE asked[o].side = "sell" /\ v = s
    <3>1. Stock(o, b.open[o], v) = x.left  BY <1>1, <1>3, <2>2 DEF Stock
    <3>2. Stock(o, c.open[o], v) = x.left - n
      <4>1. CASE all
        <5>1. x.left - n = 0  BY <1>3, <4>1
        <5> QED  BY <1>4, <1>15, <4>1, <5>1 DEF Stock
      <4>2. CASE ~all  BY <1>4, <1>15, <2>2, <4>2 DEF Stock
      <4> QED  BY <4>1, <4>2
    <3> QED  BY <1>3, <1>8, <1>15, <2>1, <2>2, <3>1, <3>2, SMTT(30)
  <2>3. CASE ~(asked[o].side = "sell" /\ v = s)
    <3>1. Stock(o, b.open[o], v) = 0 /\ Stock(o, c.open[o], v) = 0  BY <2>3 DEF Stock
    <3>2. c.held[v] = b.held[v]  BY <1>5, <1>8, <1>15, <2>1, <2>3
    <3> QED  BY <2>1, <3>1, <3>2
  <2> QED  BY <2>2, <2>3
<1>18. o \in Open(b) /\ (o \notin Open(c) <=> all)  BY <1>1, <1>3, <1>4, <1>15 DEF Open
<1>19. o \in Open(c) => /\ c.open[o].filled + c.open[o].left = c.open[o].qty
                        /\ c.open[o].filled = b.open[o].filled + r.qty
  <2> SUFFICES ASSUME ~all
               PROVE  d.filled + d.left = d.qty /\ d.filled = x.filled + n
    BY <1>1, <1>13, <1>15, <1>18
  <2> QED  BY <1>3, <1>4
<1>20. \A v \in Symbol : c.owned[v] = b.owned[v] + Gain(r, v)
  <2> TAKE v \in Symbol
  <2>1. Gain(r, v) = IF s # v THEN 0 ELSE IF asked[o].side = "buy" THEN n ELSE -n
    BY <1>13 DEF Gain
  <2> QED  BY <1>6, <1>15, <2>1
<1>21. Sound(c)
  BY <1>12, <1>13, <1>14, <1>15, <1>16, <1>17, <1>18, <1>19, <1>20, ReportKeeps
<1>22. Exact(b) => Exact(c)  BY <1>2, <1>14, <1>15, <1>16, <1>17, ExactStep
<1>23. /\ all <=> n = b.open[o].left
       /\ kind = IF all THEN "filled" ELSE "partial"
       /\ r = [order |-> o, kind |-> kind, qty |-> n]
  BY <1>1 DEF r, kind
<1> QED  BY <1>1, <1>4, <1>9, <1>15, <1>21, <1>22, <1>23

LEMMA MatchedKeeps ==
    ASSUME NEW b, NEW o \in Order, NEW n \in Nat,
           AskedType, Sound(b), b.open[o] \in Detail, n <= b.open[o].left
    PROVE  LET c == Matched(b, o, n)
           IN  /\ Sound(c) /\ (Exact(b) => Exact(c))
               /\ \A p \in Order : p # o => c.open[p] = b.open[p]
<1>1. "cancelled" \in FinalKind  BY DEF FinalKind
<1>2. CASE Matched(b, o, n) = b  BY <1>2
<1>3. CASE Matched(b, o, n) = Ended(b, o, "cancelled")
  <2>1. PICK c : c = Ended(b, o, "cancelled")  OBVIOUS
  <2>2. /\ Sound(c) /\ (Exact(b) => Exact(c))
        /\ \A p \in Order : p # o => c.open[p] = b.open[p]
    BY <1>1, <2>1, EndedKeeps
  <2> QED  BY <1>3, <2>1, <2>2
<1>4. CASE n # 0 /\ Matched(b, o, n) = Filled(b, o, n)
  <2>1. n \in Nat \ {0}  BY <1>4
  <2>2. PICK c : c = Filled(b, o, n)  OBVIOUS
  <2>3. /\ Sound(c) /\ (Exact(b) => Exact(c))
        /\ \A p \in Order : p # o => c.open[p] = b.open[p]
    BY <2>1, <2>2, FilledKeeps, ZenonT(40)
  <2> QED  BY <1>4, <2>2, <2>3
<1>5. CASE /\ n # 0 /\ n < b.open[o].left
           /\ Matched(b, o, n) = Ended(Filled(b, o, n), o, "cancelled")
  <2>1. n \in Nat \ {0} /\ n # b.open[o].left  BY <1>5 DEF Detail
  <2>2. PICK f : f = Filled(b, o, n)  OBVIOUS
  <2>3. /\ Sound(f) /\ (Exact(b) => Exact(f)) /\ f.open[o] \in Detail
        /\ \A p \in Order : p # o => f.open[p] = b.open[p]
    BY <2>1, <2>2, FilledKeeps, ZenonT(40)
  <2>4. PICK c : c = Ended(f, o, "cancelled")  OBVIOUS
  <2>5. /\ Sound(c) /\ (Exact(f) => Exact(c))
        /\ \A p \in Order : p # o => c.open[p] = f.open[p]
    BY <1>1, <2>3, <2>4, EndedKeeps
  <2>6. Matched(b, o, n) = c  BY <1>5, <2>2, <2>4
  <2> QED  BY <2>3, <2>5, <2>6
<1> QED  BY <1>2, <1>3, <1>4, <1>5 DEF Matched

\* what is freed by a replacement, and reserved again for the whole order
LEMMA RenewedIs ==
    ASSUME NEW b, NEW o \in Order, NEW d \in Detail,
           AskedType, Sound(b), b.open[o] \in Detail, d.left <= d.qty
    PROVE  LET e == Reserve(Release(b, o, b.open[o].left), o, d)
           IN  /\ e \in Book
               /\ e.open = b.open /\ e.owned = b.owned /\ e.reports = b.reports
               /\ e.cash >= b.cash - Cost(o, b.open[o]) + Cost(o, d)
               /\ \A s \in Symbol :
                    e.held[s] >= b.held[s] - Stock(o, b.open[o], s) + Stock(o, d, s)
<1>1. PICK x \in Detail : x = b.open[o]  OBVIOUS
<1>2. b \in Book /\ Covers(b)  BY DEF Sound, BookType
<1>3. /\ x.left \in Nat /\ x.price \in Nat /\ d.left \in Nat /\ d.price \in Nat /\ d.qty \in Nat
      /\ x # NoOrder /\ d # NoOrder
  BY DEF Detail, NoOrder
<1>4. PICK f : f = Release(b, o, x.left)  OBVIOUS
<1>5. /\ f \in Book /\ f.open = b.open /\ f.owned = b.owned /\ f.reports = b.reports
      /\ asked[o].side = "buy" => f.cash = b.cash - x.left * x.price /\ f.held = b.held
      /\ asked[o].side = "sell" =>
           /\ f.cash = b.cash
           /\ \A s \in Symbol :
                f.held[s] = b.held[s] - (IF s = asked[o].symbol THEN x.left ELSE 0)
  BY <1>1, <1>2, <1>3, <1>4, ReleaseIs
<1>6. PICK e : e = Reserve(f, o, d)  OBVIOUS
<1>7. /\ e \in Book /\ e.open = f.open /\ e.owned = f.owned /\ e.reports = f.reports
      /\ asked[o].side = "buy" => e.cash = f.cash + d.qty * d.price /\ e.held = f.held
      /\ asked[o].side = "sell" =>
           /\ e.cash = f.cash
           /\ \A s \in Symbol :
                e.held[s] = f.held[s] + (IF s = asked[o].symbol THEN d.qty ELSE 0)
  BY <1>5, <1>6, ReserveIs
<1>8. e = Reserve(Release(b, o, b.open[o].left), o, d)  BY <1>1, <1>4, <1>6
<1>9. asked[o].side \in {"buy", "sell"}  BY AskedFacts
<1>10. b.cash \in Nat /\ \A s \in Symbol : b.held[s] \in Nat  BY <1>2, ReservesAre
<1>11. e.cash >= b.cash - Cost(o, b.open[o]) + Cost(o, d)
  <2>1. CASE asked[o].side = "buy"
    <3>1. Cost(o, b.open[o]) = x.left * x.price /\ Cost(o, d) = d.left * d.price
      BY <1>1, <1>3, <2>1 DEF Cost
    <3>2. /\ x.left * x.price \in Nat /\ d.left * d.price \in Nat /\ d.qty * d.price \in Nat
          /\ d.left * d.price <= d.qty * d.price
      BY <1>3, Products
    <3>3. PICK u, v, z \in Nat : u = x.left * x.price /\ v = d.left * d.price /\ z = d.qty * d.price
      BY <3>2
    <3>4. e.cash = b.cash - u + z  BY <1>5, <1>7, <2>1, <3>3
    <3> QED  BY <1>10, <3>1, <3>2, <3>3, <3>4
  <2>2. CASE asked[o].side = "sell"
    <3>1. Cost(o, b.open[o]) = 0 /\ Cost(o, d) = 0  BY <2>2 DEF Cost
    <3> QED  BY <1>5, <1>7, <1>10, <2>2, <3>1
  <2> QED  BY <1>9, <2>1, <2>2
<1>12. ASSUME NEW s \in Symbol
       PROVE  e.held[s] >= b.held[s] - Stock(o, b.open[o], s) + Stock(o, d, s)
  <2>1. CASE asked[o].side = "sell" /\ s = asked[o].symbol
    <3>1. Stock(o, b.open[o], s) = x.left /\ Stock(o, d, s) = d.left
      BY <1>1, <1>3, <2>1 DEF Stock
    <3> QED  BY <1>3, <1>5, <1>7, <1>10, <2>1, <3>1
  <2>2. CASE ~(asked[o].side = "sell" /\ s = asked[o].symbol)
    <3>1. Stock(o, b.open[o], s) = 0 /\ Stock(o, d, s) = 0  BY <2>2 DEF Stock
    <3>2. e.held[s] = b.held[s]  BY <1>5, <1>7, <1>9, <1>10, <2>2
    <3> QED  BY <1>10, <3>1, <3>2
  <2> QED  BY <2>1, <2>2
<1> QED  BY <1>5, <1>7, <1>8, <1>11, <1>12

\* A replacement covers the order, if not exactly, whether it is accepted ...
LEMMA ReplacedKeeps ==
    ASSUME NEW b, NEW o \in Order, NEW n \in Nat \ {0}, NEW p \in Nat,
           AskedType, Sound(b), b.open[o] \in Detail
    PROVE  LET d == [b.open[o] EXCEPT !.qty = b.open[o].filled + n, !.left = n, !.price = p]
               e == Reserve(Release(b, o, b.open[o].left), o, d)
           IN  Sound(Reported([e EXCEPT !.open[o] = d], o, "replaced", 0))
<1>1. PICK x \in Detail : x = b.open[o]  OBVIOUS
<1> DEFINE d == [x EXCEPT !.qty = x.filled + n, !.left = n, !.price = p]
           e == Reserve(Release(b, o, b.open[o].left), o, d)
           g == [e EXCEPT !.open[o] = d]
           r == [order |-> o, kind |-> "replaced", qty |-> 0]
           c == Reported(g, o, "replaced", 0)
<1>2. x.filled \in Nat  BY DEF Detail
<1>3. PICK q \in Nat \ {0} : q = x.filled + n  BY <1>2
<1>4. d = [x EXCEPT !.qty = q, !.left = n, !.price = p]  BY <1>3
<1>5. /\ d \in Detail /\ d.qty = q /\ d.left = n /\ d.filled = x.filled
  BY <1>4 DEF Detail
<1>6. d.left <= d.qty /\ d.filled + d.left = d.qty  BY <1>2, <1>3, <1>5
<1>7. x # NoOrder /\ d # NoOrder  BY <1>5 DEF Detail, NoOrder
<1> HIDE DEF d
<1>8. /\ e \in Book
      /\ e.open = b.open /\ e.owned = b.owned /\ e.reports = b.reports
      /\ e.cash >= b.cash - Cost(o, b.open[o]) + Cost(o, d)
      /\ \A s \in Symbol : e.held[s] >= b.held[s] - Stock(o, b.open[o], s) + Stock(o, d, s)
  BY <1>5, <1>6, RenewedIs
<1> HIDE DEF e
<1>9. /\ g \in Book /\ g.open[o] = d /\ \A v \in Order : v # o => g.open[v] = e.open[v]
      /\ g.cash = e.cash /\ g.held = e.held /\ g.owned = e.owned /\ g.reports = e.reports
  BY <1>5, <1>8, PutIs
<1> HIDE DEF g
<1>10. /\ c \in Book /\ r \in Report
       /\ c.open = g.open /\ c.owned = g.owned /\ c.cash = g.cash /\ c.held = g.held
       /\ c.reports = Append(g.reports, r)
  <2>1. "replaced" \in Kind /\ 0 \in Nat  BY DEF Kind
  <2> QED  BY <1>9, <2>1, ReportedIs
<1>11. r.order = o /\ r.kind \notin FinalKind /\ r.qty = 0  BY DEF FinalKind
<1> HIDE DEF c, r
<1>12. /\ c.open[o] = d /\ \A v \in Order : v # o => c.open[v] = b.open[v]
       /\ c.cash = e.cash /\ c.held = e.held /\ c.owned = b.owned
       /\ c.reports = Append(b.reports, r)
  BY <1>8, <1>9, <1>10
<1>13. o \in Open(b) /\ o \in Open(c)  BY <1>1, <1>7, <1>12 DEF Open
<1>14. b \in Book  BY DEF Sound, BookType
<1>15. \A s \in Symbol : c.owned[s] = b.owned[s] + Gain(r, s)
  BY <1>11, <1>12, <1>14, GainNothing
<1>16. c.open[o].filled = b.open[o].filled + r.qty  BY <1>1, <1>2, <1>5, <1>11, <1>12
<1>17. /\ c.cash >= b.cash - Cost(o, b.open[o]) + Cost(o, c.open[o])
       /\ \A s \in Symbol :
            c.held[s] >= b.held[s] - Stock(o, b.open[o], s) + Stock(o, c.open[o], s)
  BY <1>8, <1>12
<1>18. Sound(c)
  BY <1>6, <1>10, <1>11, <1>12, <1>13, <1>15, <1>16, <1>17, ReportKeeps
<1> QED  BY <1>1, <1>18 DEF c, g, e, d

\* ... or refused.
LEMMA RefusedKeeps ==
    ASSUME NEW b, NEW o \in Order, AskedType, Sound(b), b.open[o] \in Detail
    PROVE  Sound(Reserve(Release(b, o, b.open[o].left), o, b.open[o]))
<1>1. PICK x \in Detail : x = b.open[o]  OBVIOUS
<1>2. PICK e : e = Reserve(Release(b, o, b.open[o].left), o, x)  OBVIOUS
<1>3. b \in Book /\ Covers(b) /\ Accounts(b)  BY DEF Sound, BookType
<1>4. x.left <= x.qty
  <2>1. x # NoOrder  BY DEF Detail, NoOrder
  <2>2. x.filled + x.left = x.qty  BY <1>1, <2>1 DEF Sound, BookType, Open
  <2> QED  BY <2>2 DEF Detail
<1>5. /\ e \in Book
      /\ e.open = b.open /\ e.owned = b.owned /\ e.reports = b.reports
      /\ e.cash >= b.cash - Cost(o, b.open[o]) + Cost(o, x)
      /\ \A s \in Symbol : e.held[s] >= b.held[s] - Stock(o, b.open[o], s) + Stock(o, x, s)
  BY <1>1, <1>2, <1>4, RenewedIs
<1>6. Covers(e)  BY <1>1, <1>3, <1>5, CoverStep
<1>7. Open(e) = Open(b)  BY <1>5 DEF Open
<1>8. /\ \A s : Bought(e, s) = Bought(b, s)
      /\ \A p : Fills(e, p) = Fills(b, p) /\ ReportsOf(e, p) = ReportsOf(b, p)
                /\ Ends(e, p) = Ends(b, p)
  BY <1>5, ReportsSame
<1>9. BookType(e)  BY <1>5, <1>7 DEF Sound, BookType
<1>10. Accounts(e)  BY <1>3, <1>5, <1>7, <1>8 DEF Accounts
<1>11. \A p \in Order : OneEnd(e, p)  BY <1>7, <1>8 DEF Sound, OneEnd
<1>12. Sound(e)  BY <1>6, <1>9, <1>10, <1>11 DEF Sound
<1> QED  BY <1>1, <1>2, <1>12

\* Nothing is open, reserved, owned or reported at first.
LEMMA EmptyIs == AskedType => Sound(EmptyBook) /\ Exact(EmptyBook)
<1> SUFFICES ASSUME AskedType PROVE Sound(EmptyBook) /\ Exact(EmptyBook)  OBVIOUS
<1> DEFINE b == EmptyBook
<1>1. b \in Book  BY DEF EmptyBook, Book
<1>2. b.reports = <<>> /\ b.cash = 0 /\ \A o \in Order : b.open[o] = NoOrder
  BY DEF EmptyBook
<1>3. \A s \in Symbol : b.held[s] = 0 /\ b.owned[s] = 0  BY DEF EmptyBook
<1>4. Open(b) = {}  BY <1>2 DEF Open
<1> HIDE DEF b
<1>5. SumFunction(CashOpen(b)) = 0
  <2>1. DOMAIN CashOpen(b) = Order /\ \A o \in Order : CashOpen(b)[o] = 0  BY <1>4 DEF CashOpen
  <2> QED  BY <2>1, SumZero, SumFunctionIs
<1>6. ASSUME NEW s \in Symbol PROVE SumFunction(SaleOpen(b, s)) = 0
  <2>1. DOMAIN SaleOpen(b, s) = Order /\ \A o \in Order : SaleOpen(b, s)[o] = 0
    BY <1>4 DEF SaleOpen
  <2> QED  BY <2>1, SumZero, SumFunctionIs
<1>7. ASSUME NEW s \in Symbol PROVE SumFunction(Bought(b, s)) = 0
  <2>1. DOMAIN Bought(b, s) = {}  BY <1>2 DEF Bought
  <2> QED  BY <2>1, SumEmpty, SumFunctionIs
<1>8. Exact(b) /\ Covers(b)  BY <1>2, <1>3, <1>5, <1>6 DEF Exact, Covers
<1>9. Accounts(b)  BY <1>3, <1>4, <1>7 DEF Accounts
<1>10. \A o \in Order : OneEnd(b, o)  BY <1>2, <1>4 DEF OneEnd, Ends, ReportsOf
<1> QED  BY <1>1, <1>4, <1>8, <1>9, <1>10 DEF Sound, BookType, b

-----------------------------------------------------------------------------
(* A book some of whose sums lost an update.  Its orders and its reports   *)
(* are those of a sound book, the book with its sums mended; and a change  *)
(* does to a sum that is right what it does to the sum of the mended book. *)

\* a book that is sound but for its sums
Plain(b) ==
    /\ BookType(b)
    /\ \A o \in Open(b) : b.open[o].filled = Fills(b, o)
    /\ \A o \in Order : OneEnd(b, o)

Alike(b, c) == b.open = c.open /\ b.reports = c.reports

Mended(b) ==
    [b EXCEPT !.cash = SumFunction(CashOpen(b)),
              !.held = [s \in Symbol |-> SumFunction(SaleOpen(b, s))],
              !.owned = [s \in Symbol |-> SumFunction(Bought(b, s))]]

LEMMA SoundPlain == ASSUME NEW b, Sound(b) PROVE Plain(b)
BY DEF Sound, Accounts, Plain

LEMMA AlikeSums ==
    ASSUME NEW b, NEW c, Alike(b, c)
    PROVE  /\ Open(b) = Open(c) /\ CashOpen(b) = CashOpen(c)
           /\ \A s : SaleOpen(b, s) = SaleOpen(c, s) /\ Bought(b, s) = Bought(c, s)
           /\ \A o : Fills(b, o) = Fills(c, o) /\ ReportsOf(b, o) = ReportsOf(c, o)
                     /\ Ends(b, o) = Ends(c, o)
<1>1. Open(b) = Open(c)  BY DEF Alike, Open
<1>2. CashOpen(b) = CashOpen(c) /\ \A s : SaleOpen(b, s) = SaleOpen(c, s)
  BY <1>1 DEF Alike, CashOpen, SaleOpen
<1> QED  BY <1>1, <1>2, ReportsSame DEF Alike

LEMMA PlainAlike ==
    ASSUME NEW b \in Book, NEW c, Plain(c), Alike(b, c)
    PROVE  Plain(b)
<1>1. Open(b) = Open(c) /\ \A o : Fills(b, o) = Fills(c, o) /\ ReportsOf(b, o) = ReportsOf(c, o)
                                 /\ Ends(b, o) = Ends(c, o)
  BY AlikeSums
<1>2. b.open = c.open  BY DEF Alike
<1>3. \A o \in Order : OneEnd(b, o)  BY <1>1 DEF Plain, OneEnd
<1> QED  BY <1>1, <1>2, <1>3 DEF Plain, BookType

LEMMA BoughtInt ==
    ASSUME AskedType, NEW b \in Book, NEW s \in Symbol
    PROVE  SumFunction(Bought(b, s)) \in Int
<1>1. \A r \in Report : Gain(r, s) \in Int  BY AskedFacts DEF Gain, Report
<1>2. DOMAIN b.reports = 1..Len(b.reports) /\ Len(b.reports) \in Nat
      /\ \A i \in DOMAIN b.reports : b.reports[i] \in Report
  BY DEF Book
<1>3. IsFiniteSet(DOMAIN b.reports)  BY <1>2, FS_Interval
<1>4. DOMAIN Bought(b, s) = DOMAIN b.reports
      /\ \A i \in DOMAIN b.reports : Bought(b, s)[i] = Gain(b.reports[i], s)
  BY DEF Bought, Gain
<1>5. \A i \in DOMAIN b.reports : Bought(b, s)[i] \in Int  BY <1>1, <1>2, <1>4
<1>6. SumFunctionOnSet(Bought(b, s), DOMAIN b.reports) \in Int  BY <1>3, <1>5, SumInt
<1> QED  BY <1>4, <1>6, SumFunctionIs

LEMMA MendedIs ==
    ASSUME AskedType, NEW b, Plain(b)
    PROVE  LET w == Mended(b)
           IN  /\ Sound(w) /\ Exact(w) /\ Alike(w, b) /\ w \in Book
               /\ w.cash = SumFunction(CashOpen(b))
               /\ \A s \in Symbol : /\ w.held[s] = SumFunction(SaleOpen(b, s))
                                    /\ w.owned[s] = SumFunction(Bought(b, s))
<1> DEFINE w == Mended(b)
<1>1. b \in Book  BY DEF Plain, BookType
<1>2. SumFunction(CashOpen(b)) \in Nat
  <2>1. CashOpen(b) \in [Order -> Nat]  BY <1>1, CashIs
  <2> QED  BY <2>1, SumAtLeast
<1>3. ASSUME NEW s \in Symbol PROVE SumFunction(SaleOpen(b, s)) \in Nat
  <2>1. SaleOpen(b, s) \in [Order -> Nat]  BY <1>1, SaleIs
  <2>2. PICK f : f = SaleOpen(b, s)  OBVIOUS
  <2>3. SumFunction(f) \in Nat  BY <2>1, <2>2, SumAtLeast
  <2> QED  BY <2>2, <2>3
<1>4. \A s \in Symbol : SumFunction(Bought(b, s)) \in Int  BY <1>1, BoughtInt
<1>5. PICK k \in Nat : k = SumFunction(CashOpen(b))  BY <1>2
<1>6. PICK h \in [Symbol -> Nat] : h = [s \in Symbol |-> SumFunction(SaleOpen(b, s))]
  BY <1>3
<1>7. PICK g \in [Symbol -> Int] : g = [s \in Symbol |-> SumFunction(Bought(b, s))]
  BY <1>4
<1>8. w = [b EXCEPT !.cash = k, !.held = h, !.owned = g]  BY <1>5, <1>6, <1>7 DEF Mended
<1> HIDE DEF w
<1>9. /\ w \in Book /\ Alike(w, b) /\ w.cash = k /\ w.held = h /\ w.owned = g
  BY <1>1, <1>8 DEF Book, Alike
<1>10. /\ CashOpen(w) = CashOpen(b)
       /\ \A s : SaleOpen(w, s) = SaleOpen(b, s) /\ Bought(w, s) = Bought(b, s)
  BY <1>9, AlikeSums
<1>11. Plain(w)  BY <1>9, PlainAlike
<1>12. Exact(w)  BY <1>5, <1>6, <1>9, <1>10 DEF Exact
<1>13. Covers(w)
  <2>1. w.cash = SumFunction(CashOpen(w)) /\ w.cash \in Nat  BY <1>9, <1>12 DEF Exact
  <2>2. \A s \in Symbol : w.held[s] = SumFunction(SaleOpen(w, s)) /\ w.held[s] \in Nat
    BY <1>9, <1>12 DEF Exact
  <2> QED  BY <2>1, <2>2 DEF Covers
<1>14. Accounts(w)  BY <1>7, <1>9, <1>10, <1>11 DEF Accounts, Plain
<1>15. Sound(w)  BY <1>11, <1>13, <1>14 DEF Sound, Plain
<1> QED  BY <1>5, <1>6, <1>7, <1>9, <1>12, <1>15 DEF w

\* e and f are c and w after the same change: what agreed agrees
Likewise(c, w, e, f) ==
    /\ e \in Book /\ f \in Book /\ Alike(e, f)
    /\ e.owned = c.owned /\ f.owned = w.owned
    /\ c.cash = w.cash => e.cash = f.cash
    /\ \A s \in Symbol : c.held[s] = w.held[s] => e.held[s] = f.held[s]

LEMMA LikewiseTwice ==
    ASSUME NEW c, NEW w, NEW e, NEW f, NEW g, NEW h, Likewise(c, w, e, f), Likewise(e, f, g, h)
    PROVE  Likewise(c, w, g, h)
BY DEF Likewise

LEMMA ReleaseLike ==
    ASSUME AskedType, NEW c \in Book, NEW w \in Book, Alike(c, w), NEW o \in Order, NEW n \in Nat,
           c.open[o] \in Detail
    PROVE  LET e == Release(c, o, n)
               f == Release(w, o, n)
           IN  Likewise(c, w, e, f) /\ e.open = c.open /\ e.reports = c.reports
<1> DEFINE s == asked[o].symbol
           m == n * c.open[o].price
<1>1. /\ c.cash \in Nat /\ w.cash \in Nat /\ c.held \in [Symbol -> Nat] /\ w.held \in [Symbol -> Nat]
      /\ asked[o].side \in {"buy", "sell"} /\ s \in Symbol /\ w.open = c.open
      /\ c.reports = w.reports /\ m \in Nat
  BY AskedFacts, Products DEF Book, Alike, Detail
<1> HIDE DEF m
<1>2. \A a \in Nat, z \in Nat : Less(a, z) \in Nat  BY DEF Less
<1>3. CASE asked[o].side = "buy"
  <2>1. PICK i \in Nat, j \in Nat : i = Less(c.cash, m) /\ j = Less(w.cash, m)  BY <1>1, <1>2
  <2>2. Release(c, o, n) = [c EXCEPT !.cash = i] /\ Release(w, o, n) = [w EXCEPT !.cash = j]
    BY <1>1, <1>3, <2>1 DEF Release, m
  <2>3. c.cash = w.cash => i = j  BY <2>1
  <2> QED  BY <1>1, <2>2, <2>3, ZenonT(60) DEF Book, Likewise, Alike
<1>4. CASE asked[o].side = "sell"
  <2>1. PICK i \in Nat, j \in Nat : i = Less(c.held[s], n) /\ j = Less(w.held[s], n)
    BY <1>1, <1>2
  <2> DEFINE u == [c.held EXCEPT ![s] = i]
             v == [w.held EXCEPT ![s] = j]
  <2>2. Release(c, o, n) = [c EXCEPT !.held = u] /\ Release(w, o, n) = [w EXCEPT !.held = v]
    BY <1>4, <2>1 DEF Release
  <2>3. /\ u \in [Symbol -> Nat] /\ v \in [Symbol -> Nat]
        /\ \A y \in Symbol : c.held[y] = w.held[y] => u[y] = v[y]
    BY <1>1, <2>1
  <2> HIDE DEF u, v
  <2> QED  BY <1>1, <2>2, <2>3 DEF Book, Likewise, Alike
<1> QED  BY <1>1, <1>3, <1>4

LEMMA ReserveLike ==
    ASSUME AskedType, NEW c \in Book, NEW w \in Book, Alike(c, w), NEW o \in Order,
           NEW d \in Detail
    PROVE  LET e == Reserve(c, o, d)
               f == Reserve(w, o, d)
           IN  Likewise(c, w, e, f) /\ e.open = c.open /\ e.reports = c.reports
<1> DEFINE e == Reserve(c, o, d)
           f == Reserve(w, o, d)
           s == asked[o].symbol
<1>1. asked[o].side \in {"buy", "sell"} /\ s \in Symbol /\ w.open = c.open /\ w.reports = c.reports
  BY AskedFacts DEF Alike
<1>2. /\ e \in Book /\ e.open = c.open /\ e.owned = c.owned /\ e.reports = c.reports
      /\ asked[o].side = "buy" => e.cash = c.cash + d.qty * d.price /\ e.held = c.held
      /\ asked[o].side = "sell" =>
           /\ e.cash = c.cash
           /\ \A v \in Symbol : e.held[v] = c.held[v] + (IF v = s THEN d.qty ELSE 0)
  BY ReserveIs
<1>3. /\ f \in Book /\ f.open = w.open /\ f.owned = w.owned /\ f.reports = w.reports
      /\ asked[o].side = "buy" => f.cash = w.cash + d.qty * d.price /\ f.held = w.held
      /\ asked[o].side = "sell" =>
           /\ f.cash = w.cash
           /\ \A v \in Symbol : f.held[v] = w.held[v] + (IF v = s THEN d.qty ELSE 0)
  BY ReserveIs
<1> HIDE DEF e, f
<1>4. Likewise(c, w, e, f)  BY <1>1, <1>2, <1>3 DEF Likewise, Alike
<1> QED  BY <1>2, <1>4 DEF e, f

LEMMA PutLike ==
    ASSUME NEW c \in Book, NEW w \in Book, Alike(c, w), NEW o \in Order,
           NEW d \in Detail \union {NoOrder}
    PROVE  Likewise(c, w, [c EXCEPT !.open[o] = d], [w EXCEPT !.open[o] = d])
<1> DEFINE e == [c EXCEPT !.open[o] = d]
           f == [w EXCEPT !.open[o] = d]
<1>1. /\ e \in Book /\ e.cash = c.cash /\ e.held = c.held /\ e.owned = c.owned
      /\ e.reports = c.reports
  BY PutIs
<1>2. /\ f \in Book /\ f.cash = w.cash /\ f.held = w.held /\ f.owned = w.owned
      /\ f.reports = w.reports
  BY PutIs
<1>3. e.open = f.open  BY DEF Alike, Book
<1> HIDE DEF e, f
<1>4. Likewise(c, w, e, f)  BY <1>1, <1>2, <1>3 DEF Likewise, Alike
<1> QED  BY <1>4 DEF e, f

LEMMA ReportedLike ==
    ASSUME NEW c \in Book, NEW w \in Book, Alike(c, w), NEW o \in Order,
           NEW kind \in Kind, NEW n \in Nat
    PROVE  Likewise(c, w, Reported(c, o, kind, n), Reported(w, o, kind, n))
<1> DEFINE e == Reported(c, o, kind, n)
           f == Reported(w, o, kind, n)
           r == [order |-> o, kind |-> kind, qty |-> n]
<1>1. /\ e \in Book /\ e.open = c.open /\ e.cash = c.cash /\ e.held = c.held
      /\ e.owned = c.owned /\ e.reports = Append(c.reports, r)
  BY ReportedIs
<1>2. /\ f \in Book /\ f.open = w.open /\ f.cash = w.cash /\ f.held = w.held
      /\ f.owned = w.owned /\ f.reports = Append(w.reports, r)
  BY ReportedIs
<1> HIDE DEF e, f, r
<1>3. Likewise(c, w, e, f)  BY <1>1, <1>2 DEF Likewise, Alike
<1> QED  BY <1>3 DEF e, f

LEMMA PlacedLike ==
    ASSUME AskedType, NEW c \in Book, NEW w \in Book, Alike(c, w), NEW o \in Order
    PROVE  Likewise(c, w, Placed(c, o), Placed(w, o))
<1> DEFINE d == [qty |-> asked[o].qty, left |-> asked[o].qty, filled |-> 0,
                 price |-> asked[o].price, acked |-> FALSE]
           e == Reserve(c, o, d)
           f == Reserve(w, o, d)
<1>1. Placed(c, o) = [e EXCEPT !.open[o] = d] /\ Placed(w, o) = [f EXCEPT !.open[o] = d]
  BY DEF Placed
<1>2. d \in Detail  BY AskedFacts DEF Detail
<1> HIDE DEF d
<1>3. Likewise(c, w, e, f)  BY <1>2, ReserveLike
<1> HIDE DEF e, f
<1>4. Likewise(e, f, [e EXCEPT !.open[o] = d], [f EXCEPT !.open[o] = d])
  BY <1>2, <1>3, PutLike DEF Likewise
<1> QED  BY <1>1, <1>3, <1>4, LikewiseTwice

LEMMA EndedLike ==
    ASSUME AskedType, NEW c \in Book, NEW w \in Book, Alike(c, w), NEW o \in Order,
           NEW kind \in FinalKind, c.open[o] \in Detail
    PROVE  Likewise(c, w, Ended(c, o, kind), Ended(w, o, kind))
<1>1. PICK n \in Nat : n = c.open[o].left  BY DEF Detail
<1>2. w.open = c.open /\ kind \in Kind /\ 0 \in Nat /\ NoOrder \in Detail \union {NoOrder}
  BY DEF Alike, Kind
<1> DEFINE e == Release(c, o, n)
           f == Release(w, o, n)
           g == [e EXCEPT !.open[o] = NoOrder]
           h == [f EXCEPT !.open[o] = NoOrder]
<1>3. /\ Ended(c, o, kind) = Reported(g, o, kind, 0)
      /\ Ended(w, o, kind) = Reported(h, o, kind, 0)
  BY <1>1, <1>2 DEF Ended
<1>4. Likewise(c, w, e, f)  BY ReleaseLike
<1> HIDE DEF e, f
<1>5. Likewise(e, f, g, h)  BY <1>2, <1>4, PutLike DEF Likewise
<1> HIDE DEF g, h
<1>6. Likewise(g, h, Reported(g, o, kind, 0), Reported(h, o, kind, 0))
  BY <1>2, <1>5, ReportedLike DEF Likewise
<1> QED  BY <1>3, <1>4, <1>5, <1>6, LikewiseTwice

LEMMA SettledLike ==
    ASSUME AskedType, NEW c \in Book, NEW w \in Book, Alike(c, w), NEW o \in Order,
           c.open[o] \in Detail
    PROVE  LET n == c.open[o].left
           IN  /\ Likewise(c, w, Settled(c, o, n), Settled(w, o, n))
               /\ Settled(w, o, n) = Reported([Release(w, o, n) EXCEPT !.open[o] = NoOrder],
                                              o, "filled", n)
<1>1. PICK n \in Nat : n = c.open[o].left  BY DEF Detail
<1>2. w.open = c.open /\ "filled" \in Kind /\ NoOrder \in Detail \union {NoOrder}
  BY DEF Alike, Kind, FinalKind
<1> DEFINE e == Release(c, o, n)
           f == Release(w, o, n)
           g == [e EXCEPT !.open[o] = NoOrder]
           h == [f EXCEPT !.open[o] = NoOrder]
<1>3. /\ Settled(c, o, n) = Reported(g, o, "filled", n)
      /\ Settled(w, o, n) = Reported(h, o, "filled", n)
  BY <1>1, <1>2 DEF Settled
<1>4. Likewise(c, w, e, f)  BY ReleaseLike
<1> HIDE DEF e, f
<1>5. Likewise(e, f, g, h)  BY <1>2, <1>4, PutLike DEF Likewise
<1> HIDE DEF g, h
<1>6. Likewise(g, h, Reported(g, o, "filled", n), Reported(h, o, "filled", n))
  BY <1>2, <1>5, ReportedLike DEF Likewise
<1>7. Likewise(c, w, Settled(c, o, n), Settled(w, o, n))
  BY <1>3, <1>4, <1>5, <1>6, LikewiseTwice
<1> QED  BY <1>1, <1>3, <1>7 DEF h, f

LEMMA AcknowledgedLike ==
    ASSUME NEW c \in Book, NEW w \in Book, Alike(c, w), NEW o \in Order, c.open[o] \in Detail
    PROVE  Likewise(c, w, Acknowledged(c, o), Acknowledged(w, o))
<1>1. w.open = c.open /\ "acknowledged" \in Kind /\ 0 \in Nat  BY DEF Alike, Kind
<1>2. CASE c.open[o].acked  BY <1>1, <1>2 DEF Acknowledged, Likewise, Alike
<1>3. CASE ~c.open[o].acked
  <2> DEFINE d == [c.open[o] EXCEPT !.acked = TRUE]
             e == [c EXCEPT !.open[o] = d]
             f == [w EXCEPT !.open[o] = d]
  <2>1. d \in Detail  BY DEF Detail
  <2>2. /\ Acknowledged(c, o) = Reported(e, o, "acknowledged", 0)
        /\ Acknowledged(w, o) = Reported(f, o, "acknowledged", 0)
    BY <1>1, <1>3 DEF Acknowledged, Book
  <2> HIDE DEF d
  <2>3. Likewise(c, w, e, f)  BY <2>1, PutLike
  <2> HIDE DEF e, f
  <2>4. Likewise(e, f, Reported(e, o, "acknowledged", 0), Reported(f, o, "acknowledged", 0))
    BY <1>1, <2>3, ReportedLike DEF Likewise
  <2> QED  BY <2>2, <2>3, <2>4, LikewiseTwice
<1> QED  BY <1>2, <1>3

\* e is c, a book like b, after a change: a reserve that was right is right, a
\* position stays, and so does what the reports say of it
Follows(b, c, e) ==
    /\ c.cash = SumFunction(CashOpen(b)) => e.cash = SumFunction(CashOpen(e))
    /\ \A s \in Symbol :
          /\ c.held[s] = SumFunction(SaleOpen(b, s)) => e.held[s] = SumFunction(SaleOpen(e, s))
          /\ e.owned[s] = c.owned[s]

\* the reports say of each position that it is what the book w says
Tells(e, w) == \A s \in Symbol : SumFunction(Bought(e, s)) = w.owned[s]

\* a change that keeps the mended book sound
LEMMA LikeMended ==
    ASSUME AskedType, NEW b, NEW c, NEW w, NEW e, NEW f, Plain(b),
           w.cash = Mended(b).cash, w.held = Mended(b).held,
           Likewise(c, w, e, f), Sound(f), Exact(f)
    PROVE  Plain(e) /\ Follows(b, c, e) /\ Tells(e, w)
<1>1. /\ Mended(b).cash = SumFunction(CashOpen(b))
      /\ \A s \in Symbol : Mended(b).held[s] = SumFunction(SaleOpen(b, s))
  BY MendedIs
<1>2. e \in Book /\ f \in Book /\ Alike(e, f) /\ f.owned = w.owned /\ e.owned = c.owned
  BY DEF Likewise
<1>3. Plain(e)  BY <1>2, SoundPlain, PlainAlike
<1>4. CashOpen(e) = CashOpen(f) /\ \A s : SaleOpen(e, s) = SaleOpen(f, s) /\ Bought(e, s) = Bought(f, s)
  BY <1>2, AlikeSums
<1>5. Follows(b, c, e)  BY <1>1, <1>2, <1>4 DEF Follows, Likewise, Exact
<1>6. \A s \in Symbol : SumFunction(Bought(e, s)) = w.owned[s]
  BY <1>2, <1>4 DEF Sound, Accounts
<1> QED  BY <1>3, <1>5, <1>6 DEF Tells

LEMMA PlacedOf ==
    ASSUME AskedType, NEW b, Plain(b), NEW c \in Book, Alike(c, b), NEW o \in Order,
           b.open[o] = NoOrder, ReportsOf(b, o) = {}
    PROVE  LET e == Placed(c, o)
           IN  /\ Plain(e) /\ Follows(b, c, e)
               /\ e.open[o] \in Detail /\ ~e.open[o].acked
               /\ e.reports = b.reports /\ \A p \in Order : p # o => e.open[p] = b.open[p]
<1>1. PICK w : w = Mended(b)  OBVIOUS
<1>2. Sound(w) /\ Exact(w) /\ Alike(w, b) /\ w \in Book  BY <1>1, MendedIs
<1>3. w.open = b.open /\ w.reports = b.reports /\ c.open = b.open /\ c.reports = b.reports
  BY <1>2 DEF Alike
<1>4. w.open[o] = NoOrder /\ ReportsOf(w, o) = {}  BY <1>3 DEF ReportsOf
<1>5. PICK e, f : e = Placed(c, o) /\ f = Placed(w, o)  OBVIOUS
<1>6. /\ Sound(f) /\ Exact(f) /\ f.open[o] \in Detail /\ ~f.open[o].acked
      /\ f.reports = w.reports /\ \A p \in Order : p # o => f.open[p] = w.open[p]
  BY <1>2, <1>4, <1>5, PlacedKeeps
<1>7. Likewise(c, w, e, f)  BY <1>2, <1>3, <1>5, PlacedLike DEF Alike
<1>8. Plain(e) /\ Follows(b, c, e)  BY <1>1, <1>6, <1>7, LikeMended
<1>9. e.open = f.open /\ e.reports = f.reports  BY <1>7 DEF Likewise, Alike
<1> QED  BY <1>3, <1>5, <1>6, <1>8, <1>9

LEMMA EndedOf ==
    ASSUME AskedType, NEW b, Plain(b), NEW c \in Book, Alike(c, b), NEW o \in Order,
           NEW kind \in FinalKind, b.open[o] \in Detail
    PROVE  LET e == Ended(c, o, kind)
           IN  /\ Plain(e) /\ Follows(b, c, e)
               /\ \A s \in Symbol : SumFunction(Bought(e, s)) = SumFunction(Bought(b, s))
               /\ e.open[o] = NoOrder /\ \A p \in Order : p # o => e.open[p] = b.open[p]
               /\ e.reports = Append(b.reports, [order |-> o, kind |-> kind, qty |-> 0])
<1>1. PICK w : w = Mended(b)  OBVIOUS
<1>2. /\ Sound(w) /\ Exact(w) /\ Alike(w, b) /\ w \in Book
      /\ \A s \in Symbol : w.owned[s] = SumFunction(Bought(b, s))
  BY <1>1, MendedIs
<1>3. w.open = b.open /\ w.reports = b.reports /\ c.open = b.open /\ c.reports = b.reports
  BY <1>2 DEF Alike
<1>4. PICK e, f : e = Ended(c, o, kind) /\ f = Ended(w, o, kind)  OBVIOUS
<1>5. /\ Sound(f) /\ Exact(f) /\ f.open[o] = NoOrder
      /\ \A p \in Order : p # o => f.open[p] = w.open[p]
      /\ f.reports = Append(w.reports, [order |-> o, kind |-> kind, qty |-> 0])
  BY <1>2, <1>3, <1>4, EndedKeeps
<1>6. Likewise(c, w, e, f)  BY <1>2, <1>3, <1>4, EndedLike DEF Alike
<1>7. Plain(e) /\ Follows(b, c, e) /\ Tells(e, w)  BY <1>1, <1>5, <1>6, LikeMended
<1>8. e.open = f.open /\ e.reports = f.reports  BY <1>6 DEF Likewise, Alike
<1> QED  BY <1>2, <1>3, <1>4, <1>5, <1>7, <1>8 DEF Tells

LEMMA AcknowledgedOf ==
    ASSUME AskedType, NEW b, Plain(b), NEW o \in Order, b.open[o] \in Detail
    PROVE  LET e == Acknowledged(b, o)
           IN  /\ Plain(e) /\ Follows(b, b, e)
               /\ \A s \in Symbol : SumFunction(Bought(e, s)) = SumFunction(Bought(b, s))
               /\ e.open[o] \in Detail /\ e.open[o].acked /\ e.open[o].left = b.open[o].left
               /\ \A p \in Order : p # o => e.open[p] = b.open[p]
               /\ b.open[o].acked => e = b
               /\ ~b.open[o].acked =>
                    e.reports = Append(b.reports,
                                       [order |-> o, kind |-> "acknowledged", qty |-> 0])
<1>1. PICK w : w = Mended(b)  OBVIOUS
<1>2. /\ Sound(w) /\ Exact(w) /\ Alike(w, b) /\ w \in Book /\ b \in Book
      /\ \A s \in Symbol : w.owned[s] = SumFunction(Bought(b, s))
  BY <1>1, MendedIs DEF Plain, BookType
<1>3. w.open = b.open /\ w.reports = b.reports  BY <1>2 DEF Alike
<1>4. PICK e, f : e = Acknowledged(b, o) /\ f = Acknowledged(w, o)  OBVIOUS
<1>5. /\ Sound(f) /\ (Exact(w) => Exact(f))
      /\ f.open[o] \in Detail /\ f.open[o].acked /\ f.open[o].left = w.open[o].left
      /\ \A p \in Order : p # o => f.open[p] = w.open[p]
      /\ ~w.open[o].acked =>
           f.reports = Append(w.reports, [order |-> o, kind |-> "acknowledged", qty |-> 0])
  BY <1>2, <1>3, <1>4, AcknowledgedKeeps
<1>6. Likewise(b, w, e, f)  BY <1>2, <1>3, <1>4, AcknowledgedLike DEF Alike
<1>7. Plain(e) /\ Follows(b, b, e) /\ Tells(e, w)  BY <1>1, <1>2, <1>5, <1>6, LikeMended
<1>8. e.open = f.open /\ e.reports = f.reports  BY <1>6 DEF Likewise, Alike
<1>9. b.open[o].acked => e = b  BY <1>4 DEF Acknowledged
<1> QED  BY <1>2, <1>3, <1>4, <1>5, <1>7, <1>8, <1>9 DEF Tells

\* a fill of the whole order, whose position the executor has written
LEMMA SettledOf ==
    ASSUME AskedType, NEW b, Plain(b), NEW c \in Book, Alike(c, b), NEW o \in Order,
           b.open[o] \in Detail
    PROVE  LET n == b.open[o].left
               e == Settled(c, o, n)
               r == [order |-> o, kind |-> "filled", qty |-> n]
           IN  /\ Plain(e) /\ Follows(b, c, e)
               /\ \A s \in Symbol :
                    SumFunction(Bought(e, s)) = SumFunction(Bought(b, s)) + Gain(r, s)
               /\ e.open[o] = NoOrder /\ \A p \in Order : p # o => e.open[p] = b.open[p]
               /\ e.reports = Append(b.reports, r)
<1>1. PICK w : w = Mended(b)  OBVIOUS
<1>2. /\ Sound(w) /\ Exact(w) /\ Alike(w, b) /\ w \in Book
      /\ \A s \in Symbol : w.owned[s] = SumFunction(Bought(b, s))
  BY <1>1, MendedIs
<1>3. w.open = b.open /\ w.reports = b.reports /\ c.open = b.open /\ c.reports = b.reports
  BY <1>2 DEF Alike
<1>4. PICK n \in Nat \ {0} : n = b.open[o].left  BY DEF Detail
<1>5. PICK v : v = Booked(w, o, n)  OBVIOUS
<1>6. /\ v \in Book /\ v.open = w.open /\ v.cash = w.cash /\ v.held = w.held
      /\ v.reports = w.reports
      /\ \A s \in Symbol : v.owned[s] = w.owned[s] + (IF asked[o].symbol # s THEN 0
                                               ELSE IF asked[o].side = "buy" THEN n ELSE -n)
  BY <1>2, <1>5, BookedIs
<1>7. PICK e, f : e = Settled(c, o, n) /\ f = Filled(w, o, n)  OBVIOUS
<1>8. f = Settled(v, o, n)  BY <1>5, <1>7 DEF Filled
<1>9. PICK r : r = [order |-> o, kind |-> "filled", qty |-> n]  OBVIOUS
<1>10. /\ Sound(f) /\ Exact(f) /\ f.open[o] = NoOrder
       /\ \A p \in Order : p # o => f.open[p] = w.open[p]
       /\ f.reports = Append(w.reports, r)
  <2>1. w.open[o] \in Detail /\ n = w.open[o].left /\ n <= w.open[o].left
    BY <1>3, <1>4
  <2>2. /\ Sound(Filled(w, o, n)) /\ (Exact(w) => Exact(Filled(w, o, n)))
        /\ Filled(w, o, n).open[o] = NoOrder
        /\ \A p \in Order : p # o => Filled(w, o, n).open[p] = w.open[p]
        /\ Filled(w, o, n).reports =
             Append(w.reports, [order |-> o, kind |-> "filled", qty |-> n])
    BY <1>2, <2>1, FilledKeeps
  <2> QED  BY <1>2, <1>7, <1>9, <2>2
<1>11. Likewise(c, v, e, f)
  <2>1. Alike(c, v) /\ c.open[o] \in Detail /\ n = c.open[o].left
    BY <1>3, <1>4, <1>6 DEF Alike
  <2> QED  BY <1>6, <1>7, <1>8, <2>1, SettledLike
<1>12. Plain(e) /\ Follows(b, c, e) /\ Tells(e, v)
  BY <1>1, <1>6, <1>10, <1>11, LikeMended
<1>13. \A s \in Symbol : v.owned[s] = SumFunction(Bought(b, s)) + Gain(r, s)
  BY <1>2, <1>6, <1>9 DEF Gain
<1>14. e.open = f.open /\ e.reports = f.reports  BY <1>11 DEF Likewise, Alike
<1> QED  BY <1>3, <1>4, <1>7, <1>9, <1>10, <1>12, <1>13, <1>14 DEF Tells
-----------------------------------------------------------------------------
(* The invariant of the broker.  The books of one that persists, and so    *)
(* has one caller, are sound in memory and on disk, whatever step a crash  *)
(* follows; those of the router's are sound but for the sums.              *)

Kept(b, n) == Sound(b) /\ (n = 0 => Exact(b))

BooksInv ==
    /\ AskedType
    /\ \A b \in {book, disk} : Plain(b) /\ (config.durable => Kept(b, replaces))

CallsType ==
    /\ config \in [short : BOOLEAN, expiry : BOOLEAN, durable : BOOLEAN]
    /\ queue \subseteq Order
    /\ round \in [on : BOOLEAN, due : SUBSET Order, reported : BOOLEAN]
    /\ round.due \subseteq queue
    /\ replaces \in 0..MaxReplaces /\ crashes \in 0..MaxCrashes

BrokerInv == BooksInv /\ CallsType

\* what is said of a book does not change while nobody asks for anything else
LEMMA SteadySums ==
    ASSUME asked' = asked, NEW b
    PROVE  /\ CashOpen(b)' = CashOpen(b)
           /\ \A s \in Symbol : SaleOpen(b, s)' = SaleOpen(b, s) /\ Bought(b, s)' = Bought(b, s)
BY DEF CashOpen, SaleOpen, Bought, Open

LEMMA SteadySound ==
    ASSUME asked' = asked, NEW b
    PROVE  /\ (Sound(b)' <=> Sound(b)) /\ (Exact(b)' <=> Exact(b))
           /\ (Plain(b)' <=> Plain(b))
<1>1. SumFunction(CashOpen(b))' = SumFunction(CashOpen(b))
  BY SteadySums
<1>2. ASSUME NEW s \in Symbol
      PROVE  /\ SumFunction(SaleOpen(b, s))' = SumFunction(SaleOpen(b, s))
             /\ SumFunction(Bought(b, s))' = SumFunction(Bought(b, s))
  BY SteadySums
<1>3. Covers(b)' <=> Covers(b)  BY <1>1, <1>2 DEF Covers
<1>4. Exact(b)' <=> Exact(b)  BY <1>1, <1>2 DEF Exact
<1>5. Accounts(b)' <=> Accounts(b)  BY <1>2 DEF Accounts
<1>6. Plain(b)' <=> Plain(b)  BY DEF Plain
<1> QED  BY <1>3, <1>4, <1>5, <1>6 DEF Sound

LEMMA BooksChange ==
    ASSUME BooksInv, asked' = asked, config' = config,
           Plain(book'), disk' \in {book', book, disk},
           config.durable => Kept(book', replaces'),
           replaces' = replaces \/ replaces' # 0
    PROVE  BooksInv'
<1>1. PICK c, d : c = book' /\ d = disk'  OBVIOUS
<1>2. AskedType'  BY DEF BooksInv, AskedType
<1>3. Plain(c) /\ Plain(d)  BY <1>1 DEF BooksInv
<1>4. PICK m : m = replaces'  OBVIOUS
<1>5. config.durable => Kept(c, m) /\ Kept(d, m)  BY <1>1, <1>4 DEF BooksInv, Kept
<1>6. Plain(c)' /\ Plain(d)'  BY <1>3, SteadySound
<1>7. config.durable => Kept(c, m)' /\ Kept(d, m)'  BY <1>5, SteadySound DEF Kept
<1>8. config'.durable => Kept(c, replaces)' /\ Kept(d, replaces)'  BY <1>4, <1>7 DEF Kept
<1> QED  BY <1>1, <1>2, <1>6, <1>8 DEF BooksInv

LEMMA BookFacts ==
    ASSUME BooksInv
    PROVE  /\ AskedType /\ Plain(book) /\ book \in Book /\ Len(book.reports) \in Nat
           /\ \A o \in Order : o \in Open(book) <=> book.open[o] \in Detail
           /\ Open(book) \subseteq Order
           /\ config.durable => Sound(book) /\ (replaces = 0 => Exact(book))
<1>1. /\ AskedType /\ Plain(book)
      /\ config.durable => Sound(book) /\ (replaces = 0 => Exact(book))
  BY DEF BooksInv, Kept
<1>2. book \in Book  BY <1>1 DEF Plain, BookType
<1>3. Len(book.reports) \in Nat  BY <1>2 DEF Book
<1>4. \A o \in Order : o \in Open(book) <=> book.open[o] \in Detail  BY <1>2, OpenIs
<1> QED  BY <1>1, <1>2, <1>3, <1>4 DEF Open

\* The calls.
LEMMA SubmitKeeps ==
    ASSUME BrokerInv, NEW o \in Order, NEW b \in Book, Alike(b, book),
           config.durable => b = book, Submit(o, b)
    PROVE  BrokerInv' /\ book'.reports = book.reports
<1>1. /\ AskedType /\ Plain(book)
      /\ config.durable => Sound(book) /\ (replaces = 0 => Exact(book))
  BY BookFacts DEF BrokerInv
<1>2. book.open[o] = NoOrder /\ ReportsOf(book, o) = {}  BY DEF Submit, Unused, Open
<1>3. PICK a, c : a = book /\ c = Placed(b, o)  OBVIOUS
<1>4. Plain(a) /\ a.open[o] = NoOrder /\ ReportsOf(a, o) = {} /\ Alike(b, a)
  BY <1>1, <1>2, <1>3
<1>5. Plain(c) /\ c.reports = book.reports  BY <1>1, <1>3, <1>4, PlacedOf
<1>6. config.durable => Kept(c, replaces)
  <2> HAVE config.durable
  <2>1. Sound(a) /\ c = Placed(a, o) /\ (replaces = 0 => Exact(a))  BY <1>1, <1>3
  <2>2. Sound(c) /\ (Exact(a) => Exact(c))  BY <1>1, <1>4, <2>1, PlacedKeeps
  <2> QED  BY <2>1, <2>2 DEF Kept
<1>7. book' = c /\ disk' \in {book', disk} /\ UNCHANGED <<asked, config, replaces>>
  BY <1>3 DEF Submit, Save
<1>8. BooksInv'  BY <1>5, <1>6, <1>7, BooksChange DEF BrokerInv
<1>9. CallsType'  BY DEF BrokerInv, CallsType, Submit
<1> QED  BY <1>5, <1>7, <1>8, <1>9 DEF BrokerInv

\* an order that ends in a book alike
LEMMA EndedTwice ==
    ASSUME BrokerInv, NEW o \in Order, NEW b \in Book, Alike(b, book),
           config.durable => b = book, book.open[o] \in Detail, NEW k \in FinalKind
    PROVE  Plain(Ended(b, o, k)) /\ (config.durable => Kept(Ended(b, o, k), replaces))
<1>1. /\ AskedType /\ Plain(book)
      /\ config.durable => Sound(book) /\ (replaces = 0 => Exact(book))
  BY BookFacts DEF BrokerInv
<1>2. PICK a, c : a = book /\ c = Ended(b, o, k)  OBVIOUS
<1>3. Plain(a) /\ a.open[o] \in Detail /\ Alike(b, a)  BY <1>1, <1>2
<1>4. Plain(c)  BY <1>1, <1>2, <1>3, EndedOf
<1>5. config.durable => Kept(c, replaces)
  <2> HAVE config.durable
  <2>1. Sound(a) /\ c = Ended(a, o, k) /\ (replaces = 0 => Exact(a))  BY <1>1, <1>2
  <2>2. Sound(c) /\ (Exact(a) => Exact(c))  BY <1>1, <1>3, <2>1, EndedKeeps
  <2> QED  BY <2>1, <2>2 DEF Kept
<1> QED  BY <1>2, <1>4, <1>5

LEMMA CancelKeeps ==
    ASSUME BrokerInv, NEW o \in Order, NEW b \in Book, Alike(b, book),
           config.durable => b = book, Cancel(o, b)
    PROVE  /\ BrokerInv'
           /\ book'.reports = Append(book.reports, [order |-> o, kind |-> "cancelled", qty |-> 0])
           /\ book'.open[o] = NoOrder /\ \A p \in Order : p # o => book'.open[p] = book.open[p]
<1>1. AskedType /\ Plain(book) /\ book.open[o] \in Detail
  BY BookFacts DEF BrokerInv, Cancel
<1>2. PICK k \in FinalKind : k = "cancelled"  BY DEF FinalKind
<1>3. PICK a, c : a = book /\ c = Ended(b, o, k)  OBVIOUS
<1>4. Plain(a) /\ a.open[o] \in Detail /\ Alike(b, a)  BY <1>1, <1>3
<1>5. /\ c.reports = Append(a.reports, [order |-> o, kind |-> k, qty |-> 0])
      /\ c.open[o] = NoOrder /\ \A p \in Order : p # o => c.open[p] = a.open[p]
  BY <1>1, <1>3, <1>4, EndedOf
<1>6. Plain(c) /\ (config.durable => Kept(c, replaces))  BY <1>1, <1>3, EndedTwice
<1>7. book' = c /\ disk' \in {book', disk} /\ UNCHANGED <<asked, config, replaces>>
  BY <1>2, <1>3 DEF Cancel, Save
<1>8. BooksInv'  BY <1>6, <1>7, BooksChange DEF BrokerInv
<1>9. CallsType'  BY DEF BrokerInv, CallsType, Cancel
<1> QED  BY <1>2, <1>3, <1>5, <1>7, <1>8, <1>9 DEF BrokerInv

LEMMA ReplaceKeeps ==
    ASSUME BrokerInv, config.durable, NEW o \in Order, Replace(o)
    PROVE  BrokerInv'
<1>1. AskedType /\ Sound(book) /\ book.open[o] \in Detail
  BY BookFacts DEF BrokerInv, Replace
<1>2. PICK p \in Price \union {book.open[o].price},
             n \in {r.qty : r \in Request} \union {book.open[o].left} :
         ReplaceWith(o, p, n)
  BY DEF Replace
<1>3. p \in Nat /\ n \in Nat \ {0}
  BY <1>1, PriceAssumption, RequestAssumption DEF Detail
<1>4. Sound(book') /\ disk' \in {book', book, disk}
  <2> DEFINE d == [book.open[o] EXCEPT !.qty = book.open[o].filled + n, !.left = n, !.price = p]
             e == Reserve(Release(book, o, book.open[o].left), o, d)
  <2>1. CASE /\ book' = Reported([e EXCEPT !.open[o] = d], o, "replaced", 0)
             /\ Save
    <3>1. Sound(Reported([e EXCEPT !.open[o] = d], o, "replaced", 0))
      BY <1>1, <1>3, ReplacedKeeps
    <3>2. disk' \in {book', disk}  BY <2>1 DEF Save
    <3> QED  BY <2>1, <3>1, <3>2
  <2>2. CASE /\ book' = Reserve(Release(book, o, book.open[o].left), o, book.open[o])
             /\ UNCHANGED disk
    BY <1>1, <2>2, RefusedKeeps
  <2> HIDE DEF d, e
  <2> QED  BY <1>2, <2>1, <2>2 DEF ReplaceWith, d, e
<1>5. replaces' # 0 /\ replaces' \in 0..MaxReplaces
  BY BoundAssumption DEF BrokerInv, CallsType, Replace
<1>6. UNCHANGED <<asked, config>> /\ Plain(book') /\ Kept(book', replaces')
  BY <1>4, <1>5, SoundPlain DEF Replace, Kept
<1>7. BooksInv'  BY <1>4, <1>5, <1>6, BooksChange DEF BrokerInv
<1>8. CallsType'  BY <1>5 DEF BrokerInv, CallsType, Replace
<1> QED  BY <1>7, <1>8 DEF BrokerInv

LEMMA BooksSame ==
    ASSUME BooksInv, UNCHANGED <<asked, config, book, replaces>>, disk' \in {book, disk}
    PROVE  BooksInv'
<1>1. Plain(book) /\ (config.durable => Kept(book, replaces))  BY DEF BooksInv
<1>2. Plain(book') /\ (config.durable => Kept(book', replaces'))  BY <1>1
<1> QED  BY <1>2, BooksChange

\* The steps of a round.
LEMMA BeginRoundKeeps ==
    ASSUME BrokerInv, NEW due \in SUBSET queue, BeginRound(due)
    PROVE  BrokerInv' /\ book' = book
<1>1. BooksInv'  BY BooksSame DEF BrokerInv, BeginRound
<1>2. CallsType'  BY DEF BrokerInv, CallsType, BeginRound
<1> QED  BY <1>1, <1>2 DEF BrokerInv, BeginRound

LEMMA TakeKeeps ==
    ASSUME BrokerInv, NEW o \in Order, NEW b, NEW again, Take(o, b, again),
           Plain(b), config.durable => Kept(b, replaces)
    PROVE  BrokerInv' /\ book' = b
<1>1. book' = b /\ disk' = disk /\ UNCHANGED <<asked, config, replaces>>  BY DEF Take
<1>2. BooksInv'  BY <1>1, BooksChange DEF BrokerInv
<1>3. round'.on = round.on /\ round'.due = round.due \ {o} /\ round'.reported \in BOOLEAN
      /\ round' \in [on : BOOLEAN, due : SUBSET Order, reported : BOOLEAN]
  BY DEF Take, BrokerInv, CallsType
<1>4. queue \ {o} \subseteq queue' /\ queue' \subseteq queue  BY DEF Take
<1>5. CallsType'  BY <1>3, <1>4 DEF BrokerInv, CallsType, Take
<1> QED  BY <1>2, <1>5 DEF BrokerInv, Take

LEMMA TakeGoneKeeps ==
    ASSUME BrokerInv, NEW o \in Order, TakeGone(o)
    PROVE  BrokerInv' /\ book' = book
<1>1. PICK b : b = book  OBVIOUS
<1>2. Plain(b) /\ (config.durable => Kept(b, replaces))  BY <1>1 DEF BrokerInv, BooksInv
<1> QED  BY <1>1, <1>2, TakeKeeps DEF TakeGone

\* the first report on an order that is taken
LEMMA AcknowledgedTwice ==
    ASSUME BrokerInv, NEW o \in Order, book.open[o] \in Detail
    PROVE  LET a == Acknowledged(book, o)
           IN  Plain(a) /\ (config.durable => Kept(a, replaces))
<1>1. /\ AskedType /\ Plain(book)
      /\ config.durable => Sound(book) /\ (replaces = 0 => Exact(book))
  BY BookFacts DEF BrokerInv
<1>2. PICK b, a : b = book /\ a = Acknowledged(b, o)  OBVIOUS
<1>3. Plain(b) /\ b.open[o] \in Detail  BY <1>1, <1>2
<1>4. Plain(a)  BY <1>1, <1>2, <1>3, AcknowledgedOf
<1>5. config.durable => Kept(a, replaces)
  <2> HAVE config.durable
  <2>1. Sound(b) /\ (replaces = 0 => Exact(b))  BY <1>1, <1>2
  <2>2. Sound(a) /\ (Exact(b) => Exact(a))  BY <1>1, <1>2, <1>3, <2>1, AcknowledgedKeeps
  <2> QED  BY <2>1, <2>2 DEF Kept
<1> QED  BY <1>2, <1>4, <1>5

LEMMA TakeUnmatchedKeeps ==
    ASSUME BrokerInv, NEW o \in Order, TakeUnquoted(o) \/ TakeStale(o)
    PROVE  BrokerInv'
<1>1. book.open[o] \in Detail  BY BookFacts DEF BrokerInv, TakeUnquoted, TakeStale
<1>2. PICK b : b = Acknowledged(book, o)  OBVIOUS
<1>3. Plain(b) /\ (config.durable => Kept(b, replaces))  BY <1>1, <1>2, AcknowledgedTwice
<1>4. PICK again \in BOOLEAN : Take(o, b, again)  BY <1>2 DEF TakeUnquoted, TakeStale
<1> QED  BY <1>3, <1>4, TakeKeeps

LEMMA TakeQuotedKeeps ==
    ASSUME BrokerInv, config.durable, NEW o \in Order, NEW n \in Nat, TakeQuoted(o, n),
           book.open[o] \in Detail, n <= book.open[o].left
    PROVE  BrokerInv'
<1>1. AskedType /\ Sound(book) /\ (replaces = 0 => Exact(book))  BY BookFacts DEF BrokerInv
<1>2. PICK b, a : b = book /\ a = Acknowledged(b, o)  OBVIOUS
<1>3. Sound(b) /\ b.open[o] \in Detail /\ n <= b.open[o].left  BY <1>1, <1>2
<1>4. /\ Sound(a) /\ (Exact(b) => Exact(a))
      /\ a.open[o] \in Detail /\ a.open[o].left = b.open[o].left
  BY <1>1, <1>2, <1>3, AcknowledgedKeeps
<1>5. PICK c : c = Matched(a, o, n)  OBVIOUS
<1>6. Sound(c) /\ (Exact(a) => Exact(c))  BY <1>1, <1>3, <1>4, <1>5, MatchedKeeps
<1>7. Kept(c, replaces)  BY <1>1, <1>2, <1>4, <1>6 DEF Kept
<1>8. Take(o, c, TRUE)  BY <1>2, <1>5 DEF TakeQuoted
<1> QED  BY <1>6, <1>7, <1>8, SoundPlain, TakeKeeps

LEMMA ExpireKeeps ==
    ASSUME BrokerInv, NEW o \in Order, Expire(o)
    PROVE  BrokerInv'
<1>1. book.open[o] \in Detail /\ book \in Book /\ Alike(book, book)
  BY BookFacts DEF BrokerInv, Expire, Expires, Alike
<1>2. PICK k \in FinalKind : k = "expired"  BY DEF FinalKind
<1>3. PICK c : c = Ended(book, o, k)  OBVIOUS
<1>4. Plain(c) /\ (config.durable => Kept(c, replaces))  BY <1>1, <1>3, EndedTwice
<1>5. book' = c /\ disk' = disk /\ UNCHANGED <<asked, config, replaces>>
  BY <1>2, <1>3 DEF Expire
<1>6. BooksInv'  BY <1>4, <1>5, BooksChange DEF BrokerInv
<1>7. CallsType'  BY DEF BrokerInv, CallsType, Expire
<1> QED  BY <1>6, <1>7 DEF BrokerInv

LEMMA EndRoundKeeps ==
    ASSUME BrokerInv, EndRound
    PROVE  BrokerInv' /\ book' = book
<1>1. BooksInv'  BY BooksSame DEF BrokerInv, EndRound
<1>2. CallsType'  BY DEF BrokerInv, CallsType, EndRound, NoRound
<1> QED  BY <1>1, <1>2 DEF BrokerInv, EndRound

LEMMA CrashKeeps ==
    ASSUME BrokerInv, CrashAndRestore
    PROVE  BrokerInv'
<1>1. Plain(disk) /\ (config.durable => Kept(disk, replaces))  BY DEF BrokerInv, BooksInv
<1>2. /\ Plain(book') /\ (config.durable => Kept(book', replaces'))
      /\ disk' = disk /\ UNCHANGED <<asked, config, replaces>>
  BY <1>1 DEF CrashAndRestore
<1>3. BooksInv'  BY <1>2, BooksChange DEF BrokerInv
<1>4. crashes' \in 0..MaxCrashes  BY BoundAssumption DEF BrokerInv, CallsType, CrashAndRestore
<1>5. CallsType'  BY <1>4 DEF BrokerInv, CallsType, CrashAndRestore, NoRound, Open
<1> QED  BY <1>3, <1>5 DEF BrokerInv

LEMMA BrokerSame == BrokerInv /\ UNCHANGED broker => BrokerInv'
<1> SUFFICES ASSUME BrokerInv, UNCHANGED broker PROVE BrokerInv'  OBVIOUS
<1>1. BooksInv'  BY BooksSame DEF BrokerInv, broker
<1>2. CallsType'  BY DEF BrokerInv, CallsType, broker
<1> QED  BY <1>1, <1>2 DEF BrokerInv

LEMMA BrokerKeeps == BrokerInv /\ config.durable /\ BrokerNext => BrokerInv'
<1> SUFFICES ASSUME BrokerInv, config.durable, BrokerNext PROVE BrokerInv'  OBVIOUS
<1>1. CASE \E o \in Order : Submit(o, book) \/ Cancel(o, book) \/ Replace(o)
  <2>1. book \in Book /\ Alike(book, book)  BY BookFacts DEF BrokerInv, Alike
  <2> QED  BY <1>1, <2>1, SubmitKeeps, CancelKeeps, ReplaceKeeps
<1>2. CASE \E due \in SUBSET queue : BeginRound(due)  BY <1>2, BeginRoundKeeps
<1>3. CASE \E o \in Order : TakeGone(o) \/ TakeUnquoted(o) \/ TakeStale(o) \/ Expire(o)
  BY <1>3, TakeGoneKeeps, TakeUnmatchedKeeps, ExpireKeeps
<1>4. CASE \E o \in Open(book) : \E n \in 0..book.open[o].left : TakeQuoted(o, n)
  <2>1. PICK o \in Open(book) : \E n \in 0..book.open[o].left : TakeQuoted(o, n)  BY <1>4
  <2>2. o \in Order /\ book.open[o] \in Detail  BY BookFacts DEF BrokerInv
  <2>3. PICK n \in 0..book.open[o].left : TakeQuoted(o, n)  BY <2>1
  <2>4. n \in Nat /\ n <= book.open[o].left  BY <2>2 DEF Detail
  <2> QED  BY <2>2, <2>3, <2>4, TakeQuotedKeeps
<1>5. CASE EndRound  BY <1>5, EndRoundKeeps
<1>6. CASE CrashAndRestore  BY <1>6, CrashKeeps
<1> QED  BY <1>1, <1>2, <1>3, <1>4, <1>5, <1>6 DEF BrokerNext

-----------------------------------------------------------------------------
(* The steps of the router's threads.  Its broker only ever adds reports,  *)
(* which is why a thread may handle its copies of them one after another.  *)

\* c is b after more reports, all of them on o
Added(b, c, o) ==
    /\ Len(b.reports) <= Len(c.reports)
    /\ \A i \in 1..Len(b.reports) : c.reports[i] = b.reports[i]
    /\ \A i \in (Len(b.reports) + 1)..Len(c.reports) : c.reports[i].order = o

LEMMA AppendAdds ==
    ASSUME NEW b \in Book, NEW c \in Book, NEW r \in Report, c.reports = Append(b.reports, r)
    PROVE  Added(b, c, r.order) /\ c.reports[Len(b.reports) + 1] = r
           /\ Len(c.reports) = Len(b.reports) + 1
<1>1. /\ Len(b.reports) \in Nat /\ Len(c.reports) = Len(b.reports) + 1
      /\ c.reports[Len(b.reports) + 1] = r
      /\ \A i \in 1..Len(b.reports) : c.reports[i] = b.reports[i]
  BY DEF Book
<1>2. \A i \in (Len(b.reports) + 1)..Len(c.reports) : i = Len(b.reports) + 1  BY <1>1
<1> QED  BY <1>1, <1>2 DEF Added

LEMMA SameAdds ==
    ASSUME NEW b \in Book, NEW c, NEW o, c.reports = b.reports
    PROVE  Added(b, c, o)
BY DEF Added, Book

LEMMA AddedTwice ==
    ASSUME NEW b \in Book, NEW c \in Book, NEW d \in Book, NEW o, Added(b, c, o), Added(c, d, o)
    PROVE  Added(b, d, o)
<1>1. Len(b.reports) \in Nat /\ Len(c.reports) \in Nat /\ Len(d.reports) \in Nat  BY DEF Book
<1>2. Len(b.reports) <= Len(d.reports)  BY <1>1 DEF Added
<1>3. ASSUME NEW i \in 1..Len(b.reports) PROVE d.reports[i] = b.reports[i]
  <2>1. i \in 1..Len(c.reports)  BY <1>1 DEF Added
  <2> QED  BY <2>1 DEF Added
<1>4. ASSUME NEW i \in (Len(b.reports) + 1)..Len(d.reports) PROVE d.reports[i].order = o
  <2>1. CASE i \in 1..Len(c.reports)
    <3>1. i \in (Len(b.reports) + 1)..Len(c.reports)  BY <1>1, <2>1
    <3> QED  BY <2>1, <3>1 DEF Added
  <2>2. CASE i \notin 1..Len(c.reports)
    <3>1. i \in (Len(c.reports) + 1)..Len(d.reports)  BY <1>1, <2>2
    <3> QED  BY <3>1 DEF Added
  <2> QED  BY <2>1, <2>2
<1> QED  BY <1>2, <1>3, <1>4 DEF Added

\* what was reported and ended stays so, of another order exactly so
LEMMA AddedIs ==
    ASSUME NEW b \in Book, NEW c \in Book, NEW o, Added(b, c, o)
    PROVE  /\ \A p : ReportsOf(b, p) \subseteq ReportsOf(c, p) /\ Ends(b, p) \subseteq Ends(c, p)
           /\ \A p : p # o => ReportsOf(c, p) = ReportsOf(b, p) /\ Ends(c, p) = Ends(b, p)
           /\ \A i \in DOMAIN b.reports : i \in DOMAIN c.reports /\ c.reports[i] = b.reports[i]
<1>1. /\ DOMAIN b.reports = 1..Len(b.reports) /\ Len(b.reports) \in Nat
      /\ DOMAIN c.reports = 1..Len(c.reports) /\ Len(c.reports) \in Nat
  BY DEF Book
<1>2. \A i \in DOMAIN b.reports : i \in DOMAIN c.reports /\ c.reports[i] = b.reports[i]
  BY <1>1 DEF Added
<1>3. \A p : ReportsOf(b, p) \subseteq ReportsOf(c, p)  BY <1>2 DEF ReportsOf
<1>4. \A p : Ends(b, p) \subseteq Ends(c, p)  BY <1>2, <1>3 DEF Ends, ReportsOf
<1>5. ASSUME NEW p, p # o PROVE ReportsOf(c, p) = ReportsOf(b, p)
  <2>1. ASSUME NEW i \in ReportsOf(c, p) PROVE i \in ReportsOf(b, p)
    <3>1. i \in 1..Len(c.reports) /\ c.reports[i].order = p  BY <1>1, <2>1 DEF ReportsOf
    <3>2. i \notin (Len(b.reports) + 1)..Len(c.reports)  BY <1>5, <3>1 DEF Added
    <3>3. i \in DOMAIN b.reports  BY <1>1, <3>1, <3>2
    <3> QED  BY <1>2, <3>1, <3>3 DEF ReportsOf
  <2> QED  BY <1>3, <2>1
<1>6. ASSUME NEW p, p # o PROVE Ends(c, p) = Ends(b, p)
  <2>1. ReportsOf(c, p) = ReportsOf(b, p)  BY <1>5, <1>6
  <2>2. \A i \in ReportsOf(b, p) : c.reports[i] = b.reports[i]  BY <1>2 DEF ReportsOf
  <2> QED  BY <2>1, <2>2 DEF Ends
<1> QED  BY <1>2, <1>3, <1>4, <1>5, <1>6

\* an order that is taken is acknowledged, once
LEMMA TakenIs ==
    ASSUME NEW b, NEW o \in Order, AskedType, Plain(b), b.open[o] \in Detail
    PROVE  LET c == Acknowledged(b, o)
           IN  /\ c \in Book /\ Plain(c) /\ Added(b, c, o)
               /\ c.open[o] \in Detail /\ c.open[o].acked /\ c.open[o].left = b.open[o].left
               /\ \A p \in Order : p # o => c.open[p] = b.open[p]
               /\ b.open[o].acked => c = b
               /\ ~b.open[o].acked => Len(c.reports) > Len(b.reports)
<1>1. PICK c : c = Acknowledged(b, o)  OBVIOUS
<1>2. /\ Plain(c) /\ c.open[o] \in Detail /\ c.open[o].acked /\ c.open[o].left = b.open[o].left
      /\ \A p \in Order : p # o => c.open[p] = b.open[p]
      /\ b.open[o].acked => c = b
      /\ ~b.open[o].acked =>
           c.reports = Append(b.reports, [order |-> o, kind |-> "acknowledged", qty |-> 0])
  BY <1>1, AcknowledgedOf
<1>3. c \in Book /\ b \in Book  BY <1>2 DEF Plain, BookType
<1>4. CASE b.open[o].acked
  <2>1. Added(b, c, o)  BY <1>2, <1>3, <1>4, SameAdds
  <2> QED  BY <1>1, <1>2, <1>3, <1>4, <2>1
<1>5. CASE ~b.open[o].acked
  <2>1. PICK r : r = [order |-> o, kind |-> "acknowledged", qty |-> 0]  OBVIOUS
  <2>2. r \in Report /\ r.order = o  BY <2>1 DEF Report, Kind
  <2>3. c.reports = Append(b.reports, r)  BY <1>2, <1>5, <2>1
  <2>4. Added(b, c, r.order) /\ Len(c.reports) = Len(b.reports) + 1
    BY <1>3, <2>2, <2>3, AppendAdds
  <2>5. Len(b.reports) \in Nat  BY <1>3 DEF Book
  <2>6. Added(b, c, o) /\ Len(c.reports) > Len(b.reports)  BY <2>2, <2>4, <2>5
  <2> QED  BY <1>1, <1>2, <1>3, <1>5, <2>6
<1> QED  BY <1>4, <1>5

TaskRecord == [at : Step, call : {"none", "send", "poll", "cancel"},
               order : Order \union {"none"}, next : Nat, last : Nat, known : BOOLEAN]

\* a thread handles copies of reports that are there, for an order of its own
Handles(x) ==
    /\ x.at # "idle" => x.order \in Order
    /\ x.at \in {"take", "apply"} => x.next \in 1..(x.last + 1) /\ x.last <= Len(book.reports)
    /\ x.at = "apply" => x.next <= x.last

TasksInv == task \in [Thread -> TaskRecord] /\ \A t \in Thread : Handles(task[t])

RouterType ==
    /\ routed \in BOOLEAN
    /\ cursor \in 0..Len(book.reports)
    /\ cache \in [Order -> FinalKind \union {"none", "pending"}]
    /\ {pending, closed, waiting, tried, paid, met} \subseteq SUBSET Order
    /\ released \in [Order -> SUBSET FinalKind]

\* the router's broker does not persist, and what it sends does not lapse; a
\* broker of its own has no router, and nobody else changes its sums
Apart ==
    IF routed THEN ~config.durable /\ \A o \in Order : asked[o].tif = "gtc"
    ELSE /\ config.durable /\ cursor = 0 /\ \A o \in Order : released[o] = {}
         /\ \A t \in Thread : task[t] = Idle /\ copy[t] = NoCopy
         /\ lost = {}

ControlInv == Apart /\ RouterType /\ TasksInv

CopyRecord ==
    [use : Use, order : Order \union {"none"},
     of : [cash : Nat, held : [Symbol -> Nat], owned : [Symbol -> Int]]]
FillUse == {"fill", "booked", "settle"}

\* what fills is a market order
Copied(y) ==
    /\ y \in CopyRecord
    /\ y.use \in FillUse => y.order \in Order /\ asked[y.order].type = "market"

CopyInv ==
    /\ copy \in [Thread -> CopyRecord] /\ \A t \in Thread : Copied(copy[t])
    /\ lost \subseteq Sum

Inv == BrokerInv /\ ControlInv /\ CopyInv /\ ReleasedAsEnded

LEMMA SumsType ==
    ASSUME NEW b \in Book
    PROVE  Sums(b) \in [cash : Nat, held : [Symbol -> Nat], owned : [Symbol -> Int]]
BY DEF Sums, Book

LEMMA NoCopyType == Copied(NoCopy)
<1>1. PICK z : z = Sums(EmptyBook)  OBVIOUS
<1>2. z \in [cash : Nat, held : [Symbol -> Nat], owned : [Symbol -> Int]]
  BY <1>1 DEF Sums, EmptyBook
<1>3. NoCopy = [use |-> "none", order |-> "none", of |-> z]  BY <1>1 DEF NoCopy
<1> QED  BY <1>2, <1>3 DEF Copied, CopyRecord, Use, FillUse

LEMMA CopyStep ==
    ASSUME CopyInv, asked' = asked, NEW t \in Thread, NEW y, Copied(y),
           copy' = [copy EXCEPT ![t] = y], lost' \subseteq Sum
    PROVE  CopyInv'
<1>1. y \in CopyRecord  BY DEF Copied
<1>2. /\ copy' \in [Thread -> CopyRecord] /\ copy'[t] = y
      /\ \A u \in Thread : u # t => copy'[u] = copy[u]
  BY <1>1 DEF CopyInv
<1>3. \A u \in Thread : Copied(copy'[u])  BY <1>2 DEF CopyInv
<1>4. \A u \in Thread : Copied(copy[u])'  BY <1>3 DEF Copied
<1>5. Sum' = Sum  BY DEF Sum
<1> QED  BY <1>2, <1>4, <1>5 DEF CopyInv

LEMMA CopySame ==
    ASSUME CopyInv, asked' = asked, UNCHANGED sums PROVE CopyInv'
<1>1. \A t \in Thread : Copied(copy[t])' <=> Copied(copy[t])  BY DEF Copied, sums
<1> QED  BY <1>1 DEF CopyInv, sums

LEMMA ReadsCopy ==
    ASSUME CopyInv, asked' = asked, book \in Book, NEW t \in Thread, NEW use \in Use,
           NEW o \in Order, use \in FillUse => asked[o].type = "market", Reads(t, use, o)
    PROVE  CopyInv'
<1>1. PICK z : z = Sums(book)  OBVIOUS
<1>2. PICK y : y = [use |-> use, order |-> o, of |-> z]  OBVIOUS
<1>3. z \in [cash : Nat, held : [Symbol -> Nat], owned : [Symbol -> Int]]  BY <1>1, SumsType
<1>4. Copied(y)  BY <1>2, <1>3 DEF Copied, CopyRecord
<1>5. copy' = [copy EXCEPT ![t] = y] /\ lost' = lost  BY <1>1, <1>2 DEF Reads
<1> QED  BY <1>4, <1>5, CopyStep DEF CopyInv

LEMMA WritesCopy ==
    ASSUME CopyInv, asked' = asked, NEW t \in Thread, NEW S \in SUBSET Sum, NEW y, Copied(y),
           Writes(t, S, y)
    PROVE  CopyInv'
<1>1. copy' = [copy EXCEPT ![t] = y] /\ lost' \in {lost, lost \union S}  BY DEF Writes
<1>2. lost' \subseteq Sum  BY <1>1 DEF CopyInv
<1> QED  BY <1>1, <1>2, CopyStep

LEMMA SumsOfIs ==
    ASSUME AskedType, NEW o \in Order
    PROVE  SumsOf(o) \subseteq Sum /\ {asked[o].symbol} \subseteq Sum
BY AskedFacts DEF SumsOf, Sum

\* a book with sums as a thread has read them is a book with the same orders
LEMMA RecalledIs ==
    ASSUME CopyInv, book \in Book, NEW t \in Thread, NEW S
    PROVE  LET c == Recalled(t, S)
           IN  /\ c \in Book /\ Alike(c, book)
               /\ "cash" \notin S => c.cash = book.cash
               /\ \A s \in Symbol : s \notin S => /\ c.held[s] = book.held[s]
                                               /\ c.owned[s] = book.owned[s]
<1>1. PICK z \in [cash : Nat, held : [Symbol -> Nat], owned : [Symbol -> Int]] : z = copy[t].of
  BY DEF CopyInv, CopyRecord
<1> DEFINE k == IF "cash" \in S THEN z.cash ELSE book.cash
           h == [s \in Symbol |-> IF s \in S THEN z.held[s] ELSE book.held[s]]
           g == [s \in Symbol |-> IF s \in S THEN z.owned[s] ELSE book.owned[s]]
<1>2. Recalled(t, S) = [book EXCEPT !.cash = k, !.held = h, !.owned = g]
  BY <1>1 DEF Recalled
<1>3. k \in Nat /\ h \in [Symbol -> Nat] /\ g \in [Symbol -> Int]  BY <1>1 DEF Book
<1>4. /\ "cash" \notin S => k = book.cash
      /\ \A s \in Symbol : s \notin S => h[s] = book.held[s] /\ g[s] = book.owned[s]
  OBVIOUS
<1> HIDE DEF k, h, g
<1> QED  BY <1>2, <1>3, <1>4 DEF Book, Alike

\* A step of the broker that the router takes only adds reports, on one order.
LEMMA MatchKeeps ==
    ASSUME BrokerInv, Apart, routed, NEW o \in Order, Match(o)
    PROVE  BrokerInv' /\ Added(book, book', o)
<1>1. book \in Book  BY BookFacts DEF BrokerInv
<1>2. CASE TakeGone(o)
  <2>1. PICK c : c = book'  OBVIOUS
  <2>2. BrokerInv' /\ c = book  BY <1>2, <2>1, TakeGoneKeeps
  <2>3. Added(book, c, o)  BY <1>1, <2>2, SameAdds
  <2> QED  BY <2>1, <2>2, <2>3
<1>3. CASE o \in Open(book) /\ LegacyFill(o) = 0 /\ TakeQuoted(o, LegacyFill(o))
  <2>1. /\ AskedType /\ Plain(book) /\ book.open[o] \in Detail
        /\ asked[o].tif = "gtc" /\ ~config.durable
    BY <1>3, BookFacts DEF BrokerInv, Apart
  <2>2. PICK b, c : b = book /\ c = Acknowledged(b, o)  OBVIOUS
  <2>3. Plain(c) /\ Added(b, c, o)  BY <2>1, <2>2, TakenIs
  <2>4. Matched(c, o, 0) = c  BY <2>1 DEF Matched
  <2>5. Take(o, c, TRUE)  BY <1>3, <2>2, <2>4 DEF TakeQuoted
  <2>6. BrokerInv' /\ book' = c  BY <2>1, <2>3, <2>5, TakeKeeps
  <2> QED  BY <2>2, <2>3, <2>6
<1> QED  BY <1>2, <1>3 DEF Match

LEMMA ReadToFillKeeps ==
    ASSUME BrokerInv, Apart, routed, NEW o \in Order, ReadToFill(o)
    PROVE  BrokerInv' /\ Added(book, book', o)
<1>1. AskedType /\ Plain(book) /\ book.open[o] \in Detail /\ ~config.durable
  BY BookFacts DEF BrokerInv, Apart, ReadToFill
<1>2. PICK b, c : b = book /\ c = Acknowledged(b, o)  OBVIOUS
<1>3. Plain(c) /\ Added(b, c, o)  BY <1>1, <1>2, TakenIs
<1>4. book' = c /\ disk' = disk /\ UNCHANGED <<asked, config, replaces>>
  BY <1>2 DEF ReadToFill
<1>5. BooksInv'  BY <1>1, <1>3, <1>4, BooksChange DEF BrokerInv
<1>6. CallsType'  BY DEF BrokerInv, CallsType, ReadToFill
<1> QED  BY <1>2, <1>3, <1>4, <1>5, <1>6 DEF BrokerInv

\* how much an open market order fills
LEMMA FillIs ==
    ASSUME BrokerInv, CopyInv, NEW o \in Order, o \in Open(book),
           copy["executor"].use \in FillUse, copy["executor"].order = o
    PROVE  /\ asked[o].type = "market" /\ book.open[o] \in Detail
           /\ LegacyFill(o) = book.open[o].left /\ book.open[o].left \in Nat \ {0}
<1>1. book.open[o] \in Detail  BY BookFacts DEF BrokerInv
<1>2. "executor" \in Thread  BY DEF Thread
<1>3. asked[o].type = "market"  BY <1>2 DEF CopyInv, Copied
<1> QED  BY <1>1, <1>3 DEF LegacyFill, Detail

LEMMA BookFillKeeps ==
    ASSUME BrokerInv, CopyInv, Apart, routed, NEW o \in Order, BookFill(o)
    PROVE  /\ BrokerInv' /\ Added(book, book', o)
           /\ book'.open = book.open /\ book'.reports = book.reports
<1>1. AskedType /\ Plain(book) /\ book \in Book /\ ~config.durable
  BY BookFacts DEF BrokerInv, Apart
<1>2. /\ o \in Open(book) /\ copy["executor"].use \in FillUse /\ copy["executor"].order = o
      /\ "executor" \in Thread
  BY DEF BookFill, Uses, FillUse, Thread
<1>3. PICK n \in Nat : n = LegacyFill(o)  BY <1>2, FillIs
<1>4. PICK c : c = Recalled("executor", {asked[o].symbol})  OBVIOUS
<1>5. c \in Book /\ Alike(c, book)  BY <1>1, <1>2, <1>4, RecalledIs
<1>6. PICK e : e = Booked(c, o, n)  OBVIOUS
<1>7. e \in Book /\ e.open = c.open /\ e.reports = c.reports  BY <1>1, <1>5, <1>6, BookedIs
<1>8. Alike(e, book)  BY <1>5, <1>7 DEF Alike
<1>9. Plain(e)  BY <1>1, <1>7, <1>8, PlainAlike
<1>10. book' = e /\ disk' = disk /\ UNCHANGED <<asked, config, replaces>>
  BY <1>3, <1>4, <1>6 DEF BookFill
<1>11. BooksInv'  BY <1>1, <1>9, <1>10, BooksChange DEF BrokerInv
<1>12. CallsType'  BY DEF BrokerInv, CallsType, BookFill
<1>13. Added(book, e, o)  BY <1>1, <1>8, SameAdds DEF Alike
<1> QED  BY <1>8, <1>10, <1>11, <1>12, <1>13 DEF BrokerInv, Alike

LEMMA SettleFillKeeps ==
    ASSUME BrokerInv, CopyInv, Apart, routed, NEW o \in Order, SettleFill(o)
    PROVE  /\ BrokerInv' /\ Added(book, book', o) /\ Len(book'.reports) > Len(book.reports)
           /\ book'.open[o] = NoOrder
           /\ \A p \in Order : p # o => book'.open[p] = book.open[p]
<1>1. AskedType /\ Plain(book) /\ book \in Book /\ ~config.durable
  BY BookFacts DEF BrokerInv, Apart
<1>2. /\ o \in Open(book) /\ copy["executor"].use \in FillUse /\ copy["executor"].order = o
      /\ "executor" \in Thread
  BY DEF SettleFill, Uses, FillUse, Thread
<1>3. book.open[o] \in Detail /\ LegacyFill(o) = book.open[o].left  BY <1>2, FillIs
<1>4. PICK c : c = Recalled("executor", SumsOf(o))  OBVIOUS
<1>5. c \in Book /\ Alike(c, book)  BY <1>1, <1>2, <1>4, RecalledIs
<1>6. PICK b, n : b = book /\ n = b.open[o].left /\ n \in Nat  BY <1>3 DEF Detail
<1>7. PICK e, r : e = Settled(c, o, n) /\ r = [order |-> o, kind |-> "filled", qty |-> n]
  OBVIOUS
<1>8. Plain(b) /\ Alike(c, b) /\ b.open[o] \in Detail  BY <1>1, <1>3, <1>5, <1>6
<1>9. /\ Plain(e) /\ e.reports = Append(b.reports, r) /\ e.open[o] = NoOrder
      /\ \A p \in Order : p # o => e.open[p] = b.open[p]
  BY <1>1, <1>5, <1>6, <1>7, <1>8, SettledOf, SMTT(30)
<1>10. Take(o, e, TRUE)  BY <1>3, <1>4, <1>6, <1>7 DEF SettleFill
<1>11. BrokerInv' /\ book' = e  BY <1>1, <1>9, <1>10, TakeKeeps
<1>12. r \in Report /\ r.order = o  BY <1>6, <1>7 DEF Report, Kind, FinalKind
<1>13. e \in Book  BY <1>9 DEF Plain, BookType
<1>14. b \in Book /\ Len(b.reports) \in Nat  BY <1>1, <1>6 DEF Book
<1>15. Added(b, e, r.order) /\ Len(e.reports) = Len(b.reports) + 1
  BY <1>9, <1>12, <1>13, <1>14, AppendAdds
<1> QED  BY <1>6, <1>9, <1>11, <1>12, <1>14, <1>15

\* The router's own variables.
LEMMA TasksSame ==
    ASSUME TasksInv, Len(book.reports) <= Len(book'.reports), UNCHANGED task,
           Len(book.reports) \in Nat, Len(book'.reports) \in Nat
    PROVE  TasksInv'
BY DEF TasksInv, TaskRecord, Handles

LEMMA TasksStep ==
    ASSUME TasksInv, Len(book.reports) <= Len(book'.reports),
           Len(book.reports) \in Nat, Len(book'.reports) \in Nat,
           NEW t \in Thread, NEW x \in TaskRecord, Handles(x), task' = [task EXCEPT ![t] = x]
    PROVE  TasksInv' /\ task'[t] = x /\ \A u \in Thread : u # t => task'[u] = task[u]
<1>1. \A u \in Thread : task[u] \in TaskRecord /\ Handles(task[u])  BY DEF TasksInv
<1>2. /\ task' \in [Thread -> TaskRecord] /\ task'[t] = x
      /\ \A u \in Thread : u # t => task'[u] = task[u]
  BY DEF TasksInv
<1>3. ASSUME NEW y \in TaskRecord, Handles(y) PROVE Handles(y)'
  BY <1>3 DEF Handles, TaskRecord
<1>4. ASSUME NEW u \in Thread PROVE Handles(task[u])'
  <2>1. PICK y : y = task'[u]  OBVIOUS
  <2>2. y \in TaskRecord /\ Handles(y)  BY <1>1, <1>2, <2>1
  <2>3. Handles(y)'  BY <1>3, <2>2
  <2> QED  BY <2>1, <2>3 DEF Handles
<1> QED  BY <1>2, <1>4 DEF TasksInv

\* an end that is recorded is one that the broker reports
LEMMA ReleasedStep ==
    ASSUME BrokerInv, BrokerInv', ReleasedAsEnded, NEW p, Added(book, book', p),
           released \in [Order -> SUBSET FinalKind],
           \/ released' = released
           \/ \E o \in Order, k \in FinalKind :
                 /\ released' = [released EXCEPT ![o] = @ \union {k}]
                 /\ \E i \in Ends(book', o) : book'.reports[i].kind = k
    PROVE  ReleasedAsEnded'
<1>1. PICK c : c = book'  OBVIOUS
<1>2. book \in Book /\ c \in Book
  <2>1. Plain(book)'  BY DEF BrokerInv, BooksInv
  <2>2. book' \in Book  BY <2>1 DEF Plain, BookType, Book, Detail, Report
  <2> QED  BY <1>1, <2>2, BookFacts DEF BrokerInv
<1>3. /\ \A o : Ends(book, o) \subseteq Ends(c, o)
      /\ \A i \in DOMAIN book.reports : c.reports[i] = book.reports[i]
  BY <1>1, <1>2, AddedIs
<1>4. ASSUME NEW o \in Order, NEW k \in FinalKind, k \in released[o]
      PROVE  \E i \in Ends(c, o) : c.reports[i].kind = k
  <2>1. PICK i \in Ends(book, o) : book.reports[i].kind = k  BY <1>4 DEF ReleasedAsEnded
  <2>2. i \in DOMAIN book.reports  BY DEF Ends, ReportsOf
  <2> QED  BY <1>3, <2>1, <2>2
<1>5. ASSUME NEW o \in Order, NEW k \in FinalKind, k \in released'[o]
      PROVE  \E i \in Ends(c, o) : c.reports[i].kind = k
  BY <1>1, <1>4, <1>5
<1>6. \A o : Ends(book, o)' = Ends(c, o)  BY <1>1 DEF Ends, ReportsOf
<1> QED  BY <1>1, <1>5, <1>6 DEF ReleasedAsEnded

LEMMA ReportsLonger ==
    ASSUME BrokerInv, BrokerInv', NEW p, Added(book, book', p)
    PROVE  /\ book \in Book /\ book' \in Book
           /\ Len(book.reports) \in Nat /\ Len(book'.reports) \in Nat
           /\ Len(book.reports) <= Len(book'.reports)
<1>1. Plain(book)'  BY DEF BrokerInv, BooksInv
<1>2. book' \in Book  BY <1>1 DEF Plain, BookType, Book, Detail, Report
<1>3. book \in Book  BY BookFacts DEF BrokerInv
<1> QED  BY <1>2, <1>3 DEF Book, Added

LEMMA InvStep ==
    ASSUME Inv, routed, UNCHANGED <<asked, config, routed>>, BrokerInv', CopyInv',
           NEW p, Added(book, book', p), RouterType', TasksInv',
           \/ released' = released
           \/ \E o \in Order, k \in FinalKind :
                 /\ released' = [released EXCEPT ![o] = @ \union {k}]
                 /\ \E i \in Ends(book', o) : book'.reports[i].kind = k
    PROVE  Inv'
<1>1. Apart'  BY DEF Apart, Inv, ControlInv
<1>2. ReleasedAsEnded'  BY ReleasedStep DEF Inv, ControlInv, RouterType
<1> QED  BY <1>1, <1>2 DEF Inv, ControlInv

\* a step that leaves the broker alone
LEMMA Rests ==
    ASSUME Inv, UNCHANGED broker
    PROVE  /\ BrokerInv' /\ UNCHANGED <<asked, config>> /\ Added(book, book', "none")
           /\ Len(book.reports) \in Nat /\ Len(book'.reports) = Len(book.reports)
<1>1. BrokerInv' /\ UNCHANGED <<asked, config>> /\ book' = book  BY BrokerSame DEF Inv, broker
<1>2. book \in Book  BY BookFacts DEF Inv, BrokerInv
<1>3. PICK c : c = book'  OBVIOUS
<1>4. Added(book, c, "none")  BY <1>1, <1>2, <1>3, SameAdds
<1> QED  BY <1>1, <1>2, <1>3, <1>4 DEF Book

\* a thread that goes on to another step
LEMMA GoesOn ==
    ASSUME Inv, NEW t \in Thread, NEW at \in Step, Goes(t, at),
           at \notin {"take", "apply"}, at # "idle", task[t].at # "idle",
           BrokerInv', NEW p, Added(book, book', p)
    PROVE  TasksInv' /\ \A u \in Thread : u # t => task'[u] = task[u]
<1> DEFINE x == [task[t] EXCEPT !.at = at]
<1>1. task[t] \in TaskRecord /\ Handles(task[t])  BY DEF Inv, ControlInv, TasksInv
<1>2. x \in TaskRecord /\ x.at = at /\ x.order = task[t].order  BY <1>1 DEF TaskRecord
<1>3. task' = [task EXCEPT ![t] = x]  BY DEF Goes
<1> HIDE DEF x
<1>4. Handles(x)  BY <1>1, <1>2 DEF Handles
<1>5. /\ Len(book.reports) \in Nat /\ Len(book'.reports) \in Nat
      /\ Len(book.reports) <= Len(book'.reports)
  BY ReportsLonger DEF Inv
<1> QED  BY <1>2, <1>3, <1>4, <1>5, TasksStep DEF Inv, ControlInv

\* a call for which a thread has read the sums
LEMMA CallsOf ==
    ASSUME Inv, routed, NEW t \in Thread, NEW o \in Order, NEW S
    PROVE  /\ Submit(o, Recalled(t, S)) => BrokerInv' /\ book'.reports = book.reports
           /\ Cancel(o, Recalled(t, S)) =>
                /\ BrokerInv' /\ book'.open[o] = NoOrder
                /\ \A p \in Order : p # o => book'.open[p] = book.open[p]
                /\ book'.reports =
                      Append(book.reports, [order |-> o, kind |-> "cancelled", qty |-> 0])
<1>1. book \in Book /\ ~config.durable  BY BookFacts DEF Inv, BrokerInv, ControlInv, Apart
<1>2. PICK c : c = Recalled(t, S)  OBVIOUS
<1>3. c \in Book /\ Alike(c, book)  BY <1>1, <1>2, RecalledIs DEF Inv
<1>4. Submit(o, c) => BrokerInv' /\ book'.reports = book.reports
  BY <1>1, <1>3, SubmitKeeps DEF Inv
<1>5. Cancel(o, c) =>
        /\ BrokerInv' /\ book'.open[o] = NoOrder
        /\ \A p \in Order : p # o => book'.open[p] = book.open[p]
        /\ book'.reports = Append(book.reports, [order |-> o, kind |-> "cancelled", qty |-> 0])
  BY <1>1, <1>3, CancelKeeps DEF Inv
<1> QED  BY <1>2, <1>4, <1>5

LEMMA SendInv == ASSUME Inv, routed, UNCHANGED routed, NEW o \in Order, Send(o) PROVE Inv'
<1>1. BrokerInv' /\ book'.reports = book.reports
  <2>1. Submit(o, Recalled("executor", SumsOf(o))) /\ "executor" \in Thread
    BY DEF Send, Thread
  <2> QED  BY <2>1, CallsOf
<1>2. book \in Book  BY BookFacts DEF Inv, BrokerInv
<1>3. PICK c : c = book'  OBVIOUS
<1>4. Added(book, c, o)  BY <1>1, <1>2, <1>3, SameAdds
<1>5. /\ Len(book.reports) \in Nat /\ Len(book'.reports) \in Nat
      /\ Len(book.reports) <= Len(book'.reports)
  BY <1>1, <1>2 DEF Book
<1> DEFINE x == [Idle EXCEPT !.at = "drive", !.call = "send", !.order = o]
<1>6. x \in TaskRecord /\ Handles(x)  BY DEF TaskRecord, Handles, Idle, Step
<1>7. task' = [task EXCEPT !["executor"] = x]  BY DEF Send
<1> HIDE DEF x
<1>8. "executor" \in Thread  BY DEF Thread
<1>9. TasksInv'  BY <1>5, <1>6, <1>7, <1>8, TasksStep DEF Inv, ControlInv
<1>10. RouterType'
  BY <1>1, <1>5 DEF Send, Inv, ControlInv, RouterType, Meets
<1>11. UNCHANGED <<asked, config, released>>  BY DEF Send, Submit
<1>12. CopyInv'
  <2>1. SumsOf(o) \subseteq Sum  BY SumsOfIs, BookFacts DEF Inv, BrokerInv
  <2>2. PICK S \in SUBSET Sum : Writes("executor", S, NoCopy)  BY <2>1 DEF Send
  <2> QED  BY <1>8, <1>11, <2>2, NoCopyType, WritesCopy DEF Inv
<1> QED  BY <1>1, <1>3, <1>4, <1>9, <1>10, <1>11, <1>12, InvStep

LEMMA DriveInv ==
    ASSUME Inv, routed, UNCHANGED routed, NEW due \in SUBSET queue, Drive(due) PROVE Inv'
<1>1. BrokerInv' /\ book' = book  BY BeginRoundKeeps DEF Drive, Inv
<1>2. book \in Book  BY BookFacts DEF Inv, BrokerInv
<1>3. PICK c : c = book'  OBVIOUS
<1>4. Added(book, c, "none")  BY <1>1, <1>2, <1>3, SameAdds
<1>5. "executor" \in Thread /\ "match" \in Step  BY DEF Thread, Step
<1>6. TasksInv'  BY <1>1, <1>3, <1>4, <1>5, GoesOn DEF Drive
<1>7. RouterType'  BY <1>1 DEF Drive, Inv, ControlInv, RouterType
<1>8. UNCHANGED <<asked, config, released>> /\ CopyInv'
  BY CopySame DEF Drive, BeginRound, Inv
<1> QED  BY <1>1, <1>3, <1>4, <1>6, <1>7, <1>8, InvStep

\* a step of the round
LEMMA RoundInv ==
    ASSUME Inv, routed, UNCHANGED routed, UNCHANGED router, UNCHANGED <<asked, config>>,
           BrokerInv', CopyInv', NEW p, Added(book, book', p)
    PROVE  Inv'
<1>1. /\ Len(book.reports) \in Nat /\ Len(book'.reports) \in Nat
      /\ Len(book.reports) <= Len(book'.reports)
  BY ReportsLonger DEF Inv
<1>2. TasksInv'  BY <1>1, TasksSame DEF Inv, ControlInv, router
<1>3. RouterType'  BY <1>1 DEF Inv, ControlInv, RouterType, router
<1>4. UNCHANGED released  BY DEF router
<1> QED  BY <1>2, <1>3, <1>4, InvStep

LEMMA MatchInv ==
    ASSUME Inv, routed, UNCHANGED routed, NEW o \in Order, Match(o) PROVE Inv'
<1>1. BrokerInv' /\ Added(book, book', o)  BY MatchKeeps DEF Inv, ControlInv
<1>2. UNCHANGED router /\ UNCHANGED sums /\ UNCHANGED <<asked, config>>
  BY DEF Match, TakeGone, TakeQuoted, Take
<1>3. CopyInv'  BY <1>2, CopySame DEF Inv
<1> QED  BY <1>1, <1>2, <1>3, RoundInv

LEMMA ReadToFillInv ==
    ASSUME Inv, routed, UNCHANGED routed, NEW o \in Order, ReadToFill(o) PROVE Inv'
<1>1. BrokerInv' /\ Added(book, book', o)  BY ReadToFillKeeps DEF Inv, ControlInv
<1>2. /\ UNCHANGED router /\ UNCHANGED <<asked, config>> /\ Reads("executor", "fill", o)
      /\ "fill" \in Use /\ "executor" \in Thread
  BY DEF ReadToFill, router, Use, Thread
<1>3. asked[o].type = "market"  BY DEF ReadToFill, LegacyFill
<1>4. CopyInv'  BY <1>2, <1>3, BookFacts, ReadsCopy DEF Inv, BrokerInv
<1> QED  BY <1>1, <1>2, <1>4, RoundInv

LEMMA BookFillInv ==
    ASSUME Inv, routed, UNCHANGED routed, NEW o \in Order, BookFill(o) PROVE Inv'
<1>1. BrokerInv' /\ Added(book, book', o)  BY BookFillKeeps DEF Inv, ControlInv
<1>2. PICK y : y = [NoCopy EXCEPT !.use = "booked", !.order = o]  OBVIOUS
<1>3. /\ UNCHANGED router /\ UNCHANGED <<asked, config>> /\ "executor" \in Thread
      /\ Writes("executor", {asked[o].symbol}, y)
      /\ copy["executor"].use = "fill" /\ copy["executor"].order = o
  BY <1>2 DEF BookFill, router, Thread, Uses
<1>4. Copied(y)
  <2>1. y \in CopyRecord /\ y.order = o
    <3>1. NoCopy \in CopyRecord  BY NoCopyType DEF Copied
    <3> QED  BY <1>2, <3>1 DEF CopyRecord, Use
  <2>2. asked[o].type = "market"  BY <1>3 DEF Inv, CopyInv, Copied, FillUse
  <2> QED  BY <2>1, <2>2 DEF Copied
<1>5. {asked[o].symbol} \in SUBSET Sum  BY SumsOfIs, BookFacts DEF Inv, BrokerInv
<1>6. CopyInv'  BY <1>3, <1>4, <1>5, WritesCopy DEF Inv
<1> QED  BY <1>1, <1>3, <1>6, RoundInv

LEMMA SettleFillInv ==
    ASSUME Inv, routed, UNCHANGED routed, NEW o \in Order, SettleFill(o) PROVE Inv'
<1>1. BrokerInv' /\ Added(book, book', o)  BY SettleFillKeeps DEF Inv, ControlInv
<1>2. /\ UNCHANGED router /\ UNCHANGED <<asked, config>> /\ "executor" \in Thread
      /\ Writes("executor", SumsOf(o), NoCopy)
  BY DEF SettleFill, Take, Thread
<1>3. PICK S \in SUBSET Sum : Writes("executor", S, NoCopy)
  BY <1>2, SumsOfIs, BookFacts DEF Inv, BrokerInv
<1>4. CopyInv'  BY <1>2, <1>3, NoCopyType, WritesCopy DEF Inv
<1> QED  BY <1>1, <1>2, <1>4, RoundInv

\* A thread reads the sums.
LEMMA ReadsInv ==
    ASSUME Inv, routed, UNCHANGED routed, UNCHANGED <<broker, router>>, CopyInv' PROVE Inv'
<1>1. BrokerInv' /\ UNCHANGED <<asked, config>> /\ Added(book, book', "none")  BY Rests
<1> QED  BY <1>1, RoundInv

LEMMA ReadInv ==
    ASSUME Inv, routed, UNCHANGED routed,
           \/ \E o \in Order : ReadToReserve(o) \/ ReadToSettle(o)
           \/ \E t \in Watcher : ReadToRelease(t)
    PROVE  Inv'
<1>1. UNCHANGED <<broker, router>> /\ asked' = asked
  BY DEF ReadToReserve, ReadToSettle, ReadToRelease, broker
<1>2. book \in Book  BY BookFacts DEF Inv, BrokerInv
<1>3. "executor" \in Thread /\ \A t \in Watcher : t \in Thread  BY DEF Thread
<1>4. CASE \E o \in Order : ReadToReserve(o)
  <2>1. PICK o \in Order : Reads("executor", "reserve", o)  BY <1>4 DEF ReadToReserve
  <2>2. "reserve" \in Use /\ "reserve" \notin FillUse  BY DEF Use, FillUse
  <2>3. CopyInv'  BY <1>1, <1>2, <1>3, <2>1, <2>2, ReadsCopy DEF Inv
  <2> QED  BY <1>1, <2>3, ReadsInv
<1>5. CASE \E o \in Order : ReadToSettle(o)
  <2>1. PICK o \in Order : /\ Reads("executor", "settle", o)
                           /\ copy["executor"].use = "booked" /\ copy["executor"].order = o
    BY <1>5 DEF ReadToSettle, Uses
  <2>2. "settle" \in Use /\ "booked" \in FillUse  BY DEF Use, FillUse
  <2>3. asked[o].type = "market"  BY <1>3, <2>1, <2>2 DEF Inv, CopyInv, Copied
  <2>4. CopyInv'  BY <1>1, <1>2, <1>3, <2>1, <2>2, <2>3, ReadsCopy DEF Inv
  <2> QED  BY <1>1, <2>4, ReadsInv
<1>6. CASE \E t \in Watcher : ReadToRelease(t)
  <2>1. PICK t \in Watcher : Reads(t, "release", task[t].order) /\ task[t].at = "cancel"
    BY <1>6 DEF ReadToRelease
  <2>2. task[t].order \in Order  BY <1>3, <2>1 DEF Inv, ControlInv, TasksInv, Handles
  <2>3. "release" \in Use /\ "release" \notin FillUse  BY DEF Use, FillUse
  <2>4. CopyInv'  BY <1>1, <1>2, <1>3, <2>1, <2>2, <2>3, ReadsCopy DEF Inv
  <2> QED  BY <1>1, <2>4, ReadsInv
<1> QED  BY <1>4, <1>5, <1>6

LEMMA DrivenInv == ASSUME Inv, routed, UNCHANGED routed, Driven PROVE Inv'
<1>1. BrokerInv' /\ book' = book  BY EndRoundKeeps DEF Driven, Inv
<1>2. book \in Book  BY BookFacts DEF Inv, BrokerInv
<1>3. PICK c : c = book'  OBVIOUS
<1>4. Added(book, c, "none")  BY <1>1, <1>2, <1>3, SameAdds
<1>5. "executor" \in Thread /\ "sync" \in Step  BY DEF Thread, Step
<1>6. TasksInv'  BY <1>1, <1>3, <1>4, <1>5, GoesOn DEF Driven
<1>7. RouterType'  BY <1>1 DEF Driven, Inv, ControlInv, RouterType
<1>8. UNCHANGED <<asked, config, released>> /\ CopyInv'
  BY CopySame DEF Driven, EndRound, Inv
<1> QED  BY <1>1, <1>3, <1>4, <1>6, <1>7, <1>8, InvStep

\* The remaining steps of a thread leave the broker alone, but for a cancel.
LEMMA TaskOf ==
    ASSUME Inv, UNCHANGED broker, NEW t \in Thread, NEW x \in TaskRecord, Handles(x),
           task' = [task EXCEPT ![t] = x]
    PROVE  TasksInv' /\ task'[t] = x /\ \A u \in Thread : u # t => task'[u] = task[u]
<1>1. /\ Len(book.reports) \in Nat /\ Len(book'.reports) \in Nat
      /\ Len(book.reports) <= Len(book'.reports)
  BY Rests
<1> QED  BY <1>1, TasksStep DEF Inv, ControlInv

LEMMA RestsInv ==
    ASSUME Inv, routed, UNCHANGED routed, UNCHANGED <<broker, sums>>, RouterType', TasksInv',
           \/ released' = released
           \/ \E o \in Order, k \in FinalKind :
                 /\ released' = [released EXCEPT ![o] = @ \union {k}]
                 /\ \E i \in Ends(book, o) : book.reports[i].kind = k
    PROVE  Inv'
<1>1. BrokerInv' /\ UNCHANGED <<asked, config>> /\ Added(book, book', "none")  BY Rests
<1>2. book' = book /\ CopyInv'  BY <1>1, CopySame DEF broker, Inv
<1>3. \/ released' = released
      \/ \E o \in Order, k \in FinalKind :
            /\ released' = [released EXCEPT ![o] = @ \union {k}]
            /\ \E i \in Ends(book', o) : book'.reports[i].kind = k
  BY <1>2
<1> QED  BY <1>1, <1>2, <1>3, InvStep

LEMMA ReturnInv == ASSUME Inv, routed, UNCHANGED routed, Return PROVE Inv'
<1>1. "executor" \in Thread  BY DEF Thread
<1>2. Idle \in TaskRecord /\ Handles(Idle)  BY DEF Idle, TaskRecord, Handles, Step
<1>3. TasksInv'  BY <1>1, <1>2, TaskOf DEF Return
<1>4. task["executor"].order \in Order  BY <1>1 DEF Return, Inv, ControlInv, TasksInv, Handles
<1>5. book' = book  BY DEF Return, broker
<1>6. RouterType'  BY <1>4, <1>5 DEF Return, Inv, ControlInv, RouterType
<1>7. released' = released /\ UNCHANGED <<broker, sums>>  BY DEF Return
<1> QED  BY <1>3, <1>6, <1>7, RestsInv

LEMMA GoesTask ==
    ASSUME Inv, NEW t \in Thread, NEW at \in Step, Goes(t, at)
    PROVE  \E x \in TaskRecord :
             /\ task' = [task EXCEPT ![t] = x] /\ x.at = at
             /\ x.call = task[t].call /\ x.order = task[t].order /\ x.next = task[t].next
             /\ x.last = task[t].last /\ x.known = task[t].known
<1> DEFINE x == [task[t] EXCEPT !.at = at]
<1>1. task[t] \in TaskRecord  BY DEF Inv, ControlInv, TasksInv
<1>2. /\ x \in TaskRecord /\ x.at = at
      /\ x.call = task[t].call /\ x.order = task[t].order /\ x.next = task[t].next
      /\ x.last = task[t].last /\ x.known = task[t].known
  BY <1>1 DEF TaskRecord
<1>3. task' = [task EXCEPT ![t] = x]  BY DEF Goes
<1> QED  BY <1>2, <1>3

LEMMA SyncReadTask ==
    ASSUME Inv, NEW t \in Thread, SyncRead(t)
    PROVE  \E x \in TaskRecord :
             /\ task' = [task EXCEPT ![t] = x] /\ Handles(x)
             /\ x.call = task[t].call /\ x.order = task[t].order /\ x.known = task[t].known
             /\ IF cursor < Len(book.reports)
                THEN x.at = "take" /\ x.next = cursor + 1 /\ x.last = Len(book.reports)
                ELSE x.at = IF task[t].call = "cancel" THEN "mark" ELSE "look"
<1>1. task[t] \in TaskRecord /\ Handles(task[t]) /\ task[t].at = "sync"
  BY DEF SyncRead, Inv, ControlInv, TasksInv
<1>2. Len(book.reports) \in Nat /\ cursor \in 0..Len(book.reports)
  BY BookFacts DEF Inv, BrokerInv, ControlInv, RouterType
<1>3. CASE cursor < Len(book.reports)
  <2> DEFINE x == [task[t] EXCEPT !.at = "take", !.next = cursor + 1,
                                  !.last = Len(book.reports)]
  <2>1. PICK n \in Nat, m \in Nat : n = cursor + 1 /\ m = Len(book.reports)
    <3>1. cursor + 1 \in Nat /\ Len(book.reports) \in Nat  BY <1>2
    <3> QED  BY <3>1, Zenon
  <2>2. x = [task[t] EXCEPT !.at = "take", !.next = n, !.last = m]  BY <2>1
  <2>3. /\ x \in TaskRecord /\ x.at = "take" /\ x.next = n /\ x.last = m
        /\ x.call = task[t].call /\ x.order = task[t].order /\ x.known = task[t].known
    BY <1>1, <2>2 DEF TaskRecord, Step
  <2>4. task' = [task EXCEPT ![t] = x]  BY <1>3 DEF SyncRead
  <2> HIDE DEF x
  <2>5. Handles(x)  BY <1>1, <1>2, <1>3, <2>1, <2>3 DEF Handles
  <2> QED  BY <1>3, <2>1, <2>3, <2>4, <2>5
<1>4. CASE ~(cursor < Len(book.reports))
  <2>1. PICK at \in {"mark", "look"} :
           Goes(t, at) /\ at = IF task[t].call = "cancel" THEN "mark" ELSE "look"
    BY <1>4 DEF SyncRead
  <2>2. at \in Step  BY DEF Step
  <2>3. PICK x \in TaskRecord :
           /\ task' = [task EXCEPT ![t] = x] /\ x.at = at
           /\ x.call = task[t].call /\ x.order = task[t].order /\ x.known = task[t].known
    BY <2>1, <2>2, GoesTask
  <2>4. Handles(x)  BY <1>1, <2>1, <2>3 DEF Handles
  <2> QED  BY <1>4, <2>1, <2>3, <2>4
<1> QED  BY <1>3, <1>4

LEMMA SyncReadInv ==
    ASSUME Inv, routed, UNCHANGED routed, NEW t \in Thread, SyncRead(t) PROVE Inv'
<1>1. task[t] \in TaskRecord /\ Handles(task[t]) /\ task[t].at = "sync"
  BY DEF SyncRead, Inv, ControlInv, TasksInv
<1>2. Len(book.reports) \in Nat /\ cursor \in 0..Len(book.reports)
  BY BookFacts DEF Inv, BrokerInv, ControlInv, RouterType
<1>3. UNCHANGED broker /\ UNCHANGED sums /\ book' = book /\ released' = released  BY DEF SyncRead, broker
<1>4. TasksInv'  BY <1>3, SyncReadTask, TaskOf
<1>5. met' \subseteq Order
  <2>1. \A u \in Thread : Busy(u) => task[u].order \in Order
    BY DEF Busy, Inv, ControlInv, TasksInv, Handles
  <2> QED  BY <2>1 DEF SyncRead, Inv, ControlInv, RouterType
<1>6. RouterType'  BY <1>3, <1>5 DEF SyncRead, Inv, ControlInv, RouterType
<1> QED  BY <1>3, <1>4, <1>6, RestsInv

LEMMA SyncTakeTask ==
    ASSUME Inv, NEW t \in Thread, SyncTake(t)
    PROVE  \E x \in TaskRecord :
             /\ task' = [task EXCEPT ![t] = x] /\ Handles(x)
             /\ x.call = task[t].call /\ x.order = task[t].order /\ x.at = "apply"
             /\ x.next = task[t].next /\ x.last = task[t].last
             /\ x.known <=> book.reports[x.next].order \in pending
<1>1. task[t] \in TaskRecord /\ Handles(task[t])  BY DEF Inv, ControlInv, TasksInv
<1> DEFINE k == book.reports[task[t].next].order \in pending
           x == [task[t] EXCEPT !.at = "apply", !.known = k]
<1>2. k \in BOOLEAN  OBVIOUS
<1> HIDE DEF k
<1>3. /\ x \in TaskRecord /\ x.at = "apply" /\ x.next = task[t].next /\ x.last = task[t].last
      /\ x.call = task[t].call /\ x.order = task[t].order /\ x.known = k
  BY <1>1, <1>2 DEF TaskRecord, Step
<1>4. task' = [task EXCEPT ![t] = x]  BY DEF SyncTake, k
<1> HIDE DEF x
<1>5. Handles(x)  BY <1>1, <1>3 DEF SyncTake, Handles
<1>6. x.known <=> book.reports[x.next].order \in pending  BY <1>3 DEF k
<1> QED  BY <1>3, <1>4, <1>5, <1>6

LEMMA SyncTakeInv ==
    ASSUME Inv, routed, UNCHANGED routed, NEW t \in Thread, SyncTake(t) PROVE Inv'
<1>1. UNCHANGED broker /\ UNCHANGED sums /\ book' = book /\ released' = released  BY DEF SyncTake, broker
<1>2. TasksInv'  BY <1>1, SyncTakeTask, TaskOf
<1>3. RouterType'  BY <1>1 DEF SyncTake, Inv, ControlInv, RouterType
<1> QED  BY <1>1, <1>2, <1>3, RestsInv

LEMMA SyncEndInv ==
    ASSUME Inv, routed, UNCHANGED routed, NEW t \in Thread, SyncEnd(t) PROVE Inv'
<1>1. UNCHANGED broker /\ UNCHANGED sums /\ book' = book /\ released' = released  BY DEF SyncEnd, broker
<1>2. PICK at \in {"mark", "look"} : Goes(t, at)  BY DEF SyncEnd
<1>3. at \in Step /\ task[t].at = "take"  BY DEF Step, SyncEnd
<1>4. BrokerInv' /\ Added(book, book', "none") /\ Len(book.reports) \in Nat  BY <1>1, Rests
<1>5. TasksInv'  BY <1>2, <1>3, <1>4, GoesOn
<1>6. RouterType'  BY <1>1, <1>4 DEF SyncEnd, Inv, ControlInv, RouterType
<1> QED  BY <1>1, <1>5, <1>6, RestsInv

\* The report a thread applies is there, and on an order.
LEMMA ApplyFacts ==
    ASSUME Inv, NEW t \in Thread, task[t].at = "apply"
    PROVE  LET i == task[t].next
               r == book.reports[i]
           IN  /\ i \in DOMAIN book.reports /\ r \in Report
               /\ i \in ReportsOf(book, r.order)
               /\ r.kind \in FinalKind => i \in Ends(book, r.order)
<1>1. book \in Book /\ task[t] \in TaskRecord /\ Handles(task[t])
  BY BookFacts DEF Inv, BrokerInv, ControlInv, TasksInv
<1>2. PICK i : i = task[t].next  OBVIOUS
<1>3. i \in 1..Len(book.reports)
  <2>1. Len(book.reports) \in Nat /\ task[t].last \in Nat /\ i \in Nat
    BY <1>1, <1>2 DEF Book, TaskRecord
  <2> QED  BY <1>1, <1>2, <2>1 DEF Handles
<1>4. i \in DOMAIN book.reports /\ book.reports[i] \in Report  BY <1>1, <1>3 DEF Book
<1>5. i \in ReportsOf(book, book.reports[i].order)  BY <1>4 DEF ReportsOf
<1>6. book.reports[i].kind \in FinalKind => i \in Ends(book, book.reports[i].order)
  BY <1>5 DEF Ends
<1> QED  BY <1>2, <1>4, <1>5, <1>6

LEMMA SyncApplyTask ==
    ASSUME Inv, NEW t \in Thread, SyncApply(t)
    PROVE  \E x \in TaskRecord :
             /\ task' = [task EXCEPT ![t] = x] /\ Handles(x)
             /\ x.call = task[t].call /\ x.order = task[t].order /\ x.at = "take"
             /\ x.next = task[t].next + 1 /\ x.last = task[t].last
<1>1. task[t] \in TaskRecord /\ Handles(task[t]) /\ task[t].at = "apply"
  BY DEF SyncApply, Inv, ControlInv, TasksInv
<1> DEFINE x == [task[t] EXCEPT !.at = "take", !.next = @ + 1]
<1>2. task[t].next \in Nat /\ task[t].last \in Nat  BY <1>1 DEF TaskRecord
<1>3. PICK n \in Nat : n = task[t].next + 1  BY <1>2
<1>4. x = [task[t] EXCEPT !.at = "take", !.next = n]  BY <1>3
<1>5. /\ x \in TaskRecord /\ x.at = "take" /\ x.next = n /\ x.last = task[t].last
      /\ x.call = task[t].call /\ x.order = task[t].order
  BY <1>1, <1>4 DEF TaskRecord, Step
<1>6. task' = [task EXCEPT ![t] = x]  BY DEF SyncApply
<1> HIDE DEF x
<1>7. Handles(x)  BY <1>1, <1>2, <1>3, <1>5 DEF Handles
<1> QED  BY <1>3, <1>5, <1>6, <1>7

LEMMA SyncApplyInv ==
    ASSUME Inv, routed, UNCHANGED routed, NEW t \in Thread, SyncApply(t) PROVE Inv'
<1>1. task[t] \in TaskRecord /\ Handles(task[t]) /\ task[t].at = "apply"
  BY DEF SyncApply, Inv, ControlInv, TasksInv
<1>2. UNCHANGED broker /\ UNCHANGED sums /\ book' = book  BY DEF SyncApply, broker
<1>3. PICK i : i = task[t].next  OBVIOUS
<1>4. PICK r \in Report : r = book.reports[i]  BY <1>1, <1>3, ApplyFacts
<1>5. r.kind \in FinalKind => i \in Ends(book, r.order)  BY <1>1, <1>3, <1>4, ApplyFacts
<1>6. r.order \in Order /\ r.kind \in Kind  BY DEF Report
<1>7. TasksInv'  BY <1>2, SyncApplyTask, TaskOf
<1>8. /\ cache' = [cache EXCEPT ![r.order] = IF r.kind \in FinalKind THEN r.kind ELSE "pending"]
      /\ closed' = IF r.kind \in FinalKind THEN closed \union {r.order} ELSE closed
      /\ pending' = IF r.kind \in FinalKind THEN pending \ {r.order} ELSE pending
      /\ released' = Recorded(r, task[t].known)
      /\ UNCHANGED <<cursor, waiting, tried, paid, met>>
  BY <1>3, <1>4 DEF SyncApply
<1>9. \/ released' = released
      \/ \E o \in Order, k \in FinalKind :
            /\ released' = [released EXCEPT ![o] = @ \union {k}]
            /\ \E j \in Ends(book, o) : book.reports[j].kind = k
  BY <1>4, <1>5, <1>6, <1>8 DEF Recorded
<1>10. released' \in [Order -> SUBSET FinalKind]
  BY <1>9 DEF Inv, ControlInv, RouterType
<1>11. cache' \in [Order -> FinalKind \union {"none", "pending"}]
  BY <1>6, <1>8 DEF Inv, ControlInv, RouterType
<1>12. RouterType'
  BY <1>2, <1>6, <1>8, <1>10, <1>11 DEF Inv, ControlInv, RouterType
<1> QED  BY <1>2, <1>7, <1>9, <1>12, RestsInv

LEMMA PollInv ==
    ASSUME Inv, routed, UNCHANGED routed, NEW t \in Watcher, NEW o \in Order, Poll(t, o)
    PROVE  Inv'
<1>1. UNCHANGED broker /\ UNCHANGED sums /\ book' = book /\ released' = released /\ t \in Thread
  BY DEF Poll, broker, Thread
<1>2. TasksInv'
  <2>1. CASE UNCHANGED task
    <3>1. Len(book.reports) \in Nat /\ Len(book'.reports) = Len(book.reports)  BY <1>1, Rests
    <3>2. Len(book.reports) <= Len(book'.reports)  BY <3>1
    <3> QED  BY <2>1, <3>1, <3>2, TasksSame DEF Inv, ControlInv
  <2> DEFINE x == [Idle EXCEPT !.at = "sync", !.call = "poll", !.order = o]
  <2>2. CASE task' = [task EXCEPT ![t] = x]
    <3>1. x \in TaskRecord /\ Handles(x)  BY DEF TaskRecord, Handles, Idle, Step
    <3> HIDE DEF x
    <3> QED  BY <1>1, <2>2, <3>1, TaskOf
  <2> QED  BY <2>1, <2>2 DEF Poll
<1>3. RouterType'  BY <1>1 DEF Poll, Inv, ControlInv, RouterType
<1> QED  BY <1>1, <1>2, <1>3, RestsInv

LEMMA ClaimInv ==
    ASSUME Inv, routed, UNCHANGED routed, NEW t \in Watcher, NEW o \in Order, Claim(t, o)
    PROVE  Inv'
<1>1. UNCHANGED broker /\ UNCHANGED sums /\ book' = book /\ released' = released /\ t \in Thread
  BY DEF Claim, broker, Thread
<1> DEFINE k == o \in pending
           x == [Idle EXCEPT !.at = "cancel", !.call = "cancel", !.order = o, !.known = k]
<1>2. k \in BOOLEAN  OBVIOUS
<1> HIDE DEF k
<1>3. TasksInv'
  <2>1. x \in TaskRecord /\ Handles(x)  BY <1>2 DEF TaskRecord, Handles, Idle, Step
  <2>2. task' = [task EXCEPT ![t] = x]  BY DEF Claim, k
  <2> HIDE DEF x
  <2> QED  BY <1>1, <2>1, <2>2, TaskOf
<1>4. RouterType'  BY <1>1 DEF Claim, Inv, ControlInv, RouterType, Meets
<1> QED  BY <1>1, <1>3, <1>4, RestsInv

LEMMA CancelOpenInv ==
    ASSUME Inv, routed, UNCHANGED routed, NEW t \in Watcher, CancelOpen(t) PROVE Inv'
<1>1. PICK o : o = task[t].order  OBVIOUS
<1>2. /\ t \in Thread /\ task[t].at = "cancel" /\ Cancel(o, Recalled(t, SumsOf(o)))
      /\ Writes(t, SumsOf(o), NoCopy)
  BY <1>1 DEF CancelOpen, Thread
<1>3. o \in Order  BY <1>1, <1>2 DEF Inv, ControlInv, TasksInv, Handles
<1>4. /\ BrokerInv'
      /\ book'.reports = Append(book.reports, [order |-> o, kind |-> "cancelled", qty |-> 0])
  BY <1>2, <1>3, CallsOf
<1>5. PICK r : r = [order |-> o, kind |-> "cancelled", qty |-> 0]  OBVIOUS
<1>6. r \in Report /\ r.order = o /\ r.kind = "cancelled" /\ r.kind \in FinalKind
  BY <1>3, <1>5 DEF Report, Kind, FinalKind
<1>7. PICK c : c = book'  OBVIOUS
<1>8. book \in Book /\ c \in Book
  <2>1. Plain(book)'  BY <1>4 DEF BrokerInv, BooksInv
  <2>2. book' \in Book  BY <2>1 DEF Plain, BookType, Book, Detail, Report
  <2> QED  BY <1>7, <2>2, BookFacts DEF Inv, BrokerInv
<1>9. Added(book, c, o) /\ c.reports[Len(book.reports) + 1] = r
      /\ Len(c.reports) = Len(book.reports) + 1
  BY <1>4, <1>5, <1>6, <1>7, <1>8, AppendAdds
<1>10. \E i \in Ends(c, o) : c.reports[i].kind = "cancelled"
  <2>1. Len(c.reports) \in DOMAIN c.reports  BY <1>8, <1>9 DEF Book
  <2> QED  BY <1>6, <1>9, <2>1 DEF Ends, ReportsOf
<1>11. Goes(t, "sync") /\ "sync" \in Step  BY DEF CancelOpen, Step
<1>12. TasksInv'  BY <1>2, <1>4, <1>7, <1>9, <1>11, GoesOn
<1>13. \/ released' = released
       \/ \E p \in Order, k \in FinalKind :
             /\ released' = [released EXCEPT ![p] = @ \union {k}]
             /\ \E i \in Ends(book', p) : book'.reports[i].kind = k
  BY <1>1, <1>3, <1>6, <1>7, <1>10 DEF CancelOpen
<1>14. RouterType'
  <2>1. Len(book.reports) \in Nat /\ Len(book'.reports) = Len(book.reports) + 1
    BY <1>7, <1>8, <1>9 DEF Book
  <2>2. released' \in [Order -> SUBSET FinalKind]  BY <1>13 DEF Inv, ControlInv, RouterType
  <2> QED  BY <2>1, <2>2 DEF CancelOpen, Inv, ControlInv, RouterType
<1>15. UNCHANGED <<asked, config>>  BY DEF CancelOpen, Cancel
<1>16. CopyInv'
  <2>1. PICK S \in SUBSET Sum : Writes(t, S, NoCopy)
    BY <1>2, <1>3, SumsOfIs, BookFacts DEF Inv, BrokerInv
  <2> QED  BY <1>2, <1>15, <2>1, NoCopyType, WritesCopy DEF Inv
<1> QED  BY <1>4, <1>7, <1>9, <1>12, <1>13, <1>14, <1>15, <1>16, InvStep

LEMMA CancelGoneInv ==
    ASSUME Inv, routed, UNCHANGED routed, NEW t \in Watcher, CancelGone(t) PROVE Inv'
<1>1. UNCHANGED broker /\ UNCHANGED sums /\ book' = book /\ released' = released /\ t \in Thread
  BY DEF CancelGone, broker, Thread
<1>2. Goes(t, "mark") /\ "mark" \in Step /\ task[t].at = "cancel"  BY DEF CancelGone, Step
<1>3. BrokerInv' /\ Added(book, book', "none")  BY <1>1, Rests
<1>4. TasksInv'  BY <1>1, <1>2, <1>3, GoesOn
<1>5. RouterType'  BY <1>1 DEF CancelGone, Inv, ControlInv, RouterType
<1> QED  BY <1>1, <1>4, <1>5, RestsInv

LEMMA MarkInv ==
    ASSUME Inv, routed, UNCHANGED routed, NEW t \in Watcher, Mark(t) PROVE Inv'
<1>1. UNCHANGED broker /\ UNCHANGED sums /\ book' = book /\ released' = released /\ t \in Thread
  BY DEF Mark, broker, Thread
<1>2. task[t] \in TaskRecord /\ Handles(task[t]) /\ task[t].at = "mark"
  BY <1>1 DEF Mark, Inv, ControlInv, TasksInv
<1> DEFINE x == [task[t] EXCEPT !.at = "sync", !.call = "poll"]
<1>3. x \in TaskRecord /\ x.at = "sync" /\ x.order = task[t].order
  BY <1>2 DEF TaskRecord, Step
<1>4. task' = [task EXCEPT ![t] = x]  BY DEF Mark
<1> HIDE DEF x
<1>5. Handles(x)  BY <1>2, <1>3 DEF Handles
<1>6. TasksInv'  BY <1>1, <1>3, <1>4, <1>5, TaskOf
<1>7. cache' \in [Order -> FinalKind \union {"none", "pending"}]
  BY DEF Mark, Inv, ControlInv, RouterType, FinalKind
<1>8. RouterType'  BY <1>1, <1>7 DEF Mark, Inv, ControlInv, RouterType
<1> QED  BY <1>1, <1>6, <1>8, RestsInv

LEMMA LookInv ==
    ASSUME Inv, routed, UNCHANGED routed, NEW t \in Watcher, Look(t) PROVE Inv'
<1>1. UNCHANGED broker /\ UNCHANGED sums /\ book' = book /\ released' = released /\ t \in Thread
  BY DEF Look, broker, Thread
<1>2. Idle \in TaskRecord /\ Handles(Idle)  BY DEF Idle, TaskRecord, Handles, Step
<1>3. TasksInv'  BY <1>1, <1>2, TaskOf DEF Look
<1>4. RouterType'  BY <1>1 DEF Look, Inv, ControlInv, RouterType
<1> QED  BY <1>1, <1>3, <1>4, RestsInv

-----------------------------------------------------------------------------
(* The invariant, and what it says of the system.                          *)

LEMMA InitInv == Init => Inv
<1> SUFFICES ASSUME Init PROVE Inv  OBVIOUS
<1>1. AskedType /\ asked \in [Order -> Request]  BY DEF Init, BrokerInit, AskedType
<1>2. Sound(EmptyBook) /\ Exact(EmptyBook)  BY <1>1, EmptyIs
<1>3. BooksInv
  <2>1. Plain(EmptyBook) /\ Kept(EmptyBook, replaces)  BY <1>2, SoundPlain DEF Kept
  <2> QED  BY <1>1, <2>1 DEF Init, BrokerInit, BooksInv
<1>4. CallsType  BY BoundAssumption DEF Init, BrokerInit, CallsType, NoRound
<1>5. Len(book.reports) = 0  BY DEF Init, BrokerInit, EmptyBook
<1>6. Apart /\ RouterType
  <2>1. /\ routed \in BOOLEAN /\ cursor = 0 /\ lost = {}
        /\ \A o \in Order : released[o] = {}
        /\ \A t \in Thread : task[t] = Idle /\ copy[t] = NoCopy
    BY DEF Init
  <2>2. IF routed
        THEN /\ config = [short |-> TRUE, expiry |-> FALSE, durable |-> FALSE]
             /\ \A o \in Order :
                   /\ asked[o].tif = "gtc"
                   /\ asked[o].type = "market" => asked[o].price = 0
        ELSE config.expiry /\ config.durable
    BY DEF Init
  <2>3. Apart
    <3> HIDE DEF Idle, NoCopy
    <3>1. CASE routed
      <4>1. config = [short |-> TRUE, expiry |-> FALSE, durable |-> FALSE]  BY <2>2, <3>1
      <4>2. ~config.durable  BY <4>1
      <4>3. \A o \in Order : asked[o].tif = "gtc"  BY <2>2, <3>1
      <4> QED  BY <3>1, <4>2, <4>3 DEF Apart
    <3>2. CASE ~routed
      <4>1. config.durable  BY <2>2, <3>2
      <4> QED  BY <2>1, <3>2, <4>1 DEF Apart
    <3> QED  BY <3>1, <3>2
  <2> QED  BY <1>5, <2>1, <2>3 DEF Init, RouterType
<1>7. Idle \in TaskRecord /\ Handles(Idle)  BY DEF Idle, TaskRecord, Handles, Step
<1>8. TasksInv  BY <1>7 DEF Init, TasksInv
<1>9. ReleasedAsEnded  BY DEF Init, ReleasedAsEnded
<1>10. CopyInv
  <2>1. Copied(NoCopy) /\ NoCopy \in CopyRecord  BY NoCopyType DEF Copied
  <2> HIDE DEF NoCopy
  <2> QED  BY <2>1 DEF Init, CopyInv
<1> QED  BY <1>3, <1>4, <1>6, <1>8, <1>9, <1>10 DEF Inv, BrokerInv, ControlInv

LEMMA WatchersInv ==
    ASSUME Inv, routed, UNCHANGED routed,
           \/ \E t \in Watcher, o \in Order : Poll(t, o) \/ Claim(t, o)
           \/ \E t \in Watcher : CancelOpen(t) \/ CancelGone(t) \/ Mark(t) \/ Look(t)
    PROVE  Inv'
BY PollInv, ClaimInv, CancelOpenInv, CancelGoneInv, MarkInv, LookInv

LEMMA RoutedInv == ASSUME Inv, routed, UNCHANGED routed, Routed PROVE Inv'
<1>1. CASE \E o \in Order : \/ Send(o) \/ Match(o) \/ ReadToFill(o)
                           \/ BookFill(o) \/ SettleFill(o)
  BY <1>1, SendInv, MatchInv, ReadToFillInv, BookFillInv, SettleFillInv
<1>2. CASE \/ \E o \in Order : ReadToReserve(o) \/ ReadToSettle(o)
           \/ \E t \in Watcher : ReadToRelease(t)
  BY <1>2, ReadInv
<1>3. CASE \E due \in SUBSET queue : Drive(due)  BY <1>3, DriveInv
<1>4. CASE Driven \/ Return  BY <1>4, DrivenInv, ReturnInv
<1>5. CASE \E t \in Thread : SyncRead(t) \/ SyncTake(t) \/ SyncApply(t) \/ SyncEnd(t)
  BY <1>5, SyncReadInv, SyncTakeInv, SyncApplyInv, SyncEndInv
<1>6. CASE \/ \E t \in Watcher, o \in Order : Poll(t, o) \/ Claim(t, o)
           \/ \E t \in Watcher : CancelOpen(t) \/ CancelGone(t) \/ Mark(t) \/ Look(t)
  BY <1>6, WatchersInv
<1> QED  BY <1>1, <1>2, <1>3, <1>4, <1>5, <1>6 DEF Routed

\* A broker of its own keeps it whatever its caller does; the router then stays
\* as it was.
LEMMA UnroutedInv ==
    ASSUME Inv, ~routed, UNCHANGED <<routed, router, sums>>, UNCHANGED <<asked, config>>,
           BrokerInv'
    PROVE  Inv'
<1>1. /\ cursor' = 0 /\ \A o \in Order : released'[o] = {}
      /\ Apart' /\ \A t \in Thread : task'[t] = Idle
  BY DEF Inv, ControlInv, Apart, router, sums
<1>2. Plain(book)'  BY DEF BrokerInv, BooksInv
<1>3. book' \in Book  BY <1>2 DEF Plain, BookType, Book, Detail, Report
<1>4. Len(book'.reports) \in Nat  BY <1>3 DEF Book
<1>5. RouterType'  BY <1>1, <1>4 DEF Inv, ControlInv, RouterType, router
<1>6. ReleasedAsEnded'  BY <1>1 DEF ReleasedAsEnded
<1>7. TasksInv'  BY <1>1 DEF Inv, ControlInv, TasksInv, router, Handles, Idle
<1>8. CopyInv'  BY CopySame DEF Inv
<1> QED  BY <1>1, <1>5, <1>6, <1>7, <1>8 DEF Inv, ControlInv

\* nobody asks for anything else, and the configuration stays
LEMMA BrokerAsks == BrokerNext => UNCHANGED <<asked, config>>
BY DEF BrokerNext, Submit, Cancel, Replace, BeginRound, TakeGone, TakeUnquoted, TakeStale,
       Expire, TakeQuoted, Take, EndRound, CrashAndRestore

LEMMA NextInv == Inv /\ [Next]_vars => Inv'
<1> SUFFICES ASSUME Inv, [Next]_vars PROVE Inv'  OBVIOUS
<1>1. CASE Next
  <2>1. UNCHANGED routed  BY <1>1 DEF Next
  <2>2. CASE routed  BY <1>1, <2>1, <2>2, RoutedInv DEF Next
  <2>3. CASE ~routed
    <3>1. BrokerNext /\ UNCHANGED router /\ UNCHANGED sums  BY <1>1, <2>3 DEF Next
    <3>2. BrokerInv'  BY <2>3, <3>1, BrokerKeeps DEF Inv, ControlInv, Apart
    <3> QED  BY <2>1, <2>3, <3>1, <3>2, BrokerAsks, UnroutedInv
  <2> QED  BY <2>2, <2>3
<1>2. CASE UNCHANGED vars
  <2>1. UNCHANGED broker /\ UNCHANGED <<routed, router>> /\ book' = book
    BY <1>2 DEF vars, broker
  <2>2. BrokerInv'  BY <2>1, BrokerSame DEF Inv
  <2>3. UNCHANGED <<asked, config, cursor, cache, pending, closed, waiting, tried, paid, met,
                    released, task, routed, book, copy, lost>>
    BY <1>2, <2>1 DEF vars, broker, router, sums
  <2>4. ControlInv'
    BY <2>3 DEF Inv, ControlInv, Apart, RouterType, TasksInv, Handles
  <2>5. ReleasedAsEnded'  BY <2>3 DEF Inv, ReleasedAsEnded, Ends, ReportsOf
  <2>6. CopyInv'  BY <2>3, CopySame DEF Inv, sums
  <2> QED  BY <2>2, <2>4, <2>5, <2>6 DEF Inv
<1> QED  BY <1>1, <1>2

THEOREM Invariance == Spec => []Inv
BY InitInv, NextInv, PTL DEF Spec

LEMMA InvType == Inv => TypeOK
<1> SUFFICES ASSUME Inv PROVE TypeOK  OBVIOUS
<1>1. ASSUME NEW b \in {book, disk}
      PROVE  /\ \A o \in Open(b) :
                   /\ b.open[o].filled + b.open[o].left = b.open[o].qty
                   /\ b.open[o].left > 0 /\ b.open[o].filled >= 0
             /\ b.cash >= 0 /\ \A s \in Symbol : b.held[s] >= 0 /\ b.owned[s] \in Int
             /\ \A i \in DOMAIN b.reports : b.reports[i].kind \in Kind
  <2>1. BookType(b) /\ b \in Book  BY DEF Inv, BrokerInv, BooksInv, Plain, BookType
  <2>2. ASSUME NEW o \in Open(b)
        PROVE  /\ b.open[o].filled + b.open[o].left = b.open[o].qty
               /\ b.open[o].left > 0 /\ b.open[o].filled >= 0
    <3>1. b.open[o] \in Detail  BY <2>1, OpenIs DEF Open
    <3>2. b.open[o].left \in Nat \ {0} /\ b.open[o].filled \in Nat  BY <3>1 DEF Detail
    <3> QED  BY <2>1, <3>2 DEF BookType
  <2>3. b.cash \in Nat /\ \A s \in Symbol : b.held[s] \in Nat /\ b.owned[s] \in Int
    BY <2>1 DEF Book
  <2>4. \A i \in DOMAIN b.reports : b.reports[i].kind \in Kind
    <3>1. b.reports \in Seq(Report)  BY <2>1 DEF Book
    <3>2. \A i \in DOMAIN b.reports : b.reports[i] \in Report  BY <3>1
    <3> QED  BY <3>2 DEF Report
  <2> QED  BY <2>2, <2>3, <2>4
<1>2. asked \in [Order -> Request]  BY DEF Inv, BrokerInv, BooksInv, AskedType
<1>3. /\ config \in [short : BOOLEAN, expiry : BOOLEAN, durable : BOOLEAN]
      /\ queue \subseteq Order /\ round.due \subseteq queue
      /\ replaces \in 0..MaxReplaces /\ crashes \in 0..MaxCrashes
  BY DEF Inv, BrokerInv, CallsType
<1>4. /\ routed \in BOOLEAN /\ cursor \in 0..Len(book.reports)
      /\ cache \in [Order -> FinalKind \union {"none", "pending"}]
      /\ {pending, closed, waiting, tried, paid, met} \subseteq SUBSET Order
      /\ released \in [Order -> SUBSET FinalKind]
  BY DEF Inv, ControlInv, RouterType
<1>5. task \in [Thread -> TaskRecord]  BY DEF Inv, ControlInv, TasksInv
<1>6. copy \in [Thread -> CopyRecord] /\ lost \subseteq Sum  BY DEF Inv, CopyInv
<1> QED  BY <1>1, <1>2, <1>3, <1>4, <1>5, <1>6 DEF TypeOK, TaskRecord, CopyRecord

\* Every variable holds values of its type: no call takes more than is left of
\* an order, and no reserve falls below zero.
THEOREM TypeCorrect == Spec => []TypeOK
BY Invariance, InvType, PTL

\* An order ends once, its end is its last report, and it is open until then.
THEOREM EndsOnceHolds == Spec => []EndsOnce
<1>1. Inv => EndsOnce
  BY DEF Inv, BrokerInv, BooksInv, Plain, OneEnd, EndsOnce
<1> QED  BY <1>1, Invariance, PTL

\* Only an end that the broker reports is recorded on a reservation, however the
\* threads that handle the reports and cancel the orders interleave.
THEOREM ReleasedAsEndedHolds == Spec => []ReleasedAsEnded
<1>1. Inv => ReleasedAsEnded  BY DEF Inv
<1> QED  BY <1>1, Invariance, PTL

-----------------------------------------------------------------------------
(* Who knows of an end: the invariant behind EndsAreSeen.                  *)

BusyOn(x, o) == x.at # "idle" /\ x.call \in {"send", "cancel"} /\ x.order = o
InSync(x) == x.at \in {"take", "apply"}

Sender == task["executor"]
\* the order that the executor sent was not yet taken by the round it drives
Unmatched == Sender.at = "drive" \/ (Sender.at = "match" /\ Sender.order \in round.due)

\* what a thread may be at, by what it was called for
SenderShape(x) == x.at # "idle" => x.call = "send" /\ x.at \notin {"cancel", "mark"}
WatcherShape(x) ==
    /\ x.at \notin {"drive", "match"} /\ x.call # "send"
    /\ x.at \in {"cancel", "mark"} => x.call = "cancel"
    /\ x.at = "look" => x.call # "cancel"
Shape == SenderShape(Sender) /\ \A t \in Watcher : WatcherShape(task[t])

\* an open order that was taken once rests on its limit
OpenRests ==
    \A o \in Open(book) :
        \/ book.open[o].acked /\ asked[o].type = "limit"
        \/ Unmatched /\ Sender.order = o

\* the order that is being sent is new to the watchers
Driving ==
    Sender.at # "idle" =>
        /\ Sender.order \notin waiting \union tried
        /\ IF Unmatched
           THEN /\ Sender.order \in Open(book)
                /\ book.open[Sender.order].acked => ReportsOf(book, Sender.order) # {}
           ELSE ReportsOf(book, Sender.order) # {}

\* a watcher cancels an order that no other thread ever cancels
Tries ==
    /\ \A o \in waiting \union tried : ReportsOf(book, o) # {}
    /\ \A t \in Watcher, o \in Order : BusyOn(task[t], o) => o \in tried
    /\ \A t, u \in Watcher, o \in Order :
          BusyOn(task[t], o) /\ BusyOn(task[u], o) => t = u

ClosedEnded == \A o \in closed : Ends(book, o) # {}

Course == Shape /\ OpenRests /\ Driving /\ Tries /\ ClosedEnded

\* the router was told of the end that report i is
Told(o, i) ==
    LET k == book.reports[i].kind IN
    cache[o] = k /\ k \in released[o] /\ o \in closed /\ o \notin pending

\* no thread works on the order: all that was reported on it is known
AllTold(o) ==
    /\ \A i \in ReportsOf(book, o) : i <= cursor
    /\ \A u \in Thread : InSync(task[u]) => \A i \in ReportsOf(book, o) : i < task[u].next
    /\ \A i \in Ends(book, o) : Told(o, i) /\ (book.reports[i].kind = "filled" => o \in paid)
    /\ o \in Open(book) => o \in pending

\* the executor sends it: what the round reports waits behind the cursor
Sending(o, x) ==
    /\ o \in Open(book) => o \in pending
    /\ x.at \in {"drive", "match", "sync"} =>
         o \in pending /\ \A i \in ReportsOf(book, o) : cursor < i
    /\ InSync(x) =>
         /\ \A i \in ReportsOf(book, o) : i <= x.last
         /\ \A i \in Ends(book, o) : IF i < x.next THEN Told(o, i) ELSE o \in pending
         /\ x.at = "apply" /\ x.next \in Ends(book, o) => x.known
    /\ x.at = "look" =>
         /\ \A i \in ReportsOf(book, o) : i <= cursor
         /\ \A i \in Ends(book, o) : Told(o, i)

\* a watcher cancels it: the end that it records itself is the only one
Cancelling(o, x) ==
    /\ o \notin pending
    /\ x.at = "cancel" =>
         /\ o \in Open(book) /\ x.known /\ \A i \in ReportsOf(book, o) : i <= cursor
    /\ x.at # "cancel" =>
         /\ "cancelled" \in released[o] /\ Ends(book, o) # {}
         /\ \A i \in Ends(book, o) : book.reports[i].kind = "cancelled"
    /\ x.at = "sync" => \A i \in Ends(book, o) : cursor < i
    /\ InSync(x) =>
         /\ \A i \in ReportsOf(book, o) : i <= x.last
         /\ \A i \in Ends(book, o) : i < x.next => Told(o, i)
    /\ x.at = "mark" =>
         /\ \A i \in ReportsOf(book, o) : i <= cursor
         /\ \A i \in Ends(book, o) : Told(o, i)

Seen(o) ==
    /\ \A t, u \in Thread : BusyOn(task[t], o) /\ u # t => ~InSync(task[u])
    /\ (\A t \in Thread : ~BusyOn(task[t], o)) => AllTold(o)
    /\ BusyOn(Sender, o) => Sending(o, Sender)
    /\ \A t \in Watcher : BusyOn(task[t], o) => Cancelling(o, task[t])

SeenInv == Course /\ \A o \in Order \ met : Seen(o)

\* what a step leaves as it was is read in the next state as in this one
LEMMA ReadAgain ==
    ASSUME NEW c, book' = c
    PROVE  /\ Open(book)' = Open(c)
           /\ \A o : ReportsOf(book, o)' = ReportsOf(c, o) /\ Ends(book, o)' = Ends(c, o)
BY DEF Open, ReportsOf, Ends

LEMMA EndsAre ==
    ASSUME BrokerInv, NEW o \in Order
    PROVE  /\ Ends(book, o) \subseteq ReportsOf(book, o)
           /\ \A i \in ReportsOf(book, o) : i \in Nat /\ i <= Len(book.reports)
           /\ Len(book.reports) \in Nat
           /\ \A i \in Ends(book, o), j \in ReportsOf(book, o) : j <= i
           /\ Ends(book, o) # {} => o \notin Open(book)
           /\ ReportsOf(book, o) # {} /\ Ends(book, o) = {} => o \in Open(book)
<1>1. OneEnd(book, o) /\ book \in Book  BY DEF BrokerInv, BooksInv, Plain, BookType
<1>2. DOMAIN book.reports = 1..Len(book.reports) /\ Len(book.reports) \in Nat
  BY <1>1 DEF Book
<1> QED  BY <1>1, <1>2 DEF OneEnd, Ends, ReportsOf

\* A step of a thread that works on another order leaves an order seen.
LEMMA SeenFrame ==
    ASSUME NEW t \in Thread, NEW x \in TaskRecord, NEW o \in Order,
           Inv, Seen(o),
           task'[t] = x, \A u \in Thread : u # t => task'[u] = task[u],
           x = task[t] \/ (~BusyOn(task[t], o) /\ ~BusyOn(x, o)),
           \/ ~InSync(x)
           \/ InSync(task[t]) /\ task[t].next <= x.next
           \/ cursor < x.next /\ \A u \in Thread : ~BusyOn(task[u], o),
           cursor' = cursor, cache'[o] = cache[o], released'[o] = released[o],
           o \in closed' <=> o \in closed, o \in pending' <=> o \in pending,
           o \in paid => o \in paid',
           (o \in Open(book))' <=> o \in Open(book),
           ReportsOf(book, o)' = ReportsOf(book, o), Ends(book, o)' = Ends(book, o),
           \A i \in ReportsOf(book, o) : book'.reports[i] = book.reports[i]
    PROVE  Seen(o)'
<1>1. \A u \in Thread : task[u] \in TaskRecord  BY DEF Inv, ControlInv, TasksInv
<1>2. "executor" \in Thread /\ \A u \in Watcher : u \in Thread  BY DEF Thread
<1>3. \A u \in Thread : BusyOn(task[u], o)' <=> BusyOn(task[u], o)  BY DEF BusyOn
<1>4. \A u \in Thread : BusyOn(task[u], o) => task'[u] = task[u]  OBVIOUS
<1>5. /\ Ends(book, o) \subseteq ReportsOf(book, o)
      /\ \A i \in ReportsOf(book, o) : i \in Nat /\ i <= Len(book.reports)
  BY EndsAre DEF Inv
<1>6. \A i \in Ends(book, o) : Told(o, i)' <=> Told(o, i)  BY <1>5 DEF Told
<1>7. cursor \in Nat
  BY BookFacts DEF Inv, BrokerInv, ControlInv, RouterType
<1>8. ASSUME NEW u \in Thread, InSync(task[u])'
      PROVE  \/ InSync(task[u]) /\ task[u].next <= task'[u].next
             \/ cursor < task'[u].next /\ \A v \in Thread : ~BusyOn(task[v], o)
  <2>1. CASE u = t  BY <1>8, <2>1 DEF InSync
  <2>2. CASE u # t
    <3>1. task'[u] = task[u] /\ task[u].next \in Nat  BY <1>1, <2>2 DEF TaskRecord
    <3> QED  BY <1>8, <3>1 DEF InSync
  <2> QED  BY <2>1, <2>2
<1>9. \A u, v \in Thread : BusyOn(task[u], o)' /\ v # u => ~InSync(task[v])'
  BY <1>3, <1>8 DEF Seen
<1>10. ASSUME \A u \in Thread : ~BusyOn(task[u], o)' PROVE AllTold(o)'
  <2>1. AllTold(o)  BY <1>3, <1>10 DEF Seen
  <2>2. \A i \in ReportsOf(book, o) : i <= cursor /\ i \in Nat  BY <1>5, <2>1 DEF AllTold
  <2>3. ASSUME NEW u \in Thread, InSync(task[u])', NEW i \in ReportsOf(book, o)
        PROVE  i < task'[u].next
    <3>1. task'[u] \in TaskRecord  BY <1>1
    <3>2. task'[u].next \in Nat /\ task[u].next \in Nat  BY <1>1, <3>1 DEF TaskRecord
    <3>3. CASE InSync(task[u]) /\ task[u].next <= task'[u].next
      <4>1. i < task[u].next  BY <2>1, <2>3, <3>3 DEF AllTold
      <4> QED  BY <2>2, <3>2, <3>3, <4>1
    <3>4. CASE cursor < task'[u].next  BY <1>7, <2>2, <2>3, <3>2, <3>4
    <3> QED  BY <1>8, <2>3, <3>3, <3>4
  <2> QED  BY <1>5, <1>6, <2>1, <2>2, <2>3 DEF AllTold
<1>11. BusyOn(Sender, o)' => Sending(o, Sender)'
  <2> SUFFICES ASSUME BusyOn(Sender, o)' PROVE Sending(o, Sender)'  OBVIOUS
  <2>1. BusyOn(Sender, o) /\ Sender' = Sender  BY <1>2, <1>3, <1>4 DEF Sender
  <2>2. Sending(o, Sender)  BY <2>1 DEF Seen
  <2> QED  BY <1>6, <2>1, <2>2 DEF Sending, InSync
<1>12. ASSUME NEW u \in Watcher, BusyOn(task[u], o)' PROVE Cancelling(o, task[u])'
  <2>1. BusyOn(task[u], o) /\ task'[u] = task[u]  BY <1>2, <1>3, <1>4, <1>12
  <2>2. Cancelling(o, task[u])  BY <2>1 DEF Seen
  <2>3. \A i \in Ends(book, o) : book'.reports[i] = book.reports[i]  BY <1>5
  <2> QED  BY <1>6, <2>1, <2>2, <2>3 DEF Cancelling, InSync
<1> QED  BY <1>9, <1>10, <1>11, <1>12 DEF Seen

\* The same for a step that leaves the broker alone ...
LEMMA QuietFrame ==
    ASSUME NEW t \in Thread, NEW x \in TaskRecord, NEW o \in Order,
           Inv, Seen(o), UNCHANGED broker, task' = [task EXCEPT ![t] = x],
           x = task[t] \/ (~BusyOn(task[t], o) /\ ~BusyOn(x, o)),
           \/ ~InSync(x)
           \/ InSync(task[t]) /\ task[t].next <= x.next
           \/ cursor < x.next /\ \A u \in Thread : ~BusyOn(task[u], o),
           cursor' = cursor, cache'[o] = cache[o], released'[o] = released[o],
           o \in closed' <=> o \in closed, o \in pending' <=> o \in pending,
           o \in paid => o \in paid'
    PROVE  Seen(o)'
<1>1. /\ task'[t] = x /\ \A u \in Thread : u # t => task'[u] = task[u]
  BY DEF Inv, ControlInv, TasksInv
<1>2. PICK b : b = book  OBVIOUS
<1>3. book' = b  BY <1>2 DEF broker
<1>4. /\ Open(book)' = Open(b) /\ ReportsOf(book, o)' = ReportsOf(b, o)
      /\ Ends(book, o)' = Ends(b, o)
  BY <1>3, ReadAgain
<1>5. /\ (o \in Open(book))' <=> o \in Open(book)
      /\ ReportsOf(book, o)' = ReportsOf(book, o) /\ Ends(book, o)' = Ends(book, o)
      /\ \A i \in ReportsOf(book, o) : book'.reports[i] = book.reports[i]
  BY <1>2, <1>3, <1>4
<1> QED  BY <1>1, <1>5, SeenFrame

\* ... and of the course of the threads.
LEMMA QuietCourse ==
    ASSUME NEW t \in Thread, NEW x \in TaskRecord,
           Inv, Course, UNCHANGED broker, task' = [task EXCEPT ![t] = x],
           t = "executor" =>
               /\ ~Unmatched /\ x.at \notin {"drive", "match"} /\ SenderShape(x)
               /\ x.at # "idle" => Sender.at # "idle" /\ x.order = Sender.order,
           t \in Watcher =>
               /\ WatcherShape(x)
               /\ \A o \in Order : BusyOn(x, o) =>
                      BusyOn(task[t], o) \/ (o \in tried' /\ o \notin tried),
           tried \subseteq tried',
           \A o \in waiting' \union tried' :
               /\ ReportsOf(book, o) # {}
               /\ o \in waiting \union tried \/ (t = "executor" /\ x.at = "idle"),
           \A o \in closed' : o \in closed \/ Ends(book, o) # {}
    PROVE  Course'
<1>1. task'[t] = x /\ \A u \in Thread : u # t => task'[u] = task[u]
  BY DEF Inv, ControlInv, TasksInv
<1>2. PICK b : b = book  OBVIOUS
<1>3. book' = b /\ round' = round /\ asked' = asked  BY <1>2 DEF broker
<1>4. /\ Open(book)' = Open(book)
      /\ \A o : ReportsOf(book, o)' = ReportsOf(book, o) /\ Ends(book, o)' = Ends(book, o)
  BY <1>2, <1>3, ReadAgain
<1>5. "executor" \in Thread /\ "executor" \notin Watcher /\ \A u \in Watcher : u \in Thread
  BY ThreadAssumption DEF Thread
<1>6. t \in Watcher => Sender' = Sender  BY <1>1, <1>5 DEF Sender
<1>7. t = "executor" => Sender' = x  BY <1>1 DEF Sender
<1>8. t = "executor" \/ t \in Watcher  BY DEF Thread
<1>9. Unmatched' <=> Unmatched
  BY <1>3, <1>6, <1>7, <1>8 DEF Unmatched
<1>10. Shape'
  <2>1. SenderShape(Sender)'  BY <1>6, <1>7, <1>8 DEF Course, Shape, SenderShape
  <2>2. ASSUME NEW u \in Watcher PROVE WatcherShape(task[u])'
    <3>1. WatcherShape(task[u])  BY DEF Course, Shape
    <3>2. CASE u = t  BY <1>1, <3>2 DEF WatcherShape
    <3>3. CASE u # t
      <4>1. task'[u] = task[u]  BY <1>1, <1>5, <3>3
      <4> QED  BY <3>1, <4>1 DEF WatcherShape
    <3> QED  BY <3>2, <3>3
  <2> QED  BY <2>1, <2>2 DEF Shape
<1>11. OpenRests'
  <2>1. Unmatched => Sender' = Sender  BY <1>6, <1>8
  <2> QED  BY <1>2, <1>3, <1>4, <1>9, <2>1 DEF Course, OpenRests
<1>12. Driving'
  <2> SUFFICES ASSUME Sender'.at # "idle"
               PROVE  /\ Sender'.order \notin waiting' \union tried'
                      /\ IF Unmatched
                         THEN /\ Sender'.order \in Open(book)
                              /\ book.open[Sender'.order].acked =>
                                    ReportsOf(book, Sender'.order) # {}
                         ELSE ReportsOf(book, Sender'.order) # {}
    BY <1>2, <1>3, <1>4, <1>9 DEF Driving
  <2>1. Sender.at # "idle" /\ Sender'.order = Sender.order  BY <1>6, <1>7, <1>8
  <2>2. ~(t = "executor" /\ x.at = "idle")  BY <1>7
  <2>3. Driving  BY DEF Course
  <2> QED  BY <2>1, <2>2, <2>3 DEF Driving
<1>13. Tries'
  <2>1. ASSUME NEW u \in Watcher, NEW o \in Order, BusyOn(task[u], o)'
        PROVE  BusyOn(task[u], o) \/ (u = t /\ o \in tried' /\ o \notin tried)
    <3>1. CASE u = t  BY <1>1, <2>1, <3>1 DEF BusyOn
    <3>2. CASE u # t
      <4>1. task'[u] = task[u]  BY <1>1, <1>5, <3>2
      <4> QED  BY <2>1, <4>1 DEF BusyOn
    <3> QED  BY <3>1, <3>2
  <2>2. Tries  BY DEF Course
  <2>3. \A u \in Watcher, o \in Order : BusyOn(task[u], o)' => o \in tried'
    BY <2>1, <2>2 DEF Tries
  <2>4. \A u, v \in Watcher, o \in Order : BusyOn(task[u], o)' /\ BusyOn(task[v], o)' => u = v
    BY <2>1, <2>2 DEF Tries
  <2>5. \A o \in waiting' \union tried' : ReportsOf(book, o)' # {}  BY <1>4
  <2> QED  BY <2>3, <2>4, <2>5 DEF Tries
<1>14. ClosedEnded'  BY <1>4 DEF Course, ClosedEnded
<1> QED  BY <1>10, <1>11, <1>12, <1>13, <1>14 DEF Course

LEMMA QuietBook ==
    ASSUME UNCHANGED broker
    PROVE  /\ book' = book /\ Open(book)' = Open(book)
           /\ \A o : ReportsOf(book, o)' = ReportsOf(book, o) /\ Ends(book, o)' = Ends(book, o)
<1>1. PICK b : b = book  OBVIOUS
<1>2. book' = b  BY <1>1 DEF broker
<1> QED  BY <1>1, <1>2, ReadAgain

\* no two threads work on one order
LEMMA Sole ==
    ASSUME NEW t \in Thread, NEW u \in Thread, NEW o \in Order,
           Course, BusyOn(task[t], o), BusyOn(task[u], o)
    PROVE  t = u
<1>1. ASSUME NEW v \in Watcher, BusyOn(task[v], o) PROVE o \in tried
  BY <1>1 DEF Course, Tries
<1>2. BusyOn(Sender, o) => o \notin tried  BY DEF Course, Driving, BusyOn
<1> QED  BY <1>1, <1>2 DEF Course, Tries, Thread, Sender

\* An order that a thread works on, before the step or after it.
LEMMA SeenBy ==
    ASSUME NEW t \in Thread, NEW x, NEW o \in Order,
           task'[t] = x, \A u \in Thread : u # t => task'[u] = task[u],
           \A u \in Thread : u # t => ~BusyOn(task[u], o),
           BusyOn(x, o) => \A u \in Thread : u # t => ~InSync(task[u]),
           ~BusyOn(x, o) => AllTold(o)',
           BusyOn(x, o) /\ t = "executor" => Sending(o, x)',
           BusyOn(x, o) /\ t \in Watcher => Cancelling(o, x)'
    PROVE  Seen(o)'
<1>1. "executor" \in Thread /\ "executor" \notin Watcher /\ \A u \in Watcher : u \in Thread
  BY ThreadAssumption DEF Thread
<1>2. BusyOn(task[t], o)' <=> BusyOn(x, o)  BY DEF BusyOn
<1>3. \A u \in Thread : u # t => ~BusyOn(task[u], o)'  BY DEF BusyOn
<1>4. ASSUME NEW u \in Thread, NEW v \in Thread, BusyOn(task[u], o)', v # u
      PROVE  ~InSync(task[v])'
  <2>1. u = t /\ task'[v] = task[v]  BY <1>3, <1>4
  <2>2. ~InSync(task[v])  BY <1>2, <1>4, <2>1
  <2> QED  BY <2>1, <2>2 DEF InSync
<1>5. (\A u \in Thread : ~BusyOn(task[u], o)') => AllTold(o)'  BY <1>2
<1>6. BusyOn(Sender, o)' => Sending(o, Sender)'
  <2> SUFFICES ASSUME BusyOn(Sender, o)' PROVE Sending(o, Sender)'  OBVIOUS
  <2>1. BusyOn(task["executor"], o)'  BY DEF Sender
  <2>2. t = "executor" /\ Sender' = x  BY <1>1, <1>3, <2>1 DEF Sender
  <2>3. Sending(o, x)'  BY <1>2, <2>1, <2>2
  <2> QED  BY <2>2, <2>3 DEF Sending, InSync
<1>7. ASSUME NEW u \in Watcher, BusyOn(task[u], o)' PROVE Cancelling(o, task[u])'
  <2>1. t = u /\ task'[u] = x  BY <1>1, <1>3, <1>7
  <2>2. Cancelling(o, x)'  BY <1>2, <1>7, <2>1
  <2> QED  BY <2>1, <2>2 DEF Cancelling, InSync
<1> QED  BY <1>4, <1>5, <1>6, <1>7 DEF Seen

LEMMA TaskIs ==
    ASSUME Inv, NEW t \in Thread, NEW x, task' = [task EXCEPT ![t] = x]
    PROVE  task'[t] = x /\ \A u \in Thread : u # t => task'[u] = task[u]
BY DEF Inv, ControlInv, TasksInv

LEMMA Numbers ==
    ASSUME Inv
    PROVE  /\ cursor \in Nat /\ cursor <= Len(book.reports) /\ Len(book.reports) \in Nat
           /\ \A t \in Thread : task[t] \in TaskRecord /\ task[t].next \in Nat
                                /\ task[t].last \in Nat
<1>1. Len(book.reports) \in Nat  BY BookFacts DEF Inv, BrokerInv
<1>2. \A t \in Thread : task[t] \in TaskRecord  BY DEF Inv, ControlInv, TasksInv
<1> QED  BY <1>1, <1>2 DEF Inv, ControlInv, RouterType, TaskRecord

LEMMA SyncReadSeen ==
    ASSUME Inv, SeenInv, NEW t \in Thread, SyncRead(t) PROVE SeenInv'
<1>1. PICK x \in TaskRecord :
        /\ task' = [task EXCEPT ![t] = x] /\ Handles(x)
        /\ x.call = task[t].call /\ x.order = task[t].order /\ x.known = task[t].known
        /\ IF cursor < Len(book.reports)
           THEN x.at = "take" /\ x.next = cursor + 1 /\ x.last = Len(book.reports)
           ELSE x.at = IF task[t].call = "cancel" THEN "mark" ELSE "look"
  BY SyncReadTask
<1>2. UNCHANGED broker /\ task[t].at = "sync"
      /\ UNCHANGED <<pending, cache, closed, cursor, waiting, tried, paid, released>>
  BY DEF SyncRead
<1>3. \A o \in Order : BusyOn(x, o) <=> BusyOn(task[t], o)  BY <1>1, <1>2 DEF BusyOn
<1>4. Course'
  <2>1. t = "executor" => /\ ~Unmatched /\ x.at \notin {"drive", "match"} /\ SenderShape(x)
                          /\ Sender.at # "idle" /\ x.order = Sender.order
    BY <1>1, <1>2 DEF Unmatched, Sender, SenderShape, SeenInv, Course, Shape
  <2>2. t \in Watcher => WatcherShape(x)
    BY <1>1, <1>2 DEF WatcherShape, SeenInv, Course, Shape
  <2>3. \A o \in waiting' \union tried' : ReportsOf(book, o) # {} /\ o \in waiting \union tried
    BY <1>2 DEF SeenInv, Course, Tries
  <2> QED  BY <1>1, <1>2, <1>3, <2>1, <2>2, <2>3, QuietCourse DEF SeenInv
<1>5. ASSUME NEW o \in Order \ met' PROVE Seen(o)'
  <2>1. Seen(o) /\ o \in Order  BY DEF SyncRead, SeenInv
  <2>2. CASE ~BusyOn(task[t], o)
    <3>1. cursor < Len(book.reports) => \A u \in Thread : ~BusyOn(task[u], o)
      BY <1>5, <2>2 DEF SyncRead, Busy, BusyOn
    <3>2. \/ ~InSync(x)
          \/ cursor < x.next /\ \A u \in Thread : ~BusyOn(task[u], o)
      BY <1>1, <3>1, Numbers DEF InSync
    <3> QED  BY <1>1, <1>2, <1>3, <2>1, <2>2, <3>2, QuietFrame
  <2>3. CASE BusyOn(task[t], o)
    <3>1. \A u \in Thread : u # t => ~BusyOn(task[u], o)  BY <2>1, <2>3, Sole DEF SeenInv
    <3>2. \A u \in Thread : u # t => ~InSync(task[u])  BY <2>1, <2>3 DEF Seen
    <3>3. BusyOn(x, o)  BY <1>3, <2>3
    <3>4. /\ Ends(book, o) \subseteq ReportsOf(book, o)
          /\ \A i \in ReportsOf(book, o) : i \in Nat /\ i <= Len(book.reports)
      BY EndsAre DEF Inv
    <3>5. t = "executor" => Sending(o, x)'
      <4> SUFFICES ASSUME t = "executor" PROVE Sending(o, x)'  OBVIOUS
      <4>1. Sending(o, task[t])  BY <2>1, <2>3 DEF Seen, Sender
      <4>2. /\ o \in Open(book) => o \in pending
            /\ o \in pending /\ \A i \in ReportsOf(book, o) : cursor < i
        BY <1>2, <4>1 DEF Sending
      <4>3. ReportsOf(book, o) # {}
        BY <1>2, <2>3 DEF SeenInv, Course, Driving, Unmatched, Sender, BusyOn
      <4>4. PICK i \in ReportsOf(book, o) : cursor < i  BY <4>2, <4>3
      <4>5. cursor < Len(book.reports)  BY <3>4, <4>4, Numbers
      <4>6. x.at = "take" /\ x.next = cursor + 1 /\ x.last = Len(book.reports)  BY <1>1, <4>5
      <4>7. \A j \in Ends(book, o) : ~(j < x.next)  BY <3>4, <4>2, <4>6, Numbers
      <4> QED  BY <1>2, <3>4, <4>2, <4>6, <4>7, QuietBook DEF Sending, InSync
    <3>6. t \in Watcher => Cancelling(o, x)'
      <4> SUFFICES ASSUME t \in Watcher PROVE Cancelling(o, x)'  OBVIOUS
      <4>1. Cancelling(o, task[t])  BY <2>1, <2>3 DEF Seen
      <4>2. /\ o \notin pending /\ "cancelled" \in released[o] /\ Ends(book, o) # {}
            /\ \A i \in Ends(book, o) : book.reports[i].kind = "cancelled" /\ cursor < i
        BY <1>2, <4>1 DEF Cancelling
      <4>3. PICK i \in ReportsOf(book, o) : cursor < i  BY <3>4, <4>2
      <4>4. cursor < Len(book.reports)  BY <3>4, <4>3, Numbers
      <4>5. x.at = "take" /\ x.next = cursor + 1 /\ x.last = Len(book.reports)  BY <1>1, <4>4
      <4>6. \A j \in Ends(book, o) : ~(j < x.next)  BY <3>4, <4>2, <4>5, Numbers
      <4> QED  BY <1>2, <3>4, <4>2, <4>5, <4>6, QuietBook DEF Cancelling, InSync
    <3>7. task'[t] = x /\ \A u \in Thread : u # t => task'[u] = task[u]  BY <1>1, TaskIs
    <3> QED  BY <3>1, <3>2, <3>3, <3>5, <3>6, <3>7, SeenBy
  <2> QED  BY <2>2, <2>3
<1> QED  BY <1>4, <1>5 DEF SeenInv

LEMMA QuietTold ==
    ASSUME UNCHANGED broker, NEW o, cache'[o] = cache[o], released'[o] = released[o],
           o \in closed' <=> o \in closed, o \in pending' <=> o \in pending
    PROVE  \A i : Told(o, i)' <=> Told(o, i)
<1>1. book' = book  BY QuietBook
<1> QED  BY <1>1 DEF Told

LEMMA SyncTakeSeen ==
    ASSUME Inv, SeenInv, NEW t \in Thread, SyncTake(t) PROVE SeenInv'
<1>1. PICK x \in TaskRecord :
        /\ task' = [task EXCEPT ![t] = x]
        /\ x.call = task[t].call /\ x.order = task[t].order /\ x.at = "apply"
        /\ x.next = task[t].next /\ x.last = task[t].last
        /\ x.known <=> book.reports[x.next].order \in pending
  BY SyncTakeTask
<1>2. UNCHANGED broker /\ task[t].at = "take"
      /\ UNCHANGED <<pending, cache, closed, cursor, waiting, tried, paid, released, met>>
  BY DEF SyncTake
<1>3. \A o \in Order : BusyOn(x, o) <=> BusyOn(task[t], o)  BY <1>1, <1>2 DEF BusyOn
<1>4. Course'
  <2>1. t = "executor" => /\ ~Unmatched /\ x.at \notin {"drive", "match"} /\ SenderShape(x)
                          /\ Sender.at # "idle" /\ x.order = Sender.order
    BY <1>1, <1>2 DEF Unmatched, Sender, SenderShape, SeenInv, Course, Shape
  <2>2. t \in Watcher => WatcherShape(x)
    BY <1>1, <1>2 DEF WatcherShape, SeenInv, Course, Shape
  <2>3. \A o \in waiting' \union tried' : ReportsOf(book, o) # {} /\ o \in waiting \union tried
    BY <1>2 DEF SeenInv, Course, Tries
  <2> QED  BY <1>1, <1>2, <1>3, <2>1, <2>2, <2>3, QuietCourse DEF SeenInv
<1>5. ASSUME NEW o \in Order \ met' PROVE Seen(o)'
  <2>1. Seen(o) /\ o \in Order  BY <1>2 DEF SeenInv
  <2>2. CASE ~BusyOn(task[t], o)
    <3>1. InSync(task[t]) /\ task[t].next <= x.next  BY <1>1, <1>2, Numbers DEF InSync
    <3> QED  BY <1>1, <1>2, <1>3, <2>1, <2>2, <3>1, QuietFrame
  <2>3. CASE BusyOn(task[t], o)
    <3>1. \A u \in Thread : u # t => ~BusyOn(task[u], o)  BY <2>1, <2>3, Sole DEF SeenInv
    <3>2. \A u \in Thread : u # t => ~InSync(task[u])  BY <2>1, <2>3 DEF Seen
    <3>3. BusyOn(x, o)  BY <1>3, <2>3
    <3>4. \A i : Told(o, i)' <=> Told(o, i)  BY <1>2, QuietTold
    <3>5. t = "executor" => Sending(o, x)'
      <4> SUFFICES ASSUME t = "executor" PROVE Sending(o, x)'  OBVIOUS
      <4>1. Sending(o, task[t])  BY <2>1, <2>3 DEF Seen, Sender
      <4>2. x.next \in Ends(book, o) => o \in pending /\ book.reports[x.next].order = o
        <5>1. ~(x.next < x.next)  BY <1>1, Numbers
        <5> QED  BY <1>1, <1>2, <4>1, <5>1 DEF Sending, InSync, Ends, ReportsOf
      <4> QED  BY <1>1, <1>2, <3>4, <4>1, <4>2, QuietBook DEF Sending, InSync
    <3>6. t \in Watcher => Cancelling(o, x)'
      <4> SUFFICES ASSUME t \in Watcher PROVE Cancelling(o, x)'  OBVIOUS
      <4>1. Cancelling(o, task[t])  BY <2>1, <2>3 DEF Seen
      <4> QED  BY <1>1, <1>2, <3>4, <4>1, QuietBook DEF Cancelling, InSync
    <3>7. task'[t] = x /\ \A u \in Thread : u # t => task'[u] = task[u]  BY <1>1, TaskIs
    <3> QED  BY <3>1, <3>2, <3>3, <3>5, <3>6, <3>7, SeenBy
  <2> QED  BY <2>2, <2>3
<1> QED  BY <1>4, <1>5 DEF SeenInv

LEMMA SyncEndSeen ==
    ASSUME Inv, SeenInv, NEW t \in Thread, SyncEnd(t) PROVE SeenInv'
<1>1. PICK at \in {"mark", "look"} :
        Goes(t, at) /\ at = IF task[t].call = "cancel" THEN "mark" ELSE "look"
  BY DEF SyncEnd
<1>2. PICK x \in TaskRecord :
        /\ task' = [task EXCEPT ![t] = x] /\ x.at = at
        /\ x.call = task[t].call /\ x.order = task[t].order
  BY <1>1, GoesTask DEF Step
<1>3. UNCHANGED broker /\ task[t].at = "take" /\ task[t].next > task[t].last
      /\ cursor' = Len(book.reports)
      /\ UNCHANGED <<pending, cache, closed, waiting, tried, paid, released, met>>
  BY DEF SyncEnd
<1>4. \A o \in Order : BusyOn(x, o) <=> BusyOn(task[t], o)  BY <1>1, <1>2, <1>3 DEF BusyOn
<1>5. task'[t] = x /\ \A u \in Thread : u # t => task'[u] = task[u]  BY <1>2, TaskIs
<1>6. Course'
  <2>1. t = "executor" => /\ ~Unmatched /\ x.at \notin {"drive", "match"} /\ SenderShape(x)
                          /\ Sender.at # "idle" /\ x.order = Sender.order
    BY <1>1, <1>2, <1>3 DEF Unmatched, Sender, SenderShape, SeenInv, Course, Shape
  <2>2. t \in Watcher => WatcherShape(x)
    BY <1>1, <1>2, <1>3 DEF WatcherShape, SeenInv, Course, Shape
  <2>3. \A o \in waiting' \union tried' : ReportsOf(book, o) # {} /\ o \in waiting \union tried
    BY <1>3 DEF SeenInv, Course, Tries
  <2> QED  BY <1>2, <1>3, <1>4, <2>1, <2>2, <2>3, QuietCourse DEF SeenInv
<1>7. ASSUME NEW o \in Order \ met' PROVE Seen(o)'
  <2>1. Seen(o) /\ o \in Order  BY <1>3 DEF SeenInv
  <2>2. \A i : Told(o, i)' <=> Told(o, i)  BY <1>3, QuietTold
  <2>3. /\ Ends(book, o) \subseteq ReportsOf(book, o)
        /\ \A i \in ReportsOf(book, o) : i \in Nat /\ i <= cursor'
    BY <1>3, EndsAre DEF Inv
  <2>4. InSync(task[t]) /\ ~InSync(x)  BY <1>1, <1>2, <1>3 DEF InSync
  <2>5. CASE ~BusyOn(task[t], o)
    <3>1. \A u \in Thread : ~BusyOn(task[u], o)  BY <2>1, <2>4, <2>5 DEF Seen
    <3>2. AllTold(o)  BY <2>1, <3>1 DEF Seen
    <3>3. \A u \in Thread : InSync(task[u])' => InSync(task[u]) /\ task'[u] = task[u]
      BY <1>5, <2>4 DEF InSync
    <3>4. AllTold(o)'  BY <1>3, <2>2, <2>3, <3>2, <3>3, QuietBook DEF AllTold
    <3> QED  BY <1>4, <1>5, <2>1, <2>5, <3>1, <3>4, SeenBy
  <2>6. CASE BusyOn(task[t], o)
    <3>1. \A u \in Thread : u # t => ~BusyOn(task[u], o)  BY <2>1, <2>6, Sole DEF SeenInv
    <3>2. \A u \in Thread : u # t => ~InSync(task[u])  BY <2>1, <2>6 DEF Seen
    <3>3. BusyOn(x, o)  BY <1>4, <2>6
    <3>4. ASSUME \A i \in ReportsOf(book, o) : i <= task[t].last, NEW i \in Ends(book, o)
          PROVE  i < task[t].next
      BY <1>3, <2>3, <3>4, Numbers
    <3>5. t = "executor" => Sending(o, x)'
      <4> SUFFICES ASSUME t = "executor" PROVE Sending(o, x)'  OBVIOUS
      <4>1. Sending(o, task[t])  BY <2>1, <2>6 DEF Seen, Sender
      <4>2. \A i \in Ends(book, o) : Told(o, i)  BY <2>4, <3>4, <4>1 DEF Sending
      <4>3. o \in Open(book) => o \in pending  BY <4>1 DEF Sending
      <4> QED  BY <1>1, <1>2, <1>3, <2>2, <2>3, <2>4, <4>2, <4>3, QuietBook DEF Sending
    <3>6. t \in Watcher => Cancelling(o, x)'
      <4> SUFFICES ASSUME t \in Watcher PROVE Cancelling(o, x)'  OBVIOUS
      <4>1. Cancelling(o, task[t])  BY <2>1, <2>6 DEF Seen
      <4>2. \A i \in Ends(book, o) : Told(o, i)  BY <2>4, <3>4, <4>1 DEF Cancelling
      <4>3. /\ o \notin pending /\ "cancelled" \in released[o] /\ Ends(book, o) # {}
            /\ \A i \in Ends(book, o) : book.reports[i].kind = "cancelled"
        BY <1>3, <4>1 DEF Cancelling
      <4> QED  BY <1>1, <1>2, <1>3, <2>2, <2>3, <2>4, <4>2, <4>3, QuietBook DEF Cancelling
    <3> QED  BY <1>5, <3>1, <3>2, <3>3, <3>5, <3>6, SeenBy
  <2> QED  BY <2>5, <2>6
<1> QED  BY <1>6, <1>7 DEF SeenInv

LEMMA SyncApplySeen ==
    ASSUME Inv, SeenInv, NEW t \in Thread, SyncApply(t) PROVE SeenInv'
<1>1. PICK x \in TaskRecord :
        /\ task' = [task EXCEPT ![t] = x]
        /\ x.call = task[t].call /\ x.order = task[t].order /\ x.at = "take"
        /\ x.next = task[t].next + 1 /\ x.last = task[t].last
  BY SyncApplyTask
<1>2. task[t].at = "apply" /\ task[t] \in TaskRecord  BY DEF SyncApply, Inv, ControlInv, TasksInv
<1>3. PICK i : i = task[t].next  OBVIOUS
<1>4. PICK r \in Report : r = book.reports[i]  BY <1>2, <1>3, ApplyFacts
<1>5. /\ i \in ReportsOf(book, r.order) /\ (r.kind \in FinalKind => i \in Ends(book, r.order))
      /\ r.order \in Order
  BY <1>2, <1>3, <1>4, ApplyFacts DEF Report
<1>6. /\ UNCHANGED broker /\ UNCHANGED <<cursor, waiting, tried, paid, met>>
      /\ cache' = [cache EXCEPT ![r.order] = IF r.kind \in FinalKind THEN r.kind ELSE "pending"]
      /\ closed' = IF r.kind \in FinalKind THEN closed \union {r.order} ELSE closed
      /\ pending' = IF r.kind \in FinalKind THEN pending \ {r.order} ELSE pending
      /\ released' = Recorded(r, task[t].known)
  BY <1>3, <1>4 DEF SyncApply
<1>7. \A o \in Order : BusyOn(x, o) <=> BusyOn(task[t], o)  BY <1>1, <1>2 DEF BusyOn
<1>8. task'[t] = x /\ \A u \in Thread : u # t => task'[u] = task[u]  BY <1>1, TaskIs
<1>9. Course'
  <2>1. t = "executor" => /\ ~Unmatched /\ x.at \notin {"drive", "match"} /\ SenderShape(x)
                          /\ Sender.at # "idle" /\ x.order = Sender.order
    BY <1>1, <1>2 DEF Unmatched, Sender, SenderShape, SeenInv, Course, Shape
  <2>2. t \in Watcher => WatcherShape(x)
    BY <1>1, <1>2 DEF WatcherShape, SeenInv, Course, Shape
  <2>3. \A o \in waiting' \union tried' : ReportsOf(book, o) # {} /\ o \in waiting \union tried
    BY <1>6 DEF SeenInv, Course, Tries
  <2>4. \A o \in closed' : o \in closed \/ Ends(book, o) # {}  BY <1>5, <1>6
  <2> QED  BY <1>1, <1>6, <1>7, <2>1, <2>2, <2>3, <2>4, QuietCourse DEF SeenInv
<1>10. ASSUME NEW o \in Order \ met' PROVE Seen(o)'
  <2>1. Seen(o) /\ o \in Order  BY <1>6 DEF SeenInv
  <2>2. i \in Nat /\ task[t].last \in Nat  BY <1>3, Numbers
  <2>3. InSync(task[t]) /\ InSync(x)  BY <1>1, <1>2 DEF InSync
  <2>4. /\ Ends(book, o) \subseteq ReportsOf(book, o)
        /\ \A j \in ReportsOf(book, o) : j \in Nat
        /\ \A j \in Ends(book, o), k \in ReportsOf(book, o) : k <= j
        /\ Ends(book, o) # {} => o \notin Open(book)
    BY EndsAre DEF Inv
  <2>5. CASE r.order # o
    <3>1. /\ cache'[o] = cache[o] /\ released'[o] = released[o]
          /\ o \in closed' <=> o \in closed
          /\ o \in pending' <=> o \in pending
      BY <1>6, <2>5 DEF Recorded, Inv, ControlInv, RouterType
    <3>2. i \notin ReportsOf(book, o)  BY <1>4, <2>5 DEF ReportsOf
    <3>3. CASE ~BusyOn(task[t], o)
      <4>1. task[t].next <= x.next  BY <1>1, <1>3, <2>2
      <4> QED  BY <1>1, <1>6, <1>7, <2>1, <2>3, <3>1, <3>3, <4>1, QuietFrame
    <3>4. CASE BusyOn(task[t], o)
      <4>1. \A u \in Thread : u # t => ~BusyOn(task[u], o)  BY <2>1, <3>4, Sole DEF SeenInv
      <4>2. \A u \in Thread : u # t => ~InSync(task[u])  BY <2>1, <3>4 DEF Seen
      <4>3. BusyOn(x, o)  BY <1>7, <3>4
      <4>4. \A j : Told(o, j)' <=> Told(o, j)  BY <1>6, <3>1, QuietTold
      <4>5. \A j \in Ends(book, o) : j < x.next <=> j < task[t].next
        BY <1>1, <1>3, <2>2, <2>4, <3>2
      <4>6. t = "executor" => Sending(o, x)'
        <5> SUFFICES ASSUME t = "executor" PROVE Sending(o, x)'  OBVIOUS
        <5>1. Sending(o, task[t])  BY <2>1, <3>4 DEF Seen, Sender
        <5> QED  BY <1>1, <1>6, <2>3, <3>1, <4>4, <4>5, <5>1, QuietBook DEF Sending, InSync
      <4>7. t \in Watcher => Cancelling(o, x)'
        <5> SUFFICES ASSUME t \in Watcher PROVE Cancelling(o, x)'  OBVIOUS
        <5>1. Cancelling(o, task[t])  BY <2>1, <3>4 DEF Seen
        <5> QED
          BY <1>1, <1>2, <1>6, <2>3, <3>1, <4>4, <4>5, <5>1, QuietBook DEF Cancelling, InSync
      <4> QED  BY <1>8, <4>1, <4>2, <4>3, <4>6, <4>7, SeenBy
    <3> QED  BY <3>3, <3>4
  <2>6. CASE r.order = o
    <3>1. i \in ReportsOf(book, o) /\ (r.kind \in FinalKind => i \in Ends(book, o))
      BY <1>5, <2>6
    <3>2. BusyOn(task[t], o)
      <4> SUFFICES ASSUME ~BusyOn(task[t], o) PROVE FALSE  OBVIOUS
      <4>1. \A u \in Thread : ~BusyOn(task[u], o)  BY <2>1, <2>3 DEF Seen
      <4>2. i < task[t].next  BY <2>1, <2>3, <3>1, <4>1 DEF Seen, AllTold
      <4> QED  BY <1>3, <2>2, <4>2
    <3>3. \A u \in Thread : u # t => ~BusyOn(task[u], o)  BY <2>1, <3>2, Sole DEF SeenInv
    <3>4. \A u \in Thread : u # t => ~InSync(task[u])  BY <2>1, <3>2 DEF Seen
    <3>5. BusyOn(x, o)  BY <1>7, <3>2
    <3>6. r.kind \in FinalKind => \A j \in Ends(book, o) : j = i
      <4> SUFFICES ASSUME r.kind \in FinalKind, NEW j \in Ends(book, o) PROVE j = i  OBVIOUS
      <4>1. j <= i /\ i <= j /\ j \in Nat  BY <2>4, <3>1
      <4> QED  BY <2>2, <4>1
    <3>7. r.kind \notin FinalKind => \A j \in Ends(book, o) : ~(j < x.next) /\ ~(j < i)
      <4> SUFFICES ASSUME r.kind \notin FinalKind, NEW j \in Ends(book, o)
                   PROVE  ~(j < x.next) /\ ~(j < i)
        OBVIOUS
      <4>1. j # i /\ i <= j /\ j \in Nat  BY <1>4, <2>4, <3>1 DEF Ends
      <4> QED  BY <1>1, <1>3, <2>2, <4>1
    <3>8. i < x.next  BY <1>1, <1>3, <2>2
    <3>9. ASSUME r.kind \in FinalKind, task[t].known \/ r.kind \in released[o]
          PROVE  Told(o, i)'
      <4>1. cache'[o] = r.kind /\ o \in closed' /\ o \notin pending'
        BY <1>6, <2>6, <3>9 DEF Inv, ControlInv, RouterType
      <4>2. r.kind \in released'[o]
        BY <1>6, <2>6, <3>9 DEF Recorded, Inv, ControlInv, RouterType
      <4> QED  BY <1>4, <1>6, <4>1, <4>2, QuietBook DEF Told
    <3>10. released[o] \subseteq released'[o]
      BY <1>6, <2>6 DEF Recorded, Inv, ControlInv, RouterType
    <3>11. t = "executor" => Sending(o, x)'
      <4> SUFFICES ASSUME t = "executor" PROVE Sending(o, x)'  OBVIOUS
      <4>1. Sending(o, task[t])  BY <2>1, <3>2 DEF Seen, Sender
      <4>2. /\ o \in Open(book) => o \in pending
            /\ \A j \in ReportsOf(book, o) : j <= x.last
            /\ \A j \in Ends(book, o) : IF j < i THEN Told(o, j) ELSE o \in pending
            /\ i \in Ends(book, o) => task[t].known
        BY <1>1, <1>2, <1>3, <2>3, <4>1 DEF Sending
      <4>3. CASE r.kind \in FinalKind
        <5>1. Told(o, i)'  BY <3>1, <3>9, <4>2, <4>3
        <5>2. \A j \in Ends(book, o) : j < x.next /\ Told(o, j)'  BY <3>6, <3>8, <4>3, <5>1
        <5>3. o \notin Open(book)  BY <2>4, <3>1, <4>3
        <5> QED  BY <1>1, <1>6, <4>2, <5>2, <5>3, QuietBook DEF Sending
      <4>4. CASE r.kind \notin FinalKind
        <5>1. pending' = pending  BY <1>6, <4>4
        <5>2. \A j \in Ends(book, o) : ~(j < x.next) /\ o \in pending  BY <3>7, <4>2, <4>4
        <5> QED  BY <1>1, <1>6, <4>2, <5>1, <5>2, QuietBook DEF Sending
      <4> QED  BY <4>3, <4>4
    <3>12. t \in Watcher => Cancelling(o, x)'
      <4> SUFFICES ASSUME t \in Watcher PROVE Cancelling(o, x)'  OBVIOUS
      <4>1. Cancelling(o, task[t])  BY <2>1, <3>2 DEF Seen
      <4>2. /\ o \notin pending /\ "cancelled" \in released[o] /\ Ends(book, o) # {}
            /\ \A j \in Ends(book, o) : book.reports[j].kind = "cancelled"
            /\ \A j \in ReportsOf(book, o) : j <= x.last
        BY <1>1, <1>2, <2>3, <4>1 DEF Cancelling
      <4>3. o \notin pending' /\ "cancelled" \in released'[o]  BY <1>6, <3>10, <4>2
      <4>4. ASSUME NEW j \in Ends(book, o), j < x.next PROVE Told(o, j)'
        <5>1. r.kind \in FinalKind  BY <3>7, <4>4
        <5>2. j = i /\ r.kind = "cancelled"  BY <1>4, <3>6, <4>2, <4>4, <5>1
        <5> QED  BY <3>9, <4>2, <5>1, <5>2
      <4> QED  BY <1>1, <1>6, <4>2, <4>3, <4>4, QuietBook DEF Cancelling
    <3> QED  BY <1>8, <3>3, <3>4, <3>5, <3>11, <3>12, SeenBy
  <2> QED  BY <2>5, <2>6
<1> QED  BY <1>9, <1>10 DEF SeenInv

LEMMA ReturnSeen == ASSUME Inv, SeenInv, Return PROVE SeenInv'
<1>1. PICK p : p = Sender.order  OBVIOUS
<1>2. /\ Sender.at = "look" /\ task' = [task EXCEPT !["executor"] = Idle]
      /\ UNCHANGED broker
      /\ UNCHANGED <<pending, cache, closed, cursor, tried, released, met>>
      /\ IF cache[p] = "filled" THEN paid' = paid \union {p} /\ UNCHANGED waiting
         ELSE waiting' = waiting \union {p} /\ UNCHANGED paid
  BY <1>1 DEF Return, Sender
<1>3. Idle \in TaskRecord  BY DEF Idle, TaskRecord, Step
<1>4. "executor" \in Thread /\ "executor" \notin Watcher  BY ThreadAssumption DEF Thread
<1>5. p \in Order  BY <1>1, <1>2, <1>4 DEF Sender, Inv, ControlInv, TasksInv, Handles
<1>6. BusyOn(Sender, p) /\ \A o \in Order : ~BusyOn(Idle, o)
  BY <1>1, <1>2 DEF SeenInv, Course, Shape, SenderShape, BusyOn, Idle
<1>7. Course'
  <2>1. ~Unmatched /\ Idle.at = "idle" /\ SenderShape(Idle)
    BY <1>2 DEF Unmatched, SenderShape, Idle
  <2>2. ASSUME NEW o \in waiting' \union tried'
        PROVE  ReportsOf(book, o) # {} /\ (o \in waiting \union tried \/ Idle.at = "idle")
    <3>1. o \in waiting \union tried \/ o = p  BY <1>2
    <3>2. ReportsOf(book, p) # {}  BY <1>1, <1>2, <2>1 DEF SeenInv, Course, Driving
    <3> QED  BY <2>1, <3>1, <3>2 DEF SeenInv, Course, Tries
  <2> QED  BY <1>2, <1>3, <1>4, <2>1, <2>2, QuietCourse DEF SeenInv
<1>8. ASSUME NEW o \in Order \ met' PROVE Seen(o)'
  <2>1. Seen(o) /\ o \in Order  BY <1>2 DEF SeenInv
  <2>2. CASE o # p
    <3>1. ~BusyOn(task["executor"], o) /\ ~InSync(Idle)
      BY <1>1, <2>2 DEF BusyOn, Sender, InSync, Idle
    <3>2. o \in paid => o \in paid'  BY <1>2
    <3> QED  BY <1>2, <1>3, <1>4, <1>6, <2>1, <3>1, <3>2, QuietFrame
  <2>3. CASE o = p
    <3>1. BusyOn(task["executor"], o)  BY <1>6, <2>3 DEF Sender
    <3>2. \A u \in Thread : u # "executor" => ~BusyOn(task[u], o) /\ ~InSync(task[u])
      BY <1>4, <2>1, <3>1, Sole DEF SeenInv, Seen
    <3>3. task'["executor"] = Idle /\ \A u \in Thread : u # "executor" => task'[u] = task[u]
      BY <1>2, <1>4, TaskIs
    <3>4. \A u \in Thread : ~InSync(task[u])'  BY <3>2, <3>3 DEF InSync, Idle
    <3>5. Sending(o, Sender)  BY <1>6, <2>1, <2>3 DEF Seen
    <3>6. \A i \in Ends(book, o) : Told(o, i) /\ (book.reports[i].kind = "filled" => o \in paid')
      BY <1>2, <2>3, <3>5 DEF Sending, Told
    <3>7. \A i : Told(o, i)' <=> Told(o, i)  BY <1>2, QuietTold
    <3>8. AllTold(o)'  BY <1>2, <3>4, <3>5, <3>6, <3>7, QuietBook DEF AllTold, Sending
    <3> QED  BY <1>4, <1>6, <2>1, <3>2, <3>3, <3>8, SeenBy
  <2> QED  BY <2>2, <2>3
<1> QED  BY <1>7, <1>8 DEF SeenInv

\* a mapping that is terminal is one of an order that does not wait in the broker
LEMMA ClosedSeen ==
    ASSUME Inv, SeenInv, NEW o \in Order, o \in waiting, o \in closed, o \notin met
    PROVE  o \notin pending
<1>1. Seen(o) /\ Ends(book, o) # {}  BY DEF SeenInv, Course, ClosedEnded
<1>2. o \notin Open(book)  BY <1>1, EndsAre DEF Inv
<1>3. ~BusyOn(Sender, o)  BY DEF SeenInv, Course, Driving, BusyOn
<1>4. ASSUME NEW t \in Watcher, BusyOn(task[t], o) PROVE o \notin pending
  BY <1>1, <1>2, <1>4 DEF Seen, Cancelling
<1>5. ASSUME \A t \in Thread : ~BusyOn(task[t], o) PROVE o \notin pending
  BY <1>1, <1>5 DEF Seen, AllTold, Told
<1> QED  BY <1>3, <1>4, <1>5 DEF Thread, Sender

LEMMA PollSeen ==
    ASSUME Inv, SeenInv, NEW t \in Watcher, NEW p \in Order, Poll(t, p) PROVE SeenInv'
<1>1. t \in Thread /\ t # "executor" /\ task[t] \in TaskRecord /\ task \in [Thread -> TaskRecord]
  BY ThreadAssumption DEF Thread, Inv, ControlInv, TasksInv
<1>2. /\ UNCHANGED broker /\ UNCHANGED <<cache, closed, cursor, tried, paid, released, met>>
      /\ task[t].at = "idle" /\ p \in waiting /\ waiting' \subseteq waiting
      /\ pending' = pending \/ (p \in closed /\ pending' = pending \ {p})
  BY DEF Poll
<1> DEFINE y == [Idle EXCEPT !.at = "sync", !.call = "poll", !.order = p]
<1>3. y \in TaskRecord /\ y.at = "sync" /\ y.call = "poll"  BY DEF TaskRecord, Idle, Step
<1> HIDE DEF y
<1>4. PICK x \in TaskRecord :
        /\ task' = [task EXCEPT ![t] = x]
        /\ x = task[t] \/ (x.at = "sync" /\ x.call = "poll")
  <2>1. CASE p \in closed
    <3>1. PICK z \in TaskRecord : z = task[t]  BY <1>1
    <3>2. task' = [task EXCEPT ![t] = z]  BY <1>1, <2>1, <3>1 DEF Poll
    <3> QED  BY <3>1, <3>2
  <2>2. CASE p \notin closed
    <3>1. task' = [task EXCEPT ![t] = y]  BY <2>2 DEF Poll, y
    <3> QED  BY <1>3, <3>1
  <2> QED  BY <2>1, <2>2
<1>5. /\ \A o : ~BusyOn(task[t], o) /\ ~BusyOn(x, o)
      /\ ~InSync(x) /\ WatcherShape(x)
  BY <1>2, <1>4 DEF BusyOn, InSync, SeenInv, Course, Shape, WatcherShape
<1>6. Course'
  <2>1. \A o \in waiting' \union tried' : ReportsOf(book, o) # {} /\ o \in waiting \union tried
    BY <1>2 DEF SeenInv, Course, Tries
  <2> QED  BY <1>1, <1>2, <1>4, <1>5, <2>1, QuietCourse DEF SeenInv
<1>7. ASSUME NEW o \in Order \ met' PROVE Seen(o)'
  <2>1. Seen(o) /\ o \in Order /\ o \notin met  BY <1>2 DEF SeenInv
  <2>2. o \in pending' <=> o \in pending  BY <1>2, <2>1, ClosedSeen
  <2> QED  BY <1>1, <1>2, <1>4, <1>5, <2>1, <2>2, QuietFrame
<1> QED  BY <1>6, <1>7 DEF SeenInv

LEMMA ClaimSeen ==
    ASSUME Inv, SeenInv, NEW t \in Watcher, NEW p \in Order, Claim(t, p) PROVE SeenInv'
<1>1. t \in Thread /\ t # "executor"  BY ThreadAssumption DEF Thread
<1>2. /\ UNCHANGED broker /\ UNCHANGED <<cache, closed, cursor, waiting, paid, released>>
      /\ task[t].at = "idle" /\ p \in waiting /\ p \notin tried /\ p \notin closed
      /\ tried' = tried \union {p} /\ pending' = pending \ {p} /\ Meets(t, p)
  BY DEF Claim
<1> DEFINE k == p \in pending
           y == [Idle EXCEPT !.at = "cancel", !.call = "cancel", !.order = p, !.known = k]
<1>3. k \in BOOLEAN  OBVIOUS
<1> HIDE DEF k
<1>4. /\ y \in TaskRecord /\ y.at = "cancel" /\ y.call = "cancel" /\ y.order = p
      /\ y.known = k
  BY <1>3 DEF TaskRecord, Idle, Step
<1>5. task' = [task EXCEPT ![t] = y]  BY DEF Claim, k
<1> HIDE DEF y
<1>6. PICK x \in TaskRecord :
        /\ task' = [task EXCEPT ![t] = x]
        /\ x.at = "cancel" /\ x.call = "cancel" /\ x.order = p
        /\ x.known <=> p \in pending
  BY <1>4, <1>5 DEF k
<1>7. /\ \A o : ~BusyOn(task[t], o) /\ (BusyOn(x, o) <=> o = p)
      /\ ~InSync(x) /\ WatcherShape(x)
  BY <1>2, <1>6 DEF BusyOn, InSync, WatcherShape
<1>8. Course'
  <2>1. \A o \in waiting' \union tried' : ReportsOf(book, o) # {} /\ o \in waiting \union tried
    BY <1>2 DEF SeenInv, Course, Tries
  <2> QED  BY <1>1, <1>2, <1>6, <1>7, <2>1, QuietCourse DEF SeenInv
<1>9. ASSUME NEW o \in Order \ met' PROVE Seen(o)'
  <2>1. Seen(o) /\ o \in Order  BY <1>2 DEF SeenInv, Meets
  <2>2. CASE o # p
    <3>1. o \in pending' <=> o \in pending  BY <1>2, <2>2
    <3> QED  BY <1>1, <1>2, <1>6, <1>7, <2>1, <2>2, <3>1, QuietFrame
  <2>3. CASE o = p
    <3>1. \A u \in Thread : u # t => ~InSync(task[u])
      BY <1>2, <2>3 DEF Meets, Syncing, InSync
    <3>2. \A u \in Thread : ~BusyOn(task[u], o)
      BY <1>2, <2>1, <2>3 DEF SeenInv, Course, Driving, Tries, BusyOn, Thread, Sender
    <3>3. AllTold(o)  BY <2>1, <3>2 DEF Seen
    <3>4. Ends(book, o) = {}  BY <1>2, <2>3, <3>3 DEF AllTold, Told
    <3>5. ReportsOf(book, o) # {}  BY <1>2, <2>3 DEF SeenInv, Course, Tries
    <3>6. o \in Open(book)  BY <2>1, <3>4, <3>5, EndsAre DEF Inv
    <3>7. x.known  BY <1>6, <2>3, <3>3, <3>6 DEF AllTold
    <3>8. Cancelling(o, x)'
      BY <1>2, <1>6, <2>3, <3>3, <3>6, <3>7, QuietBook DEF Cancelling, AllTold, InSync
    <3>9. task'[t] = x /\ \A u \in Thread : u # t => task'[u] = task[u]
      BY <1>1, <1>6, TaskIs
    <3> QED  BY <1>1, <1>7, <2>1, <2>3, <3>1, <3>2, <3>8, <3>9, SeenBy
  <2> QED  BY <2>2, <2>3
<1> QED  BY <1>8, <1>9 DEF SeenInv

LEMMA CancelGoneSeen ==
    ASSUME Inv, SeenInv, NEW t \in Watcher, CancelGone(t) PROVE SeenInv'
<1>1. t \in Thread /\ t # "executor"  BY ThreadAssumption DEF Thread
<1>2. /\ UNCHANGED broker /\ task[t].at = "cancel" /\ task[t].order \notin Open(book)
      /\ UNCHANGED <<pending, cache, closed, cursor, waiting, tried, paid, released, met>>
      /\ Goes(t, "mark") /\ "mark" \in Step
  BY DEF CancelGone, Step
<1>3. PICK x \in TaskRecord :
        /\ task' = [task EXCEPT ![t] = x] /\ x.at = "mark"
        /\ x.call = task[t].call /\ x.order = task[t].order
  BY <1>1, <1>2, GoesTask
<1>4. task[t].call = "cancel" /\ WatcherShape(x)
  BY <1>2, <1>3 DEF SeenInv, Course, Shape, WatcherShape
<1>5. /\ \A o : (BusyOn(task[t], o) <=> o = task[t].order) /\ (BusyOn(x, o) <=> o = task[t].order)
      /\ ~InSync(x)
  BY <1>2, <1>3, <1>4 DEF BusyOn, InSync
<1>6. Course'
  <2>1. \A o \in waiting' \union tried' : ReportsOf(book, o) # {} /\ o \in waiting \union tried
    BY <1>2 DEF SeenInv, Course, Tries
  <2> QED  BY <1>1, <1>2, <1>3, <1>4, <1>5, <2>1, QuietCourse DEF SeenInv
<1>7. ASSUME NEW o \in Order \ met' PROVE Seen(o)'
  <2>1. Seen(o) /\ o \in Order  BY <1>2 DEF SeenInv
  <2>2. o # task[t].order  BY <1>2, <1>5, <2>1 DEF Seen, Cancelling
  <2> QED  BY <1>1, <1>2, <1>3, <1>5, <2>1, <2>2, QuietFrame
<1> QED  BY <1>6, <1>7 DEF SeenInv

LEMMA MarkSeen ==
    ASSUME Inv, SeenInv, NEW t \in Watcher, Mark(t) PROVE SeenInv'
<1>1. t \in Thread /\ t # "executor" /\ task[t] \in TaskRecord
  BY ThreadAssumption DEF Thread, Inv, ControlInv, TasksInv
<1>2. PICK p : p = task[t].order  OBVIOUS
<1>3. /\ UNCHANGED broker /\ task[t].at = "mark" /\ cache' = [cache EXCEPT ![p] = "cancelled"]
      /\ UNCHANGED <<pending, closed, cursor, waiting, tried, paid, released, met>>
  BY <1>2 DEF Mark
<1> DEFINE x == [task[t] EXCEPT !.at = "sync", !.call = "poll"]
<1>4. x \in TaskRecord /\ x.at = "sync" /\ x.call = "poll"  BY <1>1 DEF TaskRecord, Step
<1>5. task' = [task EXCEPT ![t] = x]  BY DEF Mark
<1> HIDE DEF x
<1>6. /\ \A o : (BusyOn(task[t], o) <=> o = p) /\ ~BusyOn(x, o)
      /\ ~InSync(x) /\ WatcherShape(x)
  BY <1>2, <1>3, <1>4 DEF BusyOn, InSync, SeenInv, Course, Shape, WatcherShape
<1>7. Course'
  <2>1. \A o \in waiting' \union tried' : ReportsOf(book, o) # {} /\ o \in waiting \union tried
    BY <1>3 DEF SeenInv, Course, Tries
  <2> QED  BY <1>1, <1>3, <1>4, <1>5, <1>6, <2>1, QuietCourse DEF SeenInv
<1>8. ASSUME NEW o \in Order \ met' PROVE Seen(o)'
  <2>1. Seen(o) /\ o \in Order  BY <1>3 DEF SeenInv
  <2>2. CASE o # p
    <3>1. cache'[o] = cache[o]  BY <1>3, <2>1, <2>2 DEF Inv, ControlInv, RouterType
    <3> QED  BY <1>1, <1>3, <1>4, <1>5, <1>6, <2>1, <2>2, <3>1, QuietFrame
  <2>3. CASE o = p
    <3>1. \A u \in Thread : u # t => ~BusyOn(task[u], o) /\ ~InSync(task[u])
      BY <1>1, <1>6, <2>1, <2>3, Sole DEF SeenInv, Seen
    <3>2. task'[t] = x /\ \A u \in Thread : u # t => task'[u] = task[u]
      BY <1>1, <1>5, TaskIs
    <3>3. \A u \in Thread : ~InSync(task[u])'  BY <1>6, <3>1, <3>2 DEF InSync
    <3>4. Cancelling(o, task[t])  BY <1>6, <2>1, <2>3 DEF Seen
    <3>5. /\ \A i \in ReportsOf(book, o) : i <= cursor
          /\ \A i \in Ends(book, o) : Told(o, i) /\ book.reports[i].kind = "cancelled"
          /\ Ends(book, o) # {}
      BY <1>3, <3>4 DEF Cancelling
    <3>6. o \notin Open(book)  BY <2>1, <3>5, EndsAre DEF Inv
    <3>7. cache'[o] = "cancelled"  BY <1>3, <2>1, <2>3 DEF Inv, ControlInv, RouterType
    <3>8. \A i \in Ends(book, o) : Told(o, i)'  BY <1>3, <3>5, <3>7, QuietBook DEF Told
    <3>9. AllTold(o)'  BY <1>3, <3>3, <3>5, <3>6, <3>8, QuietBook DEF AllTold
    <3> QED  BY <1>1, <1>6, <2>1, <3>1, <3>2, <3>9, SeenBy
  <2> QED  BY <2>2, <2>3
<1> QED  BY <1>7, <1>8 DEF SeenInv

LEMMA LookSeen ==
    ASSUME Inv, SeenInv, NEW t \in Watcher, Look(t) PROVE SeenInv'
<1>1. t \in Thread /\ t # "executor"  BY ThreadAssumption DEF Thread
<1>2. /\ UNCHANGED broker /\ task[t].at = "look" /\ task' = [task EXCEPT ![t] = Idle]
      /\ UNCHANGED <<pending, cache, closed, cursor, tried, paid, released, met>>
      /\ waiting' \subseteq waiting
  BY DEF Look
<1>3. Idle \in TaskRecord  BY DEF Idle, TaskRecord, Step
<1>4. /\ \A o : ~BusyOn(task[t], o) /\ ~BusyOn(Idle, o)
      /\ ~InSync(Idle) /\ WatcherShape(Idle)
  BY <1>2 DEF BusyOn, InSync, SeenInv, Course, Shape, WatcherShape, Idle
<1>5. Course'
  <2>1. \A o \in waiting' \union tried' : ReportsOf(book, o) # {} /\ o \in waiting \union tried
    BY <1>2 DEF SeenInv, Course, Tries
  <2> QED  BY <1>1, <1>2, <1>3, <1>4, <2>1, QuietCourse DEF SeenInv
<1>6. ASSUME NEW o \in Order \ met' PROVE Seen(o)'
  <2>1. Seen(o) /\ o \in Order  BY <1>2 DEF SeenInv
  <2> QED  BY <1>1, <1>2, <1>3, <1>4, <2>1, QuietFrame
<1> QED  BY <1>5, <1>6 DEF SeenInv

\* A step of the round that reports nothing.
LEMMA RoundSeen ==
    ASSUME Inv, SeenInv, UNCHANGED asked, NEW x \in TaskRecord,
           book'.open = book.open, book'.reports = book.reports,
           Sender.at \in {"drive", "match"}, x.at \in {"drive", "match", "sync"},
           x.call = Sender.call, x.order = Sender.order,
           task' = [task EXCEPT !["executor"] = x],
           Unmatched' <=> Unmatched,
           UNCHANGED <<pending, cache, closed, cursor, waiting, tried, paid, released, met>>
    PROVE  SeenInv'
<1>1. "executor" \in Thread /\ "executor" \notin Watcher /\ \A u \in Watcher : u \in Thread
  BY ThreadAssumption DEF Thread
<1>2. /\ task'["executor"] = x /\ \A u \in Thread : u # "executor" => task'[u] = task[u]
      /\ Sender' = x /\ \A u \in Watcher : task'[u] = task[u]
  BY <1>1, TaskIs DEF Sender
<1>3. PICK b : b = book'  OBVIOUS
<1>4. /\ Open(book)' = Open(book)
      /\ \A o : ReportsOf(book, o)' = ReportsOf(book, o) /\ Ends(book, o)' = Ends(book, o)
  <2>1. b.open = book.open /\ b.reports = book.reports  BY <1>3
  <2>2. /\ Open(b) = Open(book)
        /\ \A o : ReportsOf(b, o) = ReportsOf(book, o) /\ Ends(b, o) = Ends(book, o)
    BY <2>1 DEF Open, ReportsOf, Ends
  <2> QED  BY <1>3, <2>2, ReadAgain
<1>5. \A o \in Order : BusyOn(x, o) <=> BusyOn(Sender, o)  BY DEF BusyOn
<1>6. ~InSync(x) /\ ~InSync(Sender) /\ Sender.call = "send" /\ SenderShape(x)
  BY DEF InSync, SeenInv, Course, Shape, SenderShape
<1>7. Course'
  <2>1. Shape'  BY <1>2, <1>6 DEF SeenInv, Course, Shape, SenderShape, WatcherShape
  <2>2. OpenRests'  BY <1>2, <1>4 DEF SeenInv, Course, OpenRests
  <2>3. Driving'  BY <1>2, <1>4 DEF SeenInv, Course, Driving
  <2>4. Tries'  BY <1>2, <1>4 DEF SeenInv, Course, Tries, BusyOn
  <2>5. ClosedEnded'  BY <1>4 DEF SeenInv, Course, ClosedEnded
  <2> QED  BY <2>1, <2>2, <2>3, <2>4, <2>5 DEF Course
<1>8. ASSUME NEW o \in Order \ met' PROVE Seen(o)'
  <2>1. Seen(o) /\ o \in Order  BY DEF SeenInv
  <2>2. CASE ~BusyOn(Sender, o)
    <3>1. ~BusyOn(task["executor"], o) /\ ~BusyOn(x, o)  BY <1>5, <2>2 DEF Sender
    <3> QED  BY <1>1, <1>2, <1>4, <1>6, <2>1, <3>1, SeenFrame
  <2>3. CASE BusyOn(Sender, o)
    <3>1. BusyOn(task["executor"], o) /\ BusyOn(x, o)  BY <1>5, <2>3 DEF Sender
    <3>2. \A u \in Thread : u # "executor" => ~BusyOn(task[u], o) /\ ~InSync(task[u])
      BY <1>1, <2>1, <3>1, Sole DEF SeenInv, Seen
    <3>3. Sending(o, Sender)  BY <2>1, <2>3 DEF Seen
    <3>4. Sending(o, x)'  BY <1>4, <1>6, <3>3 DEF Sending, InSync
    <3> QED  BY <1>1, <1>2, <2>1, <3>1, <3>2, <3>4, SeenBy
  <2> QED  BY <2>2, <2>3
<1> QED  BY <1>7, <1>8 DEF SeenInv

LEMMA DriveSeen ==
    ASSUME Inv, SeenInv, NEW due \in SUBSET queue, Drive(due) PROVE SeenInv'
<1>1. /\ Sender.at = "drive" /\ Sender.order \in due /\ Goes("executor", "match")
      /\ UNCHANGED <<book, asked>> /\ round'.due = due
      /\ UNCHANGED <<pending, cache, closed, cursor, waiting, tried, paid, released, met>>
      /\ "executor" \in Thread /\ "match" \in Step
  BY DEF Drive, BeginRound, Sender, Thread, Step
<1>2. PICK x \in TaskRecord :
        /\ task' = [task EXCEPT !["executor"] = x] /\ x.at = "match"
        /\ x.call = Sender.call /\ x.order = Sender.order
  BY <1>1, GoesTask DEF Sender
<1>3. Sender' = x  BY <1>1, <1>2, TaskIs DEF Sender
<1>4. Unmatched' /\ Unmatched  BY <1>1, <1>2, <1>3 DEF Unmatched
<1> QED  BY <1>1, <1>2, <1>4, RoundSeen

LEMMA DrivenSeen == ASSUME Inv, SeenInv, Driven PROVE SeenInv'
<1>1. /\ Sender.at = "match" /\ round.due = {} /\ Goes("executor", "sync")
      /\ UNCHANGED <<book, asked>>
      /\ UNCHANGED <<pending, cache, closed, cursor, waiting, tried, paid, released, met>>
      /\ "executor" \in Thread /\ "sync" \in Step
  BY DEF Driven, EndRound, Sender, Thread, Step
<1>2. PICK x \in TaskRecord :
        /\ task' = [task EXCEPT !["executor"] = x] /\ x.at = "sync"
        /\ x.call = Sender.call /\ x.order = Sender.order
  BY <1>1, GoesTask DEF Sender
<1>3. Sender' = x  BY <1>1, <1>2, TaskIs DEF Sender
<1>4. ~Unmatched' /\ ~Unmatched  BY <1>1, <1>2, <1>3 DEF Unmatched
<1> QED  BY <1>1, <1>2, <1>4, RoundSeen

\* The order that the executor sent is taken: acknowledged at least, and with
\* that on its limit, about to fill, or gone.
LEMMA TakenSeen ==
    ASSUME Inv, routed, SeenInv, NEW p \in Order, Unmatched, Sender.order = p,
           Sender.at = "match", UNCHANGED router, UNCHANGED asked,
           NEW c \in Book, book' = c, Added(book, c, p), ReportsOf(c, p) # {},
           \A q \in Order : q # p => c.open[q] = book.open[q],
           \/ p \in round'.due /\ p \in Open(c)
           \/ /\ p \notin round'.due
              /\ p \in Open(c) => c.open[p].acked /\ asked[p].type = "limit"
    PROVE  SeenInv'
<1>1. /\ "executor" \in Thread /\ "executor" \notin Watcher /\ (\A u \in Watcher : u \in Thread)
      /\ Sender.call = "send" /\ p \in Open(book) /\ p \notin waiting \union tried
  BY ThreadAssumption DEF Thread, Sender, SeenInv, Course, Driving, Shape, SenderShape
<1>2. book \in Book /\ Len(book.reports) \in Nat  BY BookFacts DEF Inv, BrokerInv
<1>3. /\ task' = task /\ Sender' = Sender
      /\ UNCHANGED <<pending, cache, closed, cursor, waiting, tried, paid, released, met>>
  BY DEF router, Sender
<1>4. /\ Open(book)' = Open(c)
      /\ \A o : ReportsOf(book, o)' = ReportsOf(c, o) /\ Ends(book, o)' = Ends(c, o)
  BY ReadAgain
<1>5. /\ \A o : ReportsOf(book, o) \subseteq ReportsOf(c, o) /\ Ends(book, o) \subseteq Ends(c, o)
      /\ \A o : o # p => ReportsOf(c, o) = ReportsOf(book, o) /\ Ends(c, o) = Ends(book, o)
      /\ \A i \in DOMAIN book.reports : c.reports[i] = book.reports[i]
  BY <1>2, AddedIs
<1>6. \A o \in Order : o # p => (o \in Open(c) <=> o \in Open(book))  BY DEF Open
<1>7. Unmatched' <=> p \in round'.due  BY <1>3 DEF Unmatched
<1>8. Course'
  <2>1. Shape'  BY <1>3 DEF SeenInv, Course, Shape, SenderShape, WatcherShape
  <2>2. OpenRests'
    <3>1. ASSUME NEW o \in Open(c)
          PROVE  (c.open[o].acked /\ asked[o].type = "limit") \/ (p \in round'.due /\ o = p)
      <4>1. CASE o = p  BY <3>1, <4>1
      <4>2. CASE o # p
        <5>1. o \in Open(book) /\ c.open[o] = book.open[o]  BY <1>6, <3>1, <4>2 DEF Open
        <5> QED  BY <4>2, <5>1 DEF SeenInv, Course, OpenRests
      <4> QED  BY <4>1, <4>2
    <3> QED  BY <1>3, <1>4, <1>7, <3>1 DEF OpenRests
  <2>3. Driving'  BY <1>1, <1>3, <1>4, <1>7 DEF Driving
  <2>4. Tries'
    <3>1. \A o \in waiting \union tried : ReportsOf(c, o) # {}
      BY <1>5 DEF SeenInv, Course, Tries
    <3> QED  BY <1>3, <1>4, <3>1 DEF SeenInv, Course, Tries, BusyOn
  <2>5. ClosedEnded'  BY <1>3, <1>4, <1>5 DEF SeenInv, Course, ClosedEnded
  <2> QED  BY <2>1, <2>2, <2>3, <2>4, <2>5 DEF Course
<1>9. PICK x \in TaskRecord : x = Sender  BY <1>1 DEF Sender, Inv, ControlInv, TasksInv
<1>10. task'["executor"] = x /\ \A u \in Thread : u # "executor" => task'[u] = task[u]
  BY <1>3, <1>9 DEF Sender
<1>11. ~InSync(x)  BY <1>9 DEF InSync
<1>12. ASSUME NEW o \in Order \ met' PROVE Seen(o)'
  <2>1. Seen(o) /\ o \in Order  BY <1>3 DEF SeenInv
  <2>2. CASE o # p
    <3>1. /\ (o \in Open(book))' <=> o \in Open(book)
          /\ ReportsOf(book, o)' = ReportsOf(book, o) /\ Ends(book, o)' = Ends(book, o)
      BY <1>4, <1>5, <1>6, <2>1, <2>2
    <3>2. \A i \in ReportsOf(book, o) : book'.reports[i] = book.reports[i]
      BY <1>5 DEF ReportsOf
    <3>3. x = task["executor"]  BY <1>9 DEF Sender
    <3> QED  BY <1>1, <1>3, <1>10, <1>11, <2>1, <3>1, <3>2, <3>3, SeenFrame
  <2>3. CASE o = p
    <3>1. BusyOn(task["executor"], o) /\ BusyOn(x, o)
      BY <1>1, <1>9, <2>3 DEF BusyOn, Sender
    <3>2. \A u \in Thread : u # "executor" => ~BusyOn(task[u], o) /\ ~InSync(task[u])
      BY <1>1, <2>1, <3>1, Sole DEF SeenInv, Seen
    <3>3. Sending(o, Sender)  BY <2>1, <3>1 DEF Seen, Sender
    <3>4. o \in pending /\ \A i \in ReportsOf(book, p) : cursor < i
      BY <2>3, <3>3 DEF Sending
    <3>5. \A i \in ReportsOf(c, p) : cursor < i
      <4> TAKE i \in ReportsOf(c, p)
      <4>1. i \in 1..Len(c.reports) /\ c.reports[i].order = p /\ Len(c.reports) \in Nat
        BY DEF Book, ReportsOf
      <4>2. CASE i \in 1..Len(book.reports)
        <5>1. i \in DOMAIN book.reports  BY <1>2, <4>2 DEF Book
        <5>2. i \in ReportsOf(book, p)  BY <1>5, <4>1, <5>1 DEF ReportsOf
        <5> QED  BY <3>4, <5>2
      <4>3. CASE i \notin 1..Len(book.reports)  BY <1>2, <4>1, <4>3, Numbers
      <4> QED  BY <4>2, <4>3
    <3>6. Sending(o, x)'
      BY <1>3, <1>4, <1>9, <1>11, <2>3, <3>4, <3>5 DEF Sending, InSync
    <3> QED  BY <1>1, <1>10, <2>1, <3>1, <3>2, <3>6, SeenBy
  <2> QED  BY <2>2, <2>3
<1> QED  BY <1>8, <1>12 DEF SeenInv

\* A step that the router, and what is due of it, takes no part in.
LEMMA SameSeen ==
    ASSUME Inv, SeenInv, UNCHANGED router, UNCHANGED asked, Sender.at = "match",
           book'.open = book.open, book'.reports = book.reports,
           Sender.order \in round'.due <=> Sender.order \in round.due
    PROVE  SeenInv'
<1>1. "executor" \in Thread  BY DEF Thread
<1>2. PICK x \in TaskRecord : x = Sender  BY <1>1 DEF Sender, Inv, ControlInv, TasksInv
<1>3. task' = task /\ task' = [task EXCEPT !["executor"] = x]
  BY <1>1, <1>2 DEF router, Sender, Inv, ControlInv, TasksInv
<1>4. Unmatched' <=> Unmatched  BY <1>3 DEF Unmatched, Sender
<1>5. UNCHANGED <<pending, cache, closed, cursor, waiting, tried, paid, released, met>>
  BY DEF router
<1> QED  BY <1>2, <1>3, <1>4, <1>5, RoundSeen

LEMMA FirstTaken ==
    ASSUME SeenInv, Unmatched, NEW o \in Order, Sender.order = o
    PROVE  book.open[o].acked => ReportsOf(book, o) # {}
<1>1. Driving /\ Sender.at # "idle"  BY DEF SeenInv, Course, Unmatched
<1> QED  BY <1>1 DEF Driving

LEMMA MatchSeen == ASSUME Inv, routed, SeenInv, NEW o \in Order, Match(o) PROVE SeenInv'
<1>1. /\ UNCHANGED router /\ Sender.at = "match" /\ UNCHANGED asked
      /\ round'.due = round.due \ {o}
  <2>1. round \in [on : BOOLEAN, due : SUBSET Order, reported : BOOLEAN]
    BY DEF Inv, BrokerInv, CallsType
  <2> QED  BY <2>1 DEF Match, Sender, TakeGone, TakeQuoted, Take
<1>2. CASE TakeGone(o)
  <2>1. book' = book /\ o \notin Open(book)  BY <1>2 DEF TakeGone, Take
  <2>2. Sender.order \in round'.due <=> Sender.order \in round.due
    BY <1>1, <2>1 DEF SeenInv, Course, Driving, Unmatched
  <2> QED  BY <1>1, <2>1, <2>2, SameSeen
<1>3. CASE o \in Open(book) /\ LegacyFill(o) = 0 /\ TakeQuoted(o, LegacyFill(o))
  <2>1. /\ AskedType /\ Plain(book) /\ book.open[o] \in Detail /\ book \in Book
        /\ asked[o].tif = "gtc" /\ asked[o].type \in {"market", "limit"}
    BY <1>3, BookFacts, AskedFacts DEF Inv, BrokerInv, ControlInv, Apart
  <2>2. asked[o].type = "limit"  BY <1>3, <2>1 DEF LegacyFill, Detail
  <2>3. PICK b, c : b = book /\ c = Acknowledged(b, o)  OBVIOUS
  <2>4. /\ c \in Book /\ Added(b, c, o) /\ c.open[o] \in Detail /\ c.open[o].acked
        /\ \A p \in Order : p # o => c.open[p] = b.open[p]
        /\ b.open[o].acked => c = b
        /\ ~b.open[o].acked => Len(c.reports) > Len(b.reports)
    BY <2>1, <2>3, TakenIs
  <2>5. Matched(c, o, 0) = c  BY <2>1 DEF Matched
  <2>6. book' = c  BY <1>3, <2>3, <2>5 DEF TakeQuoted, Take
  <2>7. CASE Unmatched /\ Sender.order = o
    <3>1. book.open[o].acked => ReportsOf(book, o) # {}
      BY <2>7, FirstTaken
    <3>2. ReportsOf(c, o) # {}
      <4>1. CASE b.open[o].acked  BY <2>3, <2>4, <3>1, <4>1
      <4>2. CASE ~b.open[o].acked
        <5>1. DOMAIN c.reports = 1..Len(c.reports) /\ Len(c.reports) \in Nat
              /\ Len(b.reports) \in Nat
          BY <2>1, <2>3, <2>4 DEF Book
        <5>2. Len(c.reports) \in ReportsOf(c, o)
          BY <2>4, <4>2, <5>1 DEF Added, ReportsOf
        <5> QED  BY <5>2
      <4> QED  BY <4>1, <4>2
    <3>3. o \notin round'.due  BY <1>1
    <3> QED  BY <1>1, <2>2, <2>3, <2>4, <2>6, <2>7, <3>2, <3>3, TakenSeen
  <2>8. CASE ~(Unmatched /\ Sender.order = o)
    <3>1. book.open[o].acked  BY <1>3, <2>8 DEF SeenInv, Course, OpenRests
    <3>2. book' = book  BY <2>3, <2>4, <2>6, <3>1
    <3>3. Sender.order \in round'.due <=> Sender.order \in round.due
      BY <1>1, <2>8 DEF Unmatched
    <3> QED  BY <1>1, <3>2, <3>3, SameSeen
  <2> QED  BY <2>7, <2>8
<1> QED  BY <1>2, <1>3 DEF Match

\* the fill under way is one of the order that the executor sent
FillInv ==
    copy["executor"].use \in FillUse =>
        /\ Sender.at = "match" /\ copy["executor"].order = Sender.order
        /\ Sender.order \in round.due

\* a market order that is open is the one that was sent
LEMMA FillsSent ==
    ASSUME Inv, SeenInv, NEW o \in Order, o \in Open(book), LegacyFill(o) > 0
    PROVE  Unmatched /\ Sender.order = o
BY DEF LegacyFill, SeenInv, Course, OpenRests

LEMMA ReadToFillSeen ==
    ASSUME Inv, routed, SeenInv, NEW o \in Order, ReadToFill(o) PROVE SeenInv'
<1>1. /\ UNCHANGED router /\ UNCHANGED asked /\ round' = round /\ Sender.at = "match"
      /\ o \in round.due /\ o \in Open(book)
  BY DEF ReadToFill, Sender
<1>2. Unmatched /\ Sender.order = o  BY <1>1, FillsSent DEF ReadToFill
<1>3. AskedType /\ Plain(book) /\ book.open[o] \in Detail /\ book \in Book
  BY <1>1, BookFacts DEF Inv, BrokerInv
<1>4. PICK b, c : b = book /\ c = Acknowledged(b, o)  OBVIOUS
<1>5. /\ c \in Book /\ Added(b, c, o) /\ c.open[o] \in Detail
      /\ \A p \in Order : p # o => c.open[p] = b.open[p]
      /\ b.open[o].acked => c = b
      /\ ~b.open[o].acked => Len(c.reports) > Len(b.reports)
  BY <1>3, <1>4, TakenIs
<1>6. book' = c  BY <1>4 DEF ReadToFill
<1>7. ReportsOf(c, o) # {}
  <2>1. CASE b.open[o].acked
    <3>1. book.open[o].acked => ReportsOf(book, o) # {}  BY <1>2, FirstTaken
    <3> QED  BY <1>4, <1>5, <2>1, <3>1
  <2>2. CASE ~b.open[o].acked
    <3>1. DOMAIN c.reports = 1..Len(c.reports) /\ Len(c.reports) \in Nat
          /\ Len(b.reports) \in Nat
      BY <1>3, <1>4, <1>5 DEF Book
    <3>2. Len(c.reports) \in ReportsOf(c, o)  BY <1>5, <2>2, <3>1 DEF Added, ReportsOf
    <3> QED  BY <3>2
  <2> QED  BY <2>1, <2>2
<1>8. o \in Open(c) /\ o \in round'.due
  <2>1. NoOrder \notin Detail  BY DEF NoOrder, Detail
  <2> QED  BY <1>1, <1>5, <2>1 DEF Open
<1> QED  BY <1>1, <1>2, <1>4, <1>5, <1>6, <1>7, <1>8, TakenSeen

LEMMA BookFillSeen ==
    ASSUME Inv, routed, SeenInv, FillInv, NEW o \in Order, BookFill(o) PROVE SeenInv'
<1>1. UNCHANGED router /\ UNCHANGED asked /\ round' = round  BY DEF BookFill
<1>2. Sender.at = "match"  BY DEF FillInv, FillUse, BookFill, Uses
<1>3. book'.open = book.open /\ book'.reports = book.reports
  BY BookFillKeeps DEF Inv, ControlInv
<1> QED  BY <1>1, <1>2, <1>3, SameSeen

LEMMA SettleFillSeen ==
    ASSUME Inv, routed, SeenInv, FillInv, NEW o \in Order, SettleFill(o) PROVE SeenInv'
<1>1. /\ UNCHANGED router /\ UNCHANGED asked /\ Sender.at = "match" /\ Sender.order = o
      /\ o \in round.due /\ round'.due = round.due \ {o}
  <2>1. /\ Sender.at = "match" /\ Sender.order = o /\ o \in round.due
    BY DEF FillInv, FillUse, SettleFill, Uses
  <2>2. round \in [on : BOOLEAN, due : SUBSET Order, reported : BOOLEAN]
    BY DEF Inv, BrokerInv, CallsType
  <2> QED  BY <2>1, <2>2 DEF SettleFill, Take
<1>2. Unmatched  BY <1>1 DEF Unmatched
<1>3. PICK c : c = book'  OBVIOUS
<1>4. /\ BrokerInv' /\ Added(book, c, o) /\ Len(c.reports) > Len(book.reports)
      /\ c.open[o] = NoOrder /\ \A p \in Order : p # o => c.open[p] = book.open[p]
  BY <1>3, SettleFillKeeps DEF Inv, ControlInv
<1>5. c \in Book /\ Len(book.reports) \in Nat  BY <1>3, <1>4, ReportsLonger DEF Inv
<1>6. ReportsOf(c, o) # {} /\ o \notin Open(c) /\ o \notin round'.due
  <2>1. DOMAIN c.reports = 1..Len(c.reports) /\ Len(c.reports) \in Nat  BY <1>5 DEF Book
  <2>2. Len(c.reports) \in ReportsOf(c, o)  BY <1>4, <1>5, <2>1 DEF Added, ReportsOf
  <2> QED  BY <1>1, <1>4, <2>2 DEF Open
<1> QED  BY <1>1, <1>2, <1>3, <1>4, <1>5, <1>6, TakenSeen

LEMMA SendSeen == ASSUME Inv, routed, SeenInv, NEW p \in Order, Send(p) PROVE SeenInv'
<1>1. "executor" \in Thread /\ "executor" \notin Watcher /\ \A u \in Watcher : u \in Thread
  BY ThreadAssumption DEF Thread
<1>2. /\ Sender.at = "idle" /\ UNCHANGED <<asked, round>>
      /\ UNCHANGED <<closed, cursor, waiting, tried, paid, released>>
      /\ cache' = [cache EXCEPT ![p] = "pending"] /\ pending' = pending \union {p}
      /\ Meets("executor", p) /\ ReportsOf(book, p) = {} /\ book.open[p] = NoOrder
      /\ book' = Placed(Recalled("executor", SumsOf(p)), p)
  BY DEF Send, Submit, Unused, Open, Sender
<1> DEFINE y == [Idle EXCEPT !.at = "drive", !.call = "send", !.order = p]
<1>3. y \in TaskRecord /\ y.at = "drive" /\ y.call = "send" /\ y.order = p
  BY DEF TaskRecord, Idle, Step
<1>4. task' = [task EXCEPT !["executor"] = y]  BY DEF Send
<1> HIDE DEF y
<1>5. PICK x \in TaskRecord :
        /\ task' = [task EXCEPT !["executor"] = x]
        /\ x.at = "drive" /\ x.call = "send" /\ x.order = p
  BY <1>3, <1>4
<1>6. /\ task'["executor"] = x /\ \A u \in Thread : u # "executor" => task'[u] = task[u]
      /\ Sender' = x /\ \A u \in Watcher : task'[u] = task[u]
  BY <1>1, <1>5, TaskIs DEF Sender
<1>7. /\ \A o : BusyOn(x, o) <=> o = p
      /\ \A o : ~BusyOn(task["executor"], o)
      /\ ~InSync(x) /\ SenderShape(x)
  BY <1>2, <1>5 DEF BusyOn, InSync, SenderShape, Sender
<1>8. AskedType /\ Plain(book) /\ book \in Book  BY BookFacts DEF Inv, BrokerInv
<1>9. PICK a, b, c : a = book /\ b = Recalled("executor", SumsOf(p)) /\ c = Placed(b, p)
  OBVIOUS
<1>10. /\ c.open[p] \in Detail /\ ~c.open[p].acked /\ c.reports = book.reports
       /\ \A o \in Order : o # p => c.open[o] = book.open[o]
  <2>1. b \in Book /\ Alike(b, a)  BY <1>1, <1>8, <1>9, RecalledIs DEF Inv
  <2>2. Plain(a) /\ a.open[p] = NoOrder /\ ReportsOf(a, p) = {}  BY <1>2, <1>8, <1>9
  <2>3. /\ c.open[p] \in Detail /\ ~c.open[p].acked /\ c.reports = a.reports
        /\ \A o \in Order : o # p => c.open[o] = a.open[o]
    BY <1>8, <1>9, <2>1, <2>2, PlacedOf
  <2> QED  BY <1>9, <2>3
<1>11. /\ book' = c /\ Open(book)' = Open(c)
       /\ \A o : ReportsOf(book, o)' = ReportsOf(book, o) /\ Ends(book, o)' = Ends(book, o)
  <2>1. book' = c  BY <1>2, <1>9
  <2>2. \A o : ReportsOf(c, o) = ReportsOf(book, o) /\ Ends(c, o) = Ends(book, o)
    BY <1>10 DEF ReportsOf, Ends
  <2> QED  BY <2>1, <2>2, ReadAgain
<1>12. p \in Open(c) /\ \A o \in Order : o # p => (o \in Open(c) <=> o \in Open(book))
  <2>1. NoOrder \notin Detail  BY DEF NoOrder, Detail
  <2> QED  BY <1>10, <2>1 DEF Open
<1>13. p \notin waiting \union tried  BY <1>2 DEF SeenInv, Course, Tries
<1>14. Unmatched' /\ ~Unmatched  BY <1>2, <1>5, <1>6 DEF Unmatched
<1>15. Course'
  <2>1. Shape'  BY <1>6, <1>7 DEF SeenInv, Course, Shape, WatcherShape, SenderShape
  <2>2. OpenRests'
    <3>1. ASSUME NEW o \in Open(c), o # p PROVE c.open[o].acked /\ asked[o].type = "limit"
      <4>1. o \in Open(book) /\ c.open[o] = book.open[o]  BY <1>10, <1>12, <3>1 DEF Open
      <4> QED  BY <1>14, <4>1 DEF SeenInv, Course, OpenRests
    <3> QED  BY <1>2, <1>5, <1>6, <1>11, <1>14, <3>1 DEF OpenRests
  <2>3. Driving'
    BY <1>2, <1>5, <1>6, <1>10, <1>11, <1>12, <1>13, <1>14 DEF Driving
  <2>4. Tries'  BY <1>2, <1>6, <1>11 DEF SeenInv, Course, Tries, BusyOn
  <2>5. ClosedEnded'  BY <1>2, <1>11 DEF SeenInv, Course, ClosedEnded
  <2> QED  BY <2>1, <2>2, <2>3, <2>4, <2>5 DEF Course
<1>16. ASSUME NEW o \in Order \ met' PROVE Seen(o)'
  <2>1. Seen(o) /\ o \in Order  BY <1>2 DEF SeenInv, Meets
  <2>2. CASE o # p
    <3>1. /\ cache'[o] = cache[o] /\ (o \in Open(book))' <=> o \in Open(book)
          /\ o \in pending' <=> o \in pending
      BY <1>2, <1>11, <1>12, <2>1, <2>2 DEF Inv, ControlInv, RouterType
    <3>2. \A i \in ReportsOf(book, o) : book'.reports[i] = book.reports[i]
      BY <1>10, <1>11
    <3> QED  BY <1>1, <1>2, <1>6, <1>7, <1>11, <2>1, <2>2, <3>1, <3>2, SeenFrame
  <2>3. CASE o = p
    <3>1. \A u \in Thread : u # "executor" => ~InSync(task[u])
      BY <1>2, <2>3 DEF Meets, Syncing, InSync
    <3>2. \A u \in Thread : ~BusyOn(task[u], o)
      BY <1>7, <1>13, <2>1, <2>3 DEF SeenInv, Course, Tries, Thread
    <3>3. Sending(o, x)'
      BY <1>2, <1>5, <1>11, <2>3 DEF Sending, InSync
    <3> QED  BY <1>1, <1>6, <1>7, <2>1, <2>3, <3>1, <3>2, <3>3, SeenBy
  <2> QED  BY <2>2, <2>3
<1> QED  BY <1>15, <1>16 DEF SeenInv

LEMMA CancelOpenSeen ==
    ASSUME Inv, routed, SeenInv, NEW t \in Watcher, CancelOpen(t) PROVE SeenInv'
<1>1. t \in Thread /\ t # "executor" /\ "executor" \notin Watcher
      /\ \A u \in Watcher : u \in Thread
  BY ThreadAssumption DEF Thread
<1>2. PICK p : p = task[t].order  OBVIOUS
<1>3. /\ task[t].at = "cancel" /\ Cancel(p, Recalled(t, SumsOf(p))) /\ Goes(t, "sync") /\ "sync" \in Step
      /\ UNCHANGED <<pending, cache, closed, cursor, waiting, tried, paid, met>>
      /\ released' = IF task[t].known THEN [released EXCEPT ![p] = @ \union {"cancelled"}]
                     ELSE released
  BY <1>2 DEF CancelOpen, Step
<1>4. UNCHANGED <<asked, round>> /\ p \in Open(book)  BY <1>3 DEF Cancel
<1>5. p \in Order  BY <1>1, <1>2, <1>3 DEF Inv, ControlInv, TasksInv, Handles
<1>6. PICK x \in TaskRecord :
        /\ task' = [task EXCEPT ![t] = x] /\ x.at = "sync"
        /\ x.call = task[t].call /\ x.order = task[t].order
  BY <1>1, <1>3, GoesTask
<1>7. task'[t] = x /\ \A u \in Thread : u # t => task'[u] = task[u]  BY <1>1, <1>6, TaskIs
<1>8. task[t].call = "cancel" /\ WatcherShape(x) /\ ~InSync(x)
  BY <1>3, <1>6 DEF SeenInv, Course, Shape, WatcherShape, InSync
<1>9. \A o : (BusyOn(task[t], o) <=> o = p) /\ (BusyOn(x, o) <=> o = p)
  BY <1>2, <1>3, <1>6, <1>8 DEF BusyOn
<1>10. Sender' = Sender /\ (Unmatched' <=> Unmatched)
  BY <1>1, <1>4, <1>7 DEF Sender, Unmatched, Thread
<1>11. PICK r : r = [order |-> p, kind |-> "cancelled", qty |-> 0]  OBVIOUS
<1>12. r \in Report /\ r.order = p /\ r.kind = "cancelled" /\ r.kind \in FinalKind
  BY <1>5, <1>11 DEF Report, Kind, FinalKind
<1>13. PICK c : c = book'  OBVIOUS
<1>14. /\ BrokerInv' /\ c.reports = Append(book.reports, r) /\ c.open[p] = NoOrder
       /\ \A o \in Order : o # p => c.open[o] = book.open[o]
  BY <1>1, <1>3, <1>5, <1>11, <1>13, CallsOf
<1>15. book \in Book /\ c \in Book /\ Len(book.reports) \in Nat
  <2>1. Plain(book)'  BY <1>14 DEF BrokerInv, BooksInv
  <2>2. book' \in Book  BY <2>1 DEF Plain, BookType, Book, Detail, Report
  <2> QED  BY <1>13, <2>2, BookFacts DEF Inv, BrokerInv
<1>16. PICK m : m = Len(book.reports) + 1  OBVIOUS
<1>17. Added(book, c, p) /\ c.reports[m] = r /\ Len(c.reports) = m
  BY <1>12, <1>14, <1>15, <1>16, AppendAdds
<1>18. /\ Open(book)' = Open(c)
       /\ \A o : ReportsOf(book, o)' = ReportsOf(c, o) /\ Ends(book, o)' = Ends(c, o)
  BY <1>13, ReadAgain
<1>19. /\ \A o : ReportsOf(book, o) \subseteq ReportsOf(c, o) /\ Ends(book, o) \subseteq Ends(c, o)
       /\ \A o : o # p => ReportsOf(c, o) = ReportsOf(book, o) /\ Ends(c, o) = Ends(book, o)
       /\ \A i \in DOMAIN book.reports : c.reports[i] = book.reports[i]
  BY <1>15, <1>17, AddedIs
<1>20. /\ p \notin Open(c)
       /\ \A o \in Order : o # p => (o \in Open(c) <=> o \in Open(book))
  BY <1>14 DEF Open
<1>21. m \in Ends(c, p) /\ \A i \in Ends(c, p) : i = m
  <2>1. DOMAIN c.reports = 1..m /\ m \in Nat /\ m \in 1..m
    BY <1>15, <1>16, <1>17 DEF Book
  <2>2. m \in Ends(c, p)  BY <1>12, <1>17, <2>1 DEF Ends, ReportsOf
  <2>3. ASSUME NEW i \in Ends(c, p), i # m PROVE FALSE
    <3>1. i \in 1..m /\ c.reports[i].order = p /\ c.reports[i].kind \in FinalKind
      BY <2>1 DEF Ends, ReportsOf
    <3>2. i \in 1..Len(book.reports)  BY <1>15, <1>16, <2>3, <3>1
    <3>3. i \in DOMAIN book.reports /\ c.reports[i] = book.reports[i]
      BY <1>15, <1>19, <3>2 DEF Book
    <3>4. i \in Ends(book, p)  BY <3>1, <3>3 DEF Ends, ReportsOf
    <3> QED  BY <1>4, <1>5, <3>4, EndsAre DEF Inv
  <2> QED  BY <2>2, <2>3
<1>22. p \in tried /\ (Sender.at # "idle" => Sender.order # p /\ Sender.order \in Order)
  <2>1. p \in tried  BY <1>5, <1>9 DEF SeenInv, Course, Tries
  <2>2. Sender.at # "idle" => Sender.order \in Order
    BY DEF Inv, ControlInv, TasksInv, Handles, Sender, Thread
  <2> QED  BY <2>1, <2>2 DEF SeenInv, Course, Driving
<1>23. Course'
  <2>1. Shape'
    <3>1. ASSUME NEW u \in Watcher PROVE WatcherShape(task[u])'
      <4>1. CASE u = t  BY <1>7, <1>8, <4>1 DEF WatcherShape
      <4>2. CASE u # t
        <5>1. task'[u] = task[u]  BY <1>1, <1>7, <4>2
        <5> QED  BY <5>1 DEF SeenInv, Course, Shape, WatcherShape
      <4> QED  BY <4>1, <4>2
    <3> QED  BY <1>10, <3>1 DEF SeenInv, Course, Shape, SenderShape
  <2>2. OpenRests'
    <3>1. ASSUME NEW o \in Open(c)
          PROVE  (c.open[o].acked /\ asked[o].type = "limit") \/ (Unmatched /\ Sender.order = o)
      <4>1. o # p /\ o \in Open(book) /\ c.open[o] = book.open[o]
        BY <1>14, <1>20, <3>1 DEF Open
      <4> QED  BY <4>1 DEF SeenInv, Course, OpenRests
    <3> QED  BY <1>4, <1>10, <1>13, <1>18, <3>1 DEF OpenRests
  <2>3. Driving'
    <3> SUFFICES ASSUME Sender.at # "idle"
                 PROVE  /\ Sender.order \notin waiting \union tried
                        /\ IF Unmatched
                           THEN /\ Sender.order \in Open(c)
                                /\ c.open[Sender.order].acked =>
                                      ReportsOf(c, Sender.order) # {}
                           ELSE ReportsOf(c, Sender.order) # {}
      BY <1>3, <1>10, <1>13, <1>18 DEF Driving
    <3>1. Driving /\ Sender.order # p /\ Sender.order \in Order  BY <1>22 DEF SeenInv, Course
    <3> QED  BY <1>14, <1>19, <1>20, <3>1 DEF Driving
  <2>4. Tries'
    <3>1. \A o \in waiting \union tried : ReportsOf(c, o) # {}
      BY <1>19 DEF SeenInv, Course, Tries
    <3>2. \A u \in Watcher, o \in Order : BusyOn(task[u], o)' <=> BusyOn(task[u], o)
      BY <1>1, <1>7, <1>9 DEF BusyOn
    <3> QED  BY <1>3, <1>18, <3>1, <3>2 DEF SeenInv, Course, Tries
  <2>5. ClosedEnded'  BY <1>3, <1>18, <1>19 DEF SeenInv, Course, ClosedEnded
  <2> QED  BY <2>1, <2>2, <2>3, <2>4, <2>5 DEF Course
<1>24. ASSUME NEW o \in Order \ met' PROVE Seen(o)'
  <2>1. Seen(o) /\ o \in Order  BY <1>3 DEF SeenInv
  <2>2. CASE o # p
    <3>1. /\ (o \in Open(book))' <=> o \in Open(book)
          /\ ReportsOf(book, o)' = ReportsOf(book, o) /\ Ends(book, o)' = Ends(book, o)
      BY <1>18, <1>19, <1>20, <2>1, <2>2
    <3>2. \A i \in ReportsOf(book, o) : book'.reports[i] = book.reports[i]
      BY <1>13, <1>19 DEF ReportsOf
    <3>3. released'[o] = released[o]
      BY <1>3, <2>1, <2>2 DEF Inv, ControlInv, RouterType
    <3> QED  BY <1>1, <1>3, <1>7, <1>8, <1>9, <2>1, <2>2, <3>1, <3>2, <3>3, SeenFrame
  <2>3. CASE o = p
    <3>1. \A u \in Thread : u # t => ~BusyOn(task[u], o) /\ ~InSync(task[u])
      BY <1>1, <1>9, <2>1, <2>3, Sole DEF SeenInv, Seen
    <3>2. Cancelling(o, task[t])  BY <1>9, <2>1, <2>3 DEF Seen
    <3>3. "cancelled" \in released'[o]
      BY <1>3, <2>1, <2>3, <3>2 DEF Cancelling, Inv, ControlInv, RouterType
    <3>4. \A i \in Ends(c, o) : cursor < i /\ c.reports[i].kind = "cancelled"
      BY <1>12, <1>15, <1>16, <1>17, <1>21, <2>3, Numbers
    <3>5. Cancelling(o, x)'
      BY <1>3, <1>6, <1>8, <1>13, <1>18, <1>21, <2>3, <3>2, <3>3, <3>4
      DEF Cancelling, InSync
    <3> QED  BY <1>1, <1>7, <1>9, <2>1, <2>3, <3>1, <3>5, SeenBy
  <2> QED  BY <2>2, <2>3
<1> QED  BY <1>23, <1>24 DEF SeenInv

LEMMA InitSeen == Init => SeenInv
<1> SUFFICES ASSUME Init PROVE SeenInv  OBVIOUS
<1>1. /\ \A o : o \notin Open(book) /\ ReportsOf(book, o) = {} /\ Ends(book, o) = {}
      /\ \A t \in Thread : task[t] = Idle
      /\ Sender = Idle /\ \A t \in Watcher : task[t] = Idle
      /\ waiting = {} /\ tried = {} /\ closed = {}
  BY DEF Init, BrokerInit, EmptyBook, Open, ReportsOf, Ends, Sender, Thread
<1>2. Course
  BY <1>1 DEF Course, Shape, SenderShape, WatcherShape, OpenRests, Driving, Tries, ClosedEnded,
              Idle, BusyOn
<1>3. \A o : AllTold(o)  BY <1>1 DEF AllTold, InSync, Idle
<1>4. \A o : Seen(o)  BY <1>1, <1>3 DEF Seen, BusyOn, Idle
<1> QED  BY <1>2, <1>4 DEF SeenInv

\* what no variable of the broker or the router says does not matter
LEMMA StillSeen ==
    ASSUME SeenInv, UNCHANGED broker, UNCHANGED router
    PROVE  SeenInv'
<1>1. /\ UNCHANGED <<book, asked, round>>
      /\ UNCHANGED <<pending, cache, closed, cursor, waiting, tried, paid, released, met, task>>
  BY DEF broker, router
<1>2. /\ Open(book)' = Open(book)
      /\ \A o : ReportsOf(book, o)' = ReportsOf(book, o) /\ Ends(book, o)' = Ends(book, o)
  BY QuietBook
<1>3. Sender' = Sender /\ (Unmatched' <=> Unmatched)  BY <1>1 DEF Sender, Unmatched
<1>4. Course'
  BY <1>1, <1>2, <1>3
  DEF SeenInv, Course, Shape, SenderShape, WatcherShape, OpenRests, Driving, Tries,
      ClosedEnded, BusyOn
<1>5. \A o : AllTold(o)' <=> AllTold(o)  BY <1>1, <1>2 DEF AllTold, Told, InSync
<1>6. \A o : Sending(o, Sender)' <=> Sending(o, Sender)
  BY <1>1, <1>2, <1>3 DEF Sending, Told, InSync
<1>7. \A o, t : Cancelling(o, task[t])' <=> Cancelling(o, task[t])
  BY <1>1, <1>2 DEF Cancelling, Told, InSync
<1>8. \A o : Seen(o)' <=> Seen(o)  BY <1>1, <1>3, <1>5, <1>6, <1>7 DEF Seen, BusyOn, InSync
<1> QED  BY <1>1, <1>4, <1>8 DEF SeenInv

LEMMA ReadSeen ==
    ASSUME SeenInv,
           \/ \E o \in Order : ReadToReserve(o) \/ ReadToSettle(o)
           \/ \E t \in Watcher : ReadToRelease(t)
    PROVE  SeenInv'
<1>1. UNCHANGED broker /\ UNCHANGED router
  BY DEF ReadToReserve, ReadToSettle, ReadToRelease
<1> QED  BY <1>1, StillSeen

LEMMA RoutedSeen == ASSUME Inv, routed, SeenInv, FillInv, Routed PROVE SeenInv'
<1>1. CASE \E o \in Order : \/ Send(o) \/ Match(o) \/ ReadToFill(o)
                           \/ BookFill(o) \/ SettleFill(o)
  BY <1>1, SendSeen, MatchSeen, ReadToFillSeen, BookFillSeen, SettleFillSeen
<1>2. CASE \/ \E o \in Order : ReadToReserve(o) \/ ReadToSettle(o)
           \/ \E t \in Watcher : ReadToRelease(t)
  BY <1>2, ReadSeen
<1>3. CASE \E due \in SUBSET queue : Drive(due)  BY <1>3, DriveSeen
<1>4. CASE Driven \/ Return  BY <1>4, DrivenSeen, ReturnSeen
<1>5. CASE \E t \in Thread : SyncRead(t) \/ SyncTake(t) \/ SyncApply(t) \/ SyncEnd(t)
  BY <1>5, SyncReadSeen, SyncTakeSeen, SyncApplySeen, SyncEndSeen
<1>6. CASE \E t \in Watcher, o \in Order : Poll(t, o) \/ Claim(t, o)
  BY <1>6, PollSeen, ClaimSeen
<1>7. CASE \E t \in Watcher : CancelOpen(t) \/ CancelGone(t) \/ Mark(t) \/ Look(t)
  BY <1>7, CancelOpenSeen, CancelGoneSeen, MarkSeen, LookSeen
<1> QED  BY <1>1, <1>2, <1>3, <1>4, <1>5, <1>6, <1>7 DEF Routed

\* what the executor has read is for the step that it is at
LEMMA RoutedFill == ASSUME Inv, routed, SeenInv, FillInv, Routed PROVE FillInv'
<1>1. /\ "executor" \in Thread /\ "executor" \notin Watcher
      /\ copy \in [Thread -> CopyRecord] /\ task \in [Thread -> TaskRecord]
      /\ round \in [on : BOOLEAN, due : SUBSET Order, reported : BOOLEAN]
  BY ThreadAssumption
  DEF Thread, Inv, CopyInv, ControlInv, TasksInv, BrokerInv, CallsType
<1>2. ASSUME NEW o \in Order, ReadToReserve(o) \/ ReadToSettle(o) PROVE FillInv'
  <2>1. UNCHANGED <<task, round>>  BY <1>2 DEF ReadToReserve, ReadToSettle, broker, router
  <2>2. \/ copy'["executor"].use = "reserve"
        \/ /\ copy["executor"].use = "booked" /\ copy["executor"].order = o
           /\ copy'["executor"].order = o
    BY <1>1, <1>2 DEF ReadToReserve, ReadToSettle, Reads, Uses
  <2> QED  BY <2>1, <2>2 DEF FillInv, FillUse, Sender
<1>3. ASSUME NEW o \in Order, Send(o) \/ SettleFill(o) PROVE FillInv'
  <2>1. copy' = [copy EXCEPT !["executor"] = NoCopy]  BY <1>3 DEF Send, SettleFill, Writes
  <2>2. copy'["executor"].use = "none"  BY <1>1, <2>1 DEF NoCopy
  <2> QED  BY <2>2 DEF FillInv, FillUse
<1>4. ASSUME NEW o \in Order, Match(o) PROVE FillInv'
  BY <1>4 DEF Match, Uses, sums, FillInv, FillUse
<1>5. ASSUME NEW o \in Order, ReadToFill(o) PROVE FillInv'
  <2>1. /\ o \in round.due /\ o \in Open(book) /\ LegacyFill(o) > 0
        /\ task["executor"].at = "match" /\ UNCHANGED <<task, round>>
        /\ copy'["executor"].order = o
    BY <1>1, <1>5 DEF ReadToFill, Reads, router
  <2>2. Sender.order = o  BY <2>1, FillsSent
  <2> QED  BY <2>1, <2>2 DEF FillInv, Sender
<1>6. ASSUME NEW o \in Order, BookFill(o) PROVE FillInv'
  <2>1. /\ copy["executor"].use = "fill" /\ copy["executor"].order = o
        /\ UNCHANGED <<task, round>>
        /\ copy' = [copy EXCEPT !["executor"] = [NoCopy EXCEPT !.use = "booked", !.order = o]]
    BY <1>6 DEF BookFill, Uses, Writes, router
  <2>2. copy'["executor"].order = o  BY <1>1, <2>1 DEF NoCopy
  <2> QED  BY <2>1, <2>2 DEF FillInv, FillUse, Sender
<1>7. CASE (\E due \in SUBSET queue : Drive(due)) \/ Driven \/ Return
  <2>1. copy["executor"].use \notin FillUse
    BY <1>7 DEF Drive, Driven, EndRound, Return, FillInv, Sender
  <2>2. copy' = copy  BY <1>7 DEF Drive, Driven, Return, sums
  <2> QED  BY <2>1, <2>2 DEF FillInv
<1>8. ASSUME NEW t \in Thread,
             \/ SyncRead(t) \/ SyncTake(t) \/ SyncApply(t) \/ SyncEnd(t)
             \/ \E o \in Order : t \in Watcher /\ (Poll(t, o) \/ Claim(t, o))
             \/ t \in Watcher /\ (CancelGone(t) \/ Mark(t) \/ Look(t) \/ ReadToRelease(t))
             \/ t \in Watcher /\ CancelOpen(t)
      PROVE FillInv'
  <2>1. UNCHANGED round
    BY <1>8
    DEF SyncRead, SyncTake, SyncApply, SyncEnd, Poll, Claim, CancelGone, Mark, Look,
        ReadToRelease, CancelOpen, Cancel, broker
  <2>2. CASE t = "executor"
    <3>1. copy["executor"].use \notin FillUse /\ copy' = copy
      BY <1>1, <1>8, <2>2
      DEF SyncRead, SyncTake, SyncApply, SyncEnd, FillInv, Sender, sums
    <3> QED  BY <3>1 DEF FillInv
  <2>3. CASE t # "executor"
    <3>1. task'["executor"] = task["executor"]
      BY <1>1, <1>8, <2>3
      DEF SyncRead, SyncTake, SyncApply, SyncEnd, Poll, Claim, CancelGone, Mark, Look,
          ReadToRelease, CancelOpen, Goes, router
    <3>2. copy'["executor"] = copy["executor"]
      BY <1>1, <1>8, <2>3
      DEF SyncRead, SyncTake, SyncApply, SyncEnd, Poll, Claim, CancelGone, Mark, Look,
          ReadToRelease, CancelOpen, Reads, Writes, sums
    <3> QED  BY <2>1, <3>1, <3>2 DEF FillInv, Sender
  <2> QED  BY <2>2, <2>3
<1>9. \A t \in Watcher : t \in Thread  BY DEF Thread
<1> QED  BY <1>2, <1>3, <1>4, <1>5, <1>6, <1>7, <1>8, <1>9 DEF Routed

-----------------------------------------------------------------------------
(* The sums that no thread undid an update of are those of the mended      *)
(* book, but for what the executor has booked and not yet reported.        *)

SumsKept ==
    /\ "cash" \notin lost => book.cash = SumFunction(CashOpen(book))
    /\ \A s \in Symbol \ lost :
          /\ book.held[s] = SumFunction(SaleOpen(book, s))
          /\ book.owned[s] = SumFunction(Bought(book, s)) + Unreported(s)

LEMMA NothingBooked ==
    /\ copy["executor"].use \notin {"booked", "settle"} => \A s : Unreported(s) = 0
    /\ copy'["executor"].use \notin {"booked", "settle"} => \A s : Unreported(s)' = 0
BY DEF Unreported

\* a step that does to each sum what it does to what the sum is of
LEMMA KeptBy ==
    ASSUME SumsKept, asked' = asked, NEW e, book' = e, lost \subseteq lost',
           "cash" \notin lost' /\ book.cash = SumFunction(CashOpen(book)) =>
               e.cash = SumFunction(CashOpen(e)),
           \A s \in Symbol \ lost' :
               /\ book.held[s] = SumFunction(SaleOpen(book, s)) =>
                      e.held[s] = SumFunction(SaleOpen(e, s))
               /\ e.owned[s] = SumFunction(Bought(e, s)) + Unreported(s)'
    PROVE  SumsKept'
<1>1. /\ CashOpen(e)' = CashOpen(e)
      /\ \A s \in Symbol : SaleOpen(e, s)' = SaleOpen(e, s) /\ Bought(e, s)' = Bought(e, s)
  BY SteadySums
<1>2. SumFunction(CashOpen(book))' = SumFunction(CashOpen(e))
  <2>1. CashOpen(book)' = CashOpen(e)  BY <1>1 DEF CashOpen, Open
  <2> QED  BY <2>1
<1>3. ASSUME NEW s \in Symbol
      PROVE  /\ SumFunction(SaleOpen(book, s))' = SumFunction(SaleOpen(e, s))
             /\ SumFunction(Bought(book, s))' = SumFunction(Bought(e, s))
  <2>1. SaleOpen(book, s)' = SaleOpen(e, s)  BY <1>1 DEF SaleOpen, Open
  <2>2. Bought(book, s)' = Bought(e, s)  BY <1>1 DEF Bought
  <2> QED  BY <2>1, <2>2
<1>4. "cash" \notin lost' => book'.cash = SumFunction(CashOpen(book))'
  BY <1>2 DEF SumsKept
<1>5. \A s \in Symbol \ lost' :
        /\ book'.held[s] = SumFunction(SaleOpen(book, s))'
        /\ book'.owned[s] = SumFunction(Bought(book, s))' + Unreported(s)'
  BY <1>3 DEF SumsKept
<1> QED  BY <1>4, <1>5 DEF SumsKept

\* what a thread writes is what there was, but for the sums it is said to undo
LEMMA Undone ==
    ASSUME CopyInv, book \in Book, NEW t \in Thread, NEW S, NEW y, Writes(t, S, y)
    PROVE  LET c == Recalled(t, S)
           IN  /\ lost \subseteq lost'
               /\ "cash" \notin lost' => c.cash = book.cash
               /\ \A s \in Symbol \ lost' : c.held[s] = book.held[s] /\ c.owned[s] = book.owned[s]
<1>1. PICK c : c = Recalled(t, S)  OBVIOUS
<1>2. lost' = IF c = book THEN lost ELSE lost \union S  BY <1>1 DEF Writes
<1>3. /\ "cash" \notin S => c.cash = book.cash
      /\ \A s \in Symbol : s \notin S => c.held[s] = book.held[s] /\ c.owned[s] = book.owned[s]
  BY <1>1, RecalledIs
<1> QED  BY <1>1, <1>2, <1>3

\* a call that a thread makes with the sums that it has read
LEMMA WrittenKept ==
    ASSUME Inv, SumsKept, asked' = asked, NEW t \in Thread, NEW S, NEW y, Writes(t, S, y),
           NEW e, book' = e, Follows(book, Recalled(t, S), e),
           \A s \in Symbol : SumFunction(Bought(e, s)) + Unreported(s)' =
                                 SumFunction(Bought(book, s)) + Unreported(s)
    PROVE  SumsKept'
<1>1. book \in Book  BY BookFacts DEF Inv, BrokerInv
<1>2. PICK c : c = Recalled(t, S)  OBVIOUS
<1>3. /\ lost \subseteq lost' /\ ("cash" \notin lost' => c.cash = book.cash)
      /\ \A s \in Symbol \ lost' : c.held[s] = book.held[s] /\ c.owned[s] = book.owned[s]
  BY <1>1, <1>2, Undone DEF Inv
<1>4. "cash" \notin lost' /\ book.cash = SumFunction(CashOpen(book)) =>
        e.cash = SumFunction(CashOpen(e))
  BY <1>2, <1>3 DEF Follows
<1>5. ASSUME NEW s \in Symbol \ lost'
      PROVE  /\ book.held[s] = SumFunction(SaleOpen(book, s)) =>
                    e.held[s] = SumFunction(SaleOpen(e, s))
             /\ e.owned[s] = SumFunction(Bought(e, s)) + Unreported(s)'
  <2>1. e.owned[s] = book.owned[s]  BY <1>2, <1>3 DEF Follows
  <2>2. book.owned[s] = SumFunction(Bought(book, s)) + Unreported(s)  BY <1>3 DEF SumsKept
  <2> QED  BY <1>2, <1>3, <2>1, <2>2 DEF Follows
<1> QED  BY <1>3, <1>4, <1>5, KeptBy

\* a step that leaves the sums and what is booked as they are
LEMMA SameKept ==
    ASSUME SumsKept, asked' = asked, book' = book, lost' = lost,
           \A s \in Symbol : Unreported(s)' = Unreported(s)
    PROVE  SumsKept'
BY KeptBy DEF SumsKept

LEMMA SendKept == ASSUME Inv, SumsKept, NEW o \in Order, Send(o) PROVE SumsKept'
<1>1. /\ AskedType /\ Plain(book) /\ book \in Book /\ "executor" \in Thread
      /\ copy \in [Thread -> CopyRecord]
  BY BookFacts DEF Inv, BrokerInv, Thread, CopyInv
<1>2. /\ asked' = asked /\ book.open[o] = NoOrder /\ ReportsOf(book, o) = {}
      /\ copy["executor"].use = "reserve" /\ Writes("executor", SumsOf(o), NoCopy)
  BY DEF Send, Submit, Unused, Open, Uses
<1>3. PICK b, S : b = book /\ S = SumsOf(o)  OBVIOUS
<1>4. PICK c, e : c = Recalled("executor", S) /\ e = Placed(c, o)  OBVIOUS
<1>5. c \in Book /\ Alike(c, b)  BY <1>1, <1>3, <1>4, RecalledIs DEF Inv
<1>6. Follows(b, c, e) /\ e.reports = b.reports
  <2>1. Plain(b) /\ b.open[o] = NoOrder /\ ReportsOf(b, o) = {}  BY <1>1, <1>2, <1>3
  <2> QED  BY <1>1, <1>4, <1>5, <2>1, PlacedOf
<1>7. book' = e  BY <1>3, <1>4 DEF Send, Submit
<1>8. copy'["executor"].use = "none"  BY <1>1, <1>2 DEF Writes, NoCopy
<1>9. \A s \in Symbol : SumFunction(Bought(e, s)) + Unreported(s)' =
                            SumFunction(Bought(book, s)) + Unreported(s)
  BY <1>2, <1>3, <1>6, <1>8, NothingBooked, ReportsSame
<1>10. Follows(book, Recalled("executor", S), e) /\ Writes("executor", S, NoCopy)
  BY <1>2, <1>3, <1>4, <1>6
<1> QED  BY <1>1, <1>2, <1>7, <1>9, <1>10, WrittenKept

\* an order that is acknowledged and no more
LEMMA TakenKept ==
    ASSUME Inv, SumsKept, asked' = asked, lost' = lost, NEW o \in Order, o \in Open(book),
           book' = Acknowledged(book, o),
           copy["executor"].use \notin {"booked", "settle"},
           copy'["executor"].use \notin {"booked", "settle"}
    PROVE  SumsKept'
<1>1. AskedType /\ Plain(book) /\ book \in Book /\ book.open[o] \in Detail
  BY BookFacts DEF Inv, BrokerInv
<1>2. PICK b, e : b = book /\ e = Acknowledged(b, o)  OBVIOUS
<1>3. Follows(b, b, e) /\ \A s \in Symbol : SumFunction(Bought(e, s)) = SumFunction(Bought(b, s))
  <2>1. Plain(b) /\ b.open[o] \in Detail  BY <1>1, <1>2
  <2>2. Follows(b, b, e)  BY <1>1, <1>2, <2>1, AcknowledgedOf
  <2>3. \A s \in Symbol : SumFunction(Bought(e, s)) = SumFunction(Bought(b, s))
    <3>1. e.reports = b.reports
          \/ e.reports = Append(b.reports, [order |-> o, kind |-> "acknowledged", qty |-> 0])
      BY <1>1, <1>2, <2>1, AcknowledgedOf
    <3>2. CASE e.reports = b.reports  BY <3>2, ReportsSame
    <3>3. PICK r : r = [order |-> o, kind |-> "acknowledged", qty |-> 0]  OBVIOUS
    <3>4. CASE e.reports = Append(b.reports, r)
      <4>1. r \in Report /\ r.order = o /\ r.qty = 0  BY <3>3 DEF Report, Kind
      <4>2. b \in Book /\ e \in Book  BY <1>1, <1>2, <2>1, TakenIs
      <4>3. ASSUME NEW s \in Symbol
            PROVE  SumFunction(Bought(e, s)) = SumFunction(Bought(b, s)) + 0
        <5>1. SumFunction(Bought(e, s)) = SumFunction(Bought(b, s)) + Gain(r, s)
          BY <1>1, <3>4, <4>1, <4>2, ReportAdded
        <5>2. Gain(r, s) = 0
          <6>1. r.qty = 0  BY <4>1
          <6>2. PICK x \in Int : x = r.qty  BY <6>1
          <6>3. PICK y \in Int : y = -x  OBVIOUS
          <6>4. x + y = 0  BY <6>3
          <6>5. y = 0  BY <6>1, <6>2, <6>4
          <6> QED  BY <6>1, <6>2, <6>3, <6>5 DEF Gain
        <5> QED  BY <5>1, <5>2
      <4> QED  BY <1>1, <4>2, <4>3, BoughtInt
    <3> QED  BY <3>1, <3>2, <3>3, <3>4
  <2> QED  BY <1>2, <2>2, <2>3
<1>4. \A s \in Symbol : Unreported(s)' = 0 /\ Unreported(s) = 0  BY NothingBooked
<1>5. \A s \in Symbol \ lost' :
        /\ book.held[s] = SumFunction(SaleOpen(book, s)) => e.held[s] = SumFunction(SaleOpen(e, s))
        /\ e.owned[s] = SumFunction(Bought(e, s)) + Unreported(s)'
  BY <1>2, <1>3, <1>4 DEF Follows, SumsKept
<1>6. book' = e /\ (book.cash = SumFunction(CashOpen(book)) => e.cash = SumFunction(CashOpen(e)))
  BY <1>2, <1>3 DEF Follows
<1> QED  BY <1>5, <1>6, KeptBy

LEMMA MatchKept ==
    ASSUME Inv, routed, SumsKept, NEW o \in Order, Match(o) PROVE SumsKept'
<1>1. UNCHANGED <<asked, copy, lost>> /\ copy["executor"].use = "none"
  BY DEF Match, TakeGone, TakeQuoted, Take, sums, Uses
<1>2. CASE TakeGone(o)
  <2>1. book' = book  BY <1>2 DEF TakeGone, Take
  <2> QED  BY <1>1, <2>1, NothingBooked, SameKept
<1>3. CASE o \in Open(book) /\ LegacyFill(o) = 0 /\ TakeQuoted(o, LegacyFill(o))
  <2>1. asked[o].tif = "gtc"  BY DEF Inv, ControlInv, Apart
  <2>2. PICK c : c = Acknowledged(book, o)  OBVIOUS
  <2>3. Matched(c, o, 0) = c  BY <2>1 DEF Matched
  <2>4. book' = c  BY <1>3, <2>2, <2>3 DEF TakeQuoted, Take
  <2> QED  BY <1>1, <1>3, <2>2, <2>4, TakenKept
<1> QED  BY <1>2, <1>3 DEF Match

LEMMA ReadToFillKept ==
    ASSUME Inv, SumsKept, NEW o \in Order, ReadToFill(o) PROVE SumsKept'
<1>1. /\ UNCHANGED <<asked, lost>> /\ o \in Open(book) /\ book' = Acknowledged(book, o)
      /\ copy["executor"].use = "none"
  BY DEF ReadToFill, Reads, Uses
<1>2. copy \in [Thread -> CopyRecord] /\ "executor" \in Thread  BY DEF Inv, CopyInv, Thread
<1>3. copy'["executor"].use = "fill"  BY <1>2 DEF ReadToFill, Reads
<1> QED  BY <1>1, <1>3, TakenKept

LEMMA BookFillKept ==
    ASSUME Inv, SumsKept, NEW o \in Order, BookFill(o) PROVE SumsKept'
<1>1. /\ AskedType /\ book \in Book /\ "executor" \in Thread /\ copy \in [Thread -> CopyRecord]
  BY BookFacts DEF Inv, BrokerInv, Thread, CopyInv
<1>2. /\ asked' = asked /\ o \in Open(book)
      /\ copy["executor"].use = "fill" /\ copy["executor"].order = o
      /\ Writes("executor", {asked[o].symbol}, [NoCopy EXCEPT !.use = "booked", !.order = o])
  BY DEF BookFill, Uses
<1>3. LegacyFill(o) = book.open[o].left /\ book.open[o].left \in Nat
  BY <1>2, FillIs DEF Inv, FillUse
<1>4. PICK c, n : c = Recalled("executor", {asked[o].symbol}) /\ n = book.open[o].left
  OBVIOUS
<1>5. /\ c \in Book /\ Alike(c, book) /\ lost \subseteq lost'
      /\ "cash" \notin lost' => c.cash = book.cash
      /\ \A s \in Symbol \ lost' : c.held[s] = book.held[s] /\ c.owned[s] = book.owned[s]
  <2>1. PICK t, S, y : t \in Thread /\ Writes(t, S, y) /\ c = Recalled(t, S)
    BY <1>1, <1>2, <1>4
  <2>2. c \in Book /\ Alike(c, book)  BY <1>1, <2>1, RecalledIs DEF Inv
  <2>3. /\ lost \subseteq lost' /\ ("cash" \notin lost' => c.cash = book.cash)
        /\ \A s \in Symbol \ lost' : c.held[s] = book.held[s] /\ c.owned[s] = book.owned[s]
    BY <1>1, <2>1, Undone DEF Inv
  <2> QED  BY <2>2, <2>3
<1>6. PICK e : e = Booked(c, o, n)  OBVIOUS
<1>7. /\ e.open = c.open /\ e.cash = c.cash /\ e.held = c.held /\ e.reports = c.reports
      /\ \A s \in Symbol :
           e.owned[s] = c.owned[s] + (IF asked[o].symbol # s THEN 0
                                      ELSE IF asked[o].side = "buy" THEN n ELSE -n)
  BY <1>1, <1>3, <1>4, <1>5, <1>6, BookedIs, ZenonT(40)
<1>8. book' = e  BY <1>3, <1>4, <1>6 DEF BookFill
<1>9. /\ CashOpen(e) = CashOpen(book)
      /\ \A s : SaleOpen(e, s) = SaleOpen(book, s) /\ Bought(e, s) = Bought(book, s)
  <2>1. Alike(e, book)  BY <1>5, <1>7 DEF Alike
  <2> QED  BY <2>1, AlikeSums
<1>10. copy'["executor"].use = "booked" /\ copy'["executor"].order = o
  BY <1>1, <1>2 DEF Writes, NoCopy
<1>11. e.open[o].left = n  BY <1>4, <1>5, <1>7 DEF Alike
<1>12. \A s \in Symbol : /\ Unreported(s) = 0
                         /\ Unreported(s)' = IF asked[o].symbol # s THEN 0
                                             ELSE IF asked[o].side = "buy" THEN n ELSE -n
  BY <1>2, <1>8, <1>10, <1>11 DEF Unreported
<1>13. ASSUME NEW s \in Symbol \ lost'
       PROVE  e.owned[s] = SumFunction(Bought(e, s)) + Unreported(s)'
  <2>1. c.owned[s] = SumFunction(Bought(book, s)) + 0  BY <1>5, <1>12 DEF SumsKept
  <2>2. SumFunction(Bought(book, s)) \in Int  BY <1>1, BoughtInt
  <2> QED  BY <1>7, <1>9, <1>12, <2>1, <2>2
<1> QED  BY <1>2, <1>5, <1>7, <1>8, <1>9, <1>13, KeptBy

LEMMA SettleFillKept ==
    ASSUME Inv, SumsKept, NEW o \in Order, SettleFill(o) PROVE SumsKept'
<1>1. /\ AskedType /\ Plain(book) /\ book \in Book /\ "executor" \in Thread
      /\ copy \in [Thread -> CopyRecord]
  BY BookFacts DEF Inv, BrokerInv, Thread, CopyInv
<1>2. /\ asked' = asked /\ o \in Open(book)
      /\ copy["executor"].use = "settle" /\ copy["executor"].order = o
      /\ Writes("executor", SumsOf(o), NoCopy)
  BY DEF SettleFill, Uses, Take
<1>3. /\ LegacyFill(o) = book.open[o].left /\ book.open[o].left \in Nat
      /\ book.open[o] \in Detail
  BY <1>2, FillIs DEF Inv, FillUse
<1>4. PICK b, S, n : b = book /\ S = SumsOf(o) /\ n = b.open[o].left  OBVIOUS
<1>5. PICK c, e, r : /\ c = Recalled("executor", S) /\ e = Settled(c, o, n)
                     /\ r = [order |-> o, kind |-> "filled", qty |-> n]
  OBVIOUS
<1>6. c \in Book /\ Alike(c, b)  BY <1>1, <1>4, <1>5, RecalledIs DEF Inv
<1>7. /\ Follows(b, c, e)
      /\ \A s \in Symbol : SumFunction(Bought(e, s)) = SumFunction(Bought(b, s)) + Gain(r, s)
  <2>1. Plain(b) /\ b.open[o] \in Detail  BY <1>1, <1>3, <1>4
  <2> QED  BY <1>1, <1>4, <1>5, <1>6, <2>1, SettledOf
<1>8. book' = e  BY <1>3, <1>4, <1>5 DEF SettleFill, Take
<1>9. copy'["executor"].use = "none"  BY <1>1, <1>2 DEF Writes, NoCopy
<1>10. \A s \in Symbol : Unreported(s)' = 0  BY <1>9, NothingBooked
<1>11. \A s \in Symbol : Unreported(s) = Gain(r, s)
  BY <1>2, <1>4, <1>5 DEF Unreported, Gain
<1>12. ASSUME NEW s \in Symbol
       PROVE  SumFunction(Bought(e, s)) + Unreported(s)' =
                  SumFunction(Bought(book, s)) + Unreported(s)
  <2>1. SumFunction(Bought(b, s)) \in Int  BY <1>1, <1>4, BoughtInt
  <2>2. Gain(r, s) \in Int  BY <1>3, <1>4, <1>5 DEF Gain
  <2> QED  BY <1>4, <1>7, <1>10, <1>11, <2>1, <2>2
<1>13. Follows(book, Recalled("executor", S), e) /\ Writes("executor", S, NoCopy)
  BY <1>2, <1>4, <1>5, <1>7
<1> QED  BY <1>1, <1>2, <1>8, <1>12, <1>13, WrittenKept

\* A watcher cancels another order than the one whose fill is under way.
LEMMA CancelOpenKept ==
    ASSUME Inv, SeenInv, FillInv, SumsKept, NEW t \in Watcher, CancelOpen(t) PROVE SumsKept'
<1>1. /\ AskedType /\ Plain(book) /\ book \in Book /\ t \in Thread /\ "executor" \in Thread
      /\ t # "executor" /\ copy \in [Thread -> CopyRecord]
  BY BookFacts, ThreadAssumption DEF Inv, BrokerInv, Thread, CopyInv
<1>2. PICK p, S : p = task[t].order /\ S = SumsOf(p)  OBVIOUS
<1>3. /\ task[t].at = "cancel" /\ Cancel(p, Recalled(t, S)) /\ Writes(t, S, NoCopy)
      /\ asked' = asked /\ p \in Open(book) /\ p \in Order
  BY <1>2 DEF CancelOpen, Cancel, Open
<1>4. book.open[p] \in Detail  BY <1>3, BookFacts DEF Inv, BrokerInv
<1>5. PICK k \in FinalKind : k = "cancelled"  BY DEF FinalKind
<1>6. PICK b, c, e : b = book /\ c = Recalled(t, S) /\ e = Ended(c, p, k)  OBVIOUS
<1>7. c \in Book /\ Alike(c, b)  BY <1>1, <1>6, RecalledIs DEF Inv
<1>8. /\ Follows(b, c, e)
      /\ \A s \in Symbol : SumFunction(Bought(e, s)) = SumFunction(Bought(b, s))
      /\ \A o \in Order : o # p => e.open[o] = b.open[o]
  <2>1. Plain(b) /\ b.open[p] \in Detail /\ p \in Order  BY <1>1, <1>3, <1>4, <1>6
  <2>2. Follows(b, c, Ended(c, p, k))  BY <1>1, <1>7, <2>1, EndedOf
  <2>3. \A o \in Order : o # p => Ended(c, p, k).open[o] = b.open[o]
    BY <1>1, <1>7, <2>1, EndedOf
  <2>4. ASSUME NEW s \in Symbol
        PROVE  SumFunction(Bought(Ended(c, p, k), s)) = SumFunction(Bought(b, s))
    BY <1>1, <1>7, <2>1, EndedOf
  <2> QED  BY <1>6, <2>2, <2>3, <2>4
<1>9. book' = e  BY <1>3, <1>5, <1>6 DEF Cancel
<1>10. copy'["executor"] = copy["executor"]  BY <1>1, <1>3 DEF Writes
<1>11. copy["executor"].use \in {"booked", "settle"} =>
         copy["executor"].order \in Order /\ copy["executor"].order # p
  <2> HAVE copy["executor"].use \in {"booked", "settle"}
  <2>1. Sender.at = "match" /\ copy["executor"].order = Sender.order  BY DEF FillInv, FillUse
  <2>2. Sender.order \notin tried  BY <2>1 DEF SeenInv, Course, Driving
  <2>3. p \in tried
    <3>1. task[t].call = "cancel"  BY <1>3 DEF SeenInv, Course, Shape, WatcherShape
    <3>2. BusyOn(task[t], p)  BY <1>2, <1>3, <3>1 DEF BusyOn
    <3> QED  BY <1>3, <3>2 DEF SeenInv, Course, Tries
  <2>4. copy["executor"].order \in Order  BY <1>1 DEF Inv, CopyInv, Copied, FillUse
  <2> QED  BY <2>1, <2>2, <2>3, <2>4
<1>12. \A s \in Symbol : Unreported(s)' = Unreported(s)
  BY <1>3, <1>6, <1>8, <1>9, <1>10, <1>11 DEF Unreported
<1>13. \A s \in Symbol : SumFunction(Bought(e, s)) + Unreported(s)' =
                             SumFunction(Bought(book, s)) + Unreported(s)
  BY <1>6, <1>8, <1>12
<1>14. Follows(book, Recalled(t, S), e)  BY <1>6, <1>8
<1> QED  BY <1>1, <1>3, <1>9, <1>13, <1>14, WrittenKept

LEMMA ReadKept ==
    ASSUME Inv, SumsKept,
           \/ \E o \in Order : ReadToReserve(o) \/ ReadToSettle(o)
           \/ \E t \in Watcher : ReadToRelease(t)
    PROVE  SumsKept'
<1>1. UNCHANGED <<asked, book, lost>>
  BY DEF ReadToReserve, ReadToSettle, ReadToRelease, Reads, broker
<1>2. /\ copy \in [Thread -> CopyRecord] /\ "executor" \in Thread /\ "executor" \notin Watcher
      /\ \A t \in Watcher : t \in Thread
  BY ThreadAssumption DEF Inv, CopyInv, Thread
<1>3. CASE \E o \in Order : ReadToReserve(o)
  <2>1. copy["executor"].use = "none" /\ copy'["executor"].use = "reserve"
    BY <1>2, <1>3 DEF ReadToReserve, Reads, Uses
  <2> QED  BY <1>1, <2>1, NothingBooked, SameKept
<1>4. CASE \E o \in Order : ReadToSettle(o)
  <2>1. /\ copy["executor"].use = "booked" /\ copy'["executor"].use = "settle"
        /\ copy'["executor"].order = copy["executor"].order
    BY <1>2, <1>4 DEF ReadToSettle, Reads, Uses
  <2>2. \A s \in Symbol : Unreported(s)' = Unreported(s)  BY <1>1, <2>1 DEF Unreported
  <2> QED  BY <1>1, <2>2, SameKept
<1>5. CASE \E t \in Watcher : ReadToRelease(t)
  <2>1. copy'["executor"] = copy["executor"]
    BY <1>2, <1>5 DEF ReadToRelease, Reads
  <2>2. \A s \in Symbol : Unreported(s)' = Unreported(s)  BY <1>1, <2>1 DEF Unreported
  <2> QED  BY <1>1, <2>2, SameKept
<1> QED  BY <1>3, <1>4, <1>5

LEMMA QuietKept ==
    ASSUME SumsKept, UNCHANGED <<asked, book, copy, lost>>
    PROVE  SumsKept'
<1>1. \A s \in Symbol : Unreported(s)' = Unreported(s)  BY DEF Unreported
<1> QED  BY <1>1, SameKept

LEMMA RoutedKept ==
    ASSUME Inv, routed, SeenInv, FillInv, SumsKept, Routed PROVE SumsKept'
<1>1. CASE \E o \in Order : \/ Send(o) \/ Match(o) \/ ReadToFill(o)
                           \/ BookFill(o) \/ SettleFill(o)
  BY <1>1, SendKept, MatchKept, ReadToFillKept, BookFillKept, SettleFillKept
<1>2. CASE \/ \E o \in Order : ReadToReserve(o) \/ ReadToSettle(o)
           \/ \E t \in Watcher : ReadToRelease(t)
  BY <1>2, ReadKept
<1>3. CASE \E t \in Watcher : CancelOpen(t)  BY <1>3, CancelOpenKept
<1>4. CASE \/ \E due \in SUBSET queue : Drive(due)
           \/ Driven \/ Return
           \/ \E t \in Thread : SyncRead(t) \/ SyncTake(t) \/ SyncApply(t) \/ SyncEnd(t)
           \/ \E t \in Watcher, o \in Order : Poll(t, o) \/ Claim(t, o)
           \/ \E t \in Watcher : CancelGone(t) \/ Mark(t) \/ Look(t)
  <2>1. UNCHANGED <<asked, book, copy, lost>>
    BY <1>4
    DEF Drive, BeginRound, Driven, EndRound, Return, SyncRead, SyncTake, SyncApply, SyncEnd,
        Poll, Claim, CancelGone, Mark, Look, broker, sums
  <2> QED  BY <2>1, QuietKept
<1> QED  BY <1>1, <1>2, <1>3, <1>4 DEF Routed

LEMMA InitKept == Init => SumsKept
<1> SUFFICES ASSUME Init PROVE SumsKept  OBVIOUS
<1>1. AskedType /\ book = EmptyBook  BY DEF Init, BrokerInit, AskedType
<1>2. Exact(book) /\ Accounts(book)  BY <1>1, EmptyIs DEF Sound
<1>3. copy["executor"] = NoCopy  BY DEF Init, Thread
<1>4. \A s \in Symbol : Unreported(s) = 0  BY <1>3, NothingBooked DEF NoCopy
<1>5. \A s \in Symbol : book.owned[s] = 0  BY <1>1 DEF EmptyBook
<1>6. \A s \in Symbol : book.owned[s] = SumFunction(Bought(book, s))  BY <1>2 DEF Accounts
<1>7. \A s \in Symbol : book.owned[s] = SumFunction(Bought(book, s)) + Unreported(s)
  BY <1>4, <1>5, <1>6
<1> QED  BY <1>2, <1>7 DEF SumsKept, Exact

-----------------------------------------------------------------------------
(* What the router knows, and what the sums are, holds of every state.     *)

KnownInv == Inv /\ (routed => SeenInv /\ FillInv /\ SumsKept)

LEMMA NextKnown == KnownInv /\ [Next]_vars => KnownInv'
<1> SUFFICES ASSUME KnownInv, [Next]_vars PROVE KnownInv'  OBVIOUS
<1>1. Inv'  BY NextInv DEF KnownInv
<1>2. ASSUME routed' PROVE SeenInv' /\ FillInv' /\ SumsKept'
  <2>1. routed /\ Inv /\ SeenInv /\ FillInv /\ SumsKept  BY <1>2 DEF Next, vars, KnownInv
  <2>2. CASE Next
    <3>1. Routed  BY <2>1, <2>2 DEF Next
    <3> QED  BY <2>1, <3>1, RoutedSeen, RoutedFill, RoutedKept
  <2>3. CASE UNCHANGED vars
    <3>1. UNCHANGED broker /\ UNCHANGED router /\ UNCHANGED <<asked, book, copy, lost, task, round>>
      BY <2>3 DEF vars, broker, router, sums
    <3>2. SeenInv'  BY <2>1, <3>1, StillSeen
    <3>3. FillInv'  BY <2>1, <3>1 DEF FillInv, Sender
    <3>4. SumsKept'  BY <2>1, <3>1, QuietKept
    <3> QED  BY <3>2, <3>3, <3>4
  <2> QED  BY <2>2, <2>3
<1> QED  BY <1>1, <1>2 DEF KnownInv

LEMMA KnownHolds == Spec => []KnownInv
<1>1. Init => KnownInv
  <2> SUFFICES ASSUME Init PROVE KnownInv  OBVIOUS
  <2>1. copy["executor"].use = "none"  BY DEF Init, Thread, NoCopy
  <2>2. FillInv  BY <2>1 DEF FillInv, FillUse
  <2> QED  BY <2>2, InitInv, InitSeen, InitKept DEF KnownInv
<1> QED  BY <1>1, NextKnown, PTL DEF Spec

\* The sums of a broker of its own.
LEMMA OwnBook ==
    ASSUME Inv, ~routed
    PROVE  /\ Sound(book) /\ (replaces = 0 => Exact(book)) /\ lost = {}
           /\ \A s : Unreported(s) = 0
<1>1. config.durable /\ lost = {} /\ copy["executor"] = NoCopy
  BY DEF Inv, ControlInv, Apart, Thread
<1> QED  BY <1>1, BookFacts, NothingBooked DEF Inv, BrokerInv, NoCopy

\* The reserves cover the open orders, and are exactly what is left of them as
\* long as none was replaced: of every sum of which no thread has undone another
\* thread's update, whatever the threads and the crashes do to the others.
THEOREM ReservationsCoverHolds == Spec => []ReservationsCover
<1>1. KnownInv => ReservationsCover
  <2> SUFFICES ASSUME KnownInv PROVE ReservationsCover  OBVIOUS
  <2>1. CASE ~routed
    BY <2>1, OwnBook DEF KnownInv, Sound, Covers, Exact, ReservationsCover
  <2>2. CASE routed
    <3>1. SumsKept /\ book \in Book  BY <2>2, BookFacts DEF KnownInv, Inv, BrokerInv
    <3>2. book.cash \in Nat /\ \A s \in Symbol : book.held[s] \in Nat  BY <3>1 DEF Book
    <3> QED  BY <3>1, <3>2 DEF SumsKept, ReservationsCover
  <2> QED  BY <2>1, <2>2
<1> QED  BY <1>1, KnownHolds, PTL

\* A position of which no thread has undone another's update is what the fills
\* of its symbol add up to, the one under way included, and what an open order
\* has filled is what its own reports say.
THEOREM PositionsMatchFillsHolds == Spec => []PositionsMatchFills
<1>1. KnownInv => PositionsMatchFills
  <2> SUFFICES ASSUME KnownInv PROVE PositionsMatchFills  OBVIOUS
  <2>1. \A o \in Open(book) : book.open[o].filled = Fills(book, o)
    BY BookFacts DEF KnownInv, Inv, BrokerInv, Plain
  <2>2. CASE ~routed
    <3>1. \A s \in Symbol : book.owned[s] = SumFunction(Bought(book, s))
                            /\ Unreported(s) = 0 /\ book.owned[s] \in Int
      BY <2>2, OwnBook DEF KnownInv, Sound, Accounts, BookType, Book
    <3>2. \A s \in Symbol : book.owned[s] = SumFunction(Bought(book, s)) + Unreported(s)
      BY <3>1
    <3> QED  BY <2>1, <3>2 DEF PositionsMatchFills
  <2>3. CASE routed  BY <2>1, <2>3 DEF KnownInv, SumsKept, PositionsMatchFills
  <2> QED  BY <2>2, <2>3
<1> QED  BY <1>1, KnownHolds, PTL

\* When the threads rest, everybody knows of the end of every order that was sent
\* and cancelled while no other thread synced, however many watchers there are.
THEOREM EndsAreSeenHolds == Spec => []EndsAreSeen
<1>1. KnownInv => EndsAreSeen
  <2> SUFFICES ASSUME KnownInv, routed, \A t \in Thread : task[t].at = "idle",
                      NEW o \in Order \ met, NEW i \in Ends(book, o)
               PROVE  LET k == book.reports[i].kind IN
                      /\ cache[o] = k /\ released[o] = {k}
                      /\ o \in closed /\ o \notin pending
                      /\ k = "filled" => o \in paid
    BY DEF EndsAreSeen
  <2>1. Inv /\ Seen(o) /\ o \in Order  BY DEF KnownInv, SeenInv
  <2>2. AllTold(o)  BY <2>1 DEF Seen, BusyOn
  <2>3. PICK k : k = book.reports[i].kind  OBVIOUS
  <2>4. /\ cache[o] = k /\ k \in released[o] /\ o \in closed /\ o \notin pending
        /\ k = "filled" => o \in paid
    BY <2>2, <2>3 DEF AllTold, Told
  <2>5. \A j \in Ends(book, o) : j = i
    <3> TAKE j \in Ends(book, o)
    <3>1. i <= j /\ j <= i /\ i \in Nat /\ j \in Nat  BY <2>1, EndsAre DEF Inv
    <3> QED  BY <3>1
  <2>6. released[o] \subseteq {k}
    BY <2>1, <2>3, <2>5 DEF Inv, ReleasedAsEnded, ControlInv, RouterType
  <2> QED  BY <2>3, <2>4, <2>6
<1> QED  BY <1>1, KnownHolds, PTL
=============================================================================
