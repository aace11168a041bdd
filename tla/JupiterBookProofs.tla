-------------------------- MODULE JupiterBookProofs --------------------------
(***************************************************************************)
(* Proofs about JupiterBook, for any number of callers, reconcile runs and *)
(* servers and any size of the table: the state is well typed, the mark    *)
(* that refuses BUYs is never left behind, and the reconcile keeps its     *)
(* hands off young rows.  What is computed from rows that were read (a     *)
(* sum, a minimum) is shown to be what the writes need by induction on the *)
(* size of the set, for which the first lemma takes the place of the       *)
(* induction theorems of the library, whose operator parameters are out of *)
(* the provers' reach.                                                     *)
(***************************************************************************)
EXTENDS JupiterBook, FiniteSetTheorems, TLAPS

-----------------------------------------------------------------------------
(* Sums and minima *)

\* A set of natural numbers that holds 0 and, with a number, the next one
\* holds them all: otherwise there is a least one it misses.
LEMMA NatSetInduction ==
    ASSUME NEW T \in SUBSET Nat, 0 \in T, \A n \in T : n + 1 \in T
    PROVE  T = Nat
  <1> SUFFICES ASSUME Nat \ T # {} PROVE FALSE
    OBVIOUS
  <1>1. PICK x \in Nat \ T : \A y \in Nat \ T : ~ (<<y, x>> \in OpToRel(<, Nat))
    BY NatLessThanWellFounded, WFMin, Nat \ T \subseteq Nat, Zenon
  <1>2. x # 0 /\ x - 1 \in Nat /\ x - 1 < x
    OBVIOUS
  <1>3. <<x - 1, x>> \in OpToRel(<, Nat)
    BY <1>2 DEF OpToRel
  <1>4. x - 1 \in T
    BY <1>1, <1>2, <1>3
  <1> QED BY <1>2, <1>4

\* A set of natural numbers that is not empty has its minimum.
LEMMA MinIsLeast ==
    ASSUME NEW S \in SUBSET Nat, S # {}
    PROVE  Min(S) \in S /\ \A y \in S : Min(S) <= y
  <1> SUFFICES \E x \in S : \A y \in S : x <= y
    BY DEF Min
  <1>1. PICK x \in S : \A y \in S : ~ (<<y, x>> \in OpToRel(<, Nat))
    BY NatLessThanWellFounded, WFMin, Zenon
  <1>2. ASSUME NEW y \in S PROVE x <= y
    <2>1. CASE y < x
      <3>1. <<y, x>> \in OpToRel(<, Nat)
        BY <2>1 DEF OpToRel
      <3> QED BY <1>1, <3>1
    <2> QED BY <2>1
  <1> QED BY <1>2

\* The recursion behind SumFunctionOnSet: what it adds in one step, and the
\* function it defines.
Add(f, h, s) == IF s = {} THEN 0 ELSE f[CHOOSE x \in s : TRUE] + h[s \ {CHOOSE x \in s : TRUE}]
IsSum(h, f, R) == h = [s \in SUBSET R |-> Add(f, h, s)]
Sums(f, R) == CHOOSE h : IsSum(h, f, R)

\* SumFunctionOnSet is that recursion.
LEMMA SumIsRecursion ==
    ASSUME NEW f, NEW R PROVE SumFunctionOnSet(f, R) = Sums(f, R)[R]
  BY DEF SumFunctionOnSet, FoldFunctionOnSet, MapThenFoldSet, Sums, IsSum, Add

\* Taking the chosen element out of a finite set makes it smaller by one.
LEMMA OneLess ==
    ASSUME NEW R, IsFiniteSet(R), NEW s \in SUBSET R
    PROVE  /\ Cardinality(s) \in Nat
           /\ s = {} <=> Cardinality(s) = 0
           /\ Cardinality(s) <= Cardinality(R)
           /\ s # {} => /\ (CHOOSE x \in s : TRUE) \in s
                        /\ s \ {CHOOSE x \in s : TRUE} \in SUBSET R
                        /\ Cardinality(s \ {CHOOSE x \in s : TRUE}) = Cardinality(s) - 1
  <1>1. IsFiniteSet(s) /\ Cardinality(s) <= Cardinality(R)
    BY FS_Subset
  <1>2. Cardinality(s) \in Nat
    BY <1>1, FS_CardinalityType
  <1>3. s = {} <=> Cardinality(s) = 0
    BY <1>1, FS_EmptySet
  <1>4. ASSUME s # {} PROVE (CHOOSE x \in s : TRUE) \in s
    BY <1>4
  <1>5. ASSUME s # {}
        PROVE  Cardinality(s \ {CHOOSE x \in s : TRUE}) = Cardinality(s) - 1
    BY <1>1, <1>4, <1>5, FS_RemoveElement
  <1> QED BY <1>1, <1>2, <1>3, <1>4, <1>5

\* The recursion defines a function on the subsets of a finite set: one that
\* is right for sets of up to n elements is extended to those of n + 1.
LEMMA SumsExist ==
    ASSUME NEW R, IsFiniteSet(R), NEW f, \A r \in R : f[r] \in Nat
    PROVE  IsSum(Sums(f, R), f, R)
  <1> DEFINE Right(h, n) == \A s \in SUBSET R : Cardinality(s) <= n => h[s] = Add(f, h, s)
             T == {n \in Nat : \E h \in [SUBSET R -> Nat] : Right(h, n)}
  <1>1. 0 \in T
    <2>1. PICK h \in [SUBSET R -> Nat] : h = [s \in SUBSET R |-> 0]
      OBVIOUS
    <2>2. ASSUME NEW s \in SUBSET R, Cardinality(s) <= 0 PROVE h[s] = Add(f, h, s)
      <3>1. Cardinality(s) \in Nat /\ (s = {} <=> Cardinality(s) = 0)
        BY OneLess, Zenon
      <3>2. s = {}
        BY <2>2, <3>1
      <3> QED BY <2>1, <3>2 DEF Add
    <2> QED BY <2>2
  <1>2. ASSUME NEW n \in T PROVE n + 1 \in T
    <2>1. PICK h \in [SUBSET R -> Nat] : Right(h, n)
      OBVIOUS
    <2>2. PICK g : g = [s \in SUBSET R |-> IF Cardinality(s) = n + 1 THEN Add(f, h, s) ELSE h[s]]
      OBVIOUS
    <2>3. ASSUME NEW s \in SUBSET R PROVE Add(f, h, s) \in Nat
      BY OneLess DEF Add
    <2>4. g \in [SUBSET R -> Nat]
      BY <2>2, <2>3
    <2>5. ASSUME NEW s \in SUBSET R, Cardinality(s) <= n + 1 PROVE g[s] = Add(f, g, s)
      <3>1. Add(f, g, s) = Add(f, h, s)
        BY <2>2, <2>5, OneLess DEF Add
      <3>2. g[s] = Add(f, h, s)
        <4>1. CASE Cardinality(s) = n + 1
          BY <2>2, <4>1
        <4>2. CASE Cardinality(s) # n + 1
          <5>1. Cardinality(s) \in Nat
            BY OneLess, Zenon
          <5>2. Cardinality(s) <= n
            BY <2>5, <4>2, <5>1
          <5> QED BY <2>1, <2>2, <4>2, <5>2
        <4> QED BY <4>1, <4>2
      <3> QED BY <3>1, <3>2
    <2> QED BY <2>4, <2>5
  <1>3. T = Nat
    BY <1>1, <1>2, NatSetInduction
  <1>4. Cardinality(R) \in Nat
    BY FS_CardinalityType
  <1>5. PICK h \in [SUBSET R -> Nat] : Right(h, Cardinality(R))
    BY <1>3, <1>4
  <1>6. IsSum(h, f, R)
    BY <1>5, OneLess DEF IsSum
  <1> QED BY <1>6 DEF Sums

\* A sum of natural numbers is one, and it is positive if there is something
\* to add and all of it is.
LEMMA SumIsNat ==
    ASSUME NEW R, IsFiniteSet(R), NEW f, \A r \in R : f[r] \in Nat
    PROVE  /\ SumFunctionOnSet(f, R) \in Nat
           /\ R # {} /\ (\A r \in R : f[r] > 0) => SumFunctionOnSet(f, R) > 0
  <1> DEFINE h == Sums(f, R)
             Good(s) == /\ h[s] \in Nat
                        /\ s # {} /\ (\A r \in s : f[r] > 0) => h[s] > 0
             T == {n \in Nat : \A s \in SUBSET R : Cardinality(s) = n => Good(s)}
  <1>s. IsSum(h, f, R)
    BY SumsExist
  <1>6. SumFunctionOnSet(f, R) = h[R]
    BY SumIsRecursion
  <1> HIDE DEF h
  <1>0. ASSUME NEW s \in SUBSET R PROVE h[s] = Add(f, h, s)
    <2>1. h = [u \in SUBSET R |-> Add(f, h, u)]
      BY <1>s DEF IsSum
    <2>2. [u \in SUBSET R |-> Add(f, h, u)][s] = Add(f, h, s)
      OBVIOUS
    <2> QED BY <2>1, <2>2, Zenon
  <1>1. 0 \in T
    <2>1. ASSUME NEW s \in SUBSET R, Cardinality(s) = 0 PROVE Good(s)
      <3>1. s = {}
        BY <2>1, OneLess
      <3>2. h[s] = 0
        <4>1. Add(f, h, s) = 0
          BY <3>1, Zenon DEF Add
        <4> QED BY <1>0, <4>1
      <3> QED BY <3>1, <3>2
    <2> QED BY <2>1
  <1>2. ASSUME NEW n \in T PROVE n + 1 \in T
    <2>1. ASSUME NEW s \in SUBSET R, Cardinality(s) = n + 1 PROVE Good(s)
      <3>1. PICK x \in s : x = CHOOSE y \in s : TRUE
        BY <2>1, OneLess
      <3>2. s # {} /\ s \ {x} \in SUBSET R /\ Cardinality(s \ {x}) = n
        BY <2>1, <3>1, OneLess
      <3>3. h[s] = f[x] + h[s \ {x}]
        BY <1>0, <3>1, <3>2 DEF Add
      <3>4. Good(s \ {x})
        BY <1>2, <3>2
      <3> QED BY <3>1, <3>3, <3>4
    <2> QED BY <2>1
  <1>3. T = Nat
    BY <1>1, <1>2, NatSetInduction
  <1>4. Cardinality(R) \in Nat /\ R \in SUBSET R
    BY FS_CardinalityType
  <1>5. Good(R)
    BY <1>3, <1>4
  <1> QED BY <1>5, <1>6

-----------------------------------------------------------------------------
(* The inductive invariant *)

\* A row that was made has a quantity, and only such a row is young.
TableOK(tr) ==
    \A r \in RowIds : /\ tr[r].status # "none" => tr[r].alloc > 0
                      /\ tr[r].fresh => tr[r].status # "none"

\* What a call holds: a BUY is being filled, booked or merged, and nothing
\* else waits for the guard; what was filled is not nothing; the rows that were read exist and, where they are
\* needed, there are some and they add up to something; and the rows that a
\* reconcile is cancelling are past their grace.
CallOK(tr, c) ==
    /\ c.kind = "buy" =>
          c.pc \in {"filled", "booking", "write", "merge", "mergeWrite", "mergeCancel"}
    /\ c.pc = "filled" => c.kind = "buy"
    /\ c.pc \in {"filled", "booking", "write"} => c.size > 0
    /\ c.pc \in {"write", "mergeWrite", "mergeCancel", "trimCancel", "burstWrite", "holdings",
                 "decide", "tidyCancel"} => \A r \in c.ids : tr[r].status # "none"
    /\ c.pc \in {"mergeWrite", "mergeCancel", "burstWrite", "holdings", "decide", "tidyCancel"} =>
          c.ids # {} /\ c.amt > 0
    /\ c.pc = "tidyCancel" => \A r \in c.ids : ~tr[r].fresh

CallsInv == \A p \in Procs : CallOK(trade, proc[p])

BInv == TypeOK /\ TableOK(trade) /\ CallsInv

\* A table that may follow another: no row is unmade or made young again.
Follows(tr, new) ==
    /\ new \in [RowIds -> Rows] /\ TableOK(new)
    /\ \A r \in RowIds : tr[r].status # "none" =>
          new[r].status # "none" /\ (new[r].fresh => tr[r].fresh)

\* The rows are a finite set of numbers.
LEMMA SetsOfRows ==
    ASSUME NEW R \in SUBSET RowIds
    PROVE  /\ IsFiniteSet(R) /\ R \in SUBSET Nat
           /\ Oldest(R) \in SUBSET R
           /\ R # {} => Min(R) \in R /\ Oldest(R) # {}
  <1>1. IsFiniteSet(RowIds)
    BY FS_Interval, BookAssumption DEF RowIds
  <1>2. IsFiniteSet(R) /\ R \in SUBSET Nat
    <2>1. RowIds \subseteq Nat
      BY BookAssumption DEF RowIds
    <2>2. IsFiniteSet(R)
      BY <1>1, FS_Subset
    <2> QED BY <2>1, <2>2
  <1>3. ASSUME R # {} PROVE Min(R) \in R
    BY <1>2, <1>3, MinIsLeast
  <1> QED BY <1>2, <1>3 DEF Oldest

\* The quantities of rows add up to a number, and to more than none if there
\* are rows and all of them exist.
LEMMA AllocOfRows ==
    ASSUME TypeOK, TableOK(trade), NEW R \in SUBSET RowIds
    PROVE  /\ Alloc(R) \in Nat
           /\ R # {} /\ (\A r \in R : trade[r].status # "none") => Alloc(R) > 0
  <1> DEFINE f == [r \in RowIds |-> trade[r].alloc]
  <1>1. \A r \in RowIds : f[r] \in Nat /\ (trade[r].status # "none" => f[r] > 0)
    BY DEF TypeOK, Rows, TableOK
  <1>2. IsFiniteSet(R)
    BY SetsOfRows
  <1> HIDE DEF f
  <1>3. /\ SumFunctionOnSet(f, R) \in Nat
        /\ R # {} /\ (\A r \in R : f[r] > 0) => SumFunctionOnSet(f, R) > 0
    BY <1>1, <1>2, SumIsNat
  <1>4. Alloc(R) = SumFunctionOnSet(f, R)
    BY DEF Alloc, f
  <1> QED BY <1>1, <1>3, <1>4

\* A table follows itself.
LEMMA SameTable == ASSUME BInv PROVE Follows(trade, trade)
  BY DEF BInv, TypeOK, Follows

\* Cancelling rows that are OPEN makes a table that follows.
LEMMA CancelFollows == ASSUME BInv, NEW R PROVE Follows(trade, CancelIfOpen(trade, R))
  <1>1. trade \in [RowIds -> Rows] /\ TableOK(trade)
    BY DEF BInv, TypeOK
  <1>2. CancelIfOpen(trade, R) \in [RowIds -> Rows]
    BY <1>1 DEF CancelIfOpen, Rows
  <1>3. \A r \in RowIds : /\ CancelIfOpen(trade, R)[r].alloc = trade[r].alloc
                          /\ CancelIfOpen(trade, R)[r].fresh = trade[r].fresh
                          /\ (CancelIfOpen(trade, R)[r].status = "none") <=> (trade[r].status = "none")
    BY <1>1 DEF CancelIfOpen, Rows
  <1> QED BY <1>1, <1>2, <1>3 DEF Follows, TableOK

\* So does a row that gets another quantity, or another status.
LEMMA WriteFollows ==
    ASSUME BInv, NEW r \in RowIds, NEW n \in Nat \ {0},
           NEW st \in {"OPEN", "CLOSED", "CANCELLED"}, trade[r].status # "none"
    PROVE  /\ Follows(trade, [trade EXCEPT ![r].alloc = n])
           /\ Follows(trade, [trade EXCEPT ![r].status = st])
           /\ Follows(trade, [trade EXCEPT ![r].alloc = n, ![r].status = st])
  <1>1. trade \in [RowIds -> Rows] /\ TableOK(trade)
    BY DEF BInv, TypeOK
  <1>2. Follows(trade, [trade EXCEPT ![r].alloc = n])
    BY <1>1 DEF Follows, TableOK, Rows
  <1>3. Follows(trade, [trade EXCEPT ![r].status = st])
    BY <1>1 DEF Follows, TableOK, Rows
  <1>4. Follows(trade, [trade EXCEPT ![r].alloc = n, ![r].status = st])
    <2>1. PICK new : new = [trade EXCEPT ![r].alloc = n, ![r].status = st]
      OBVIOUS
    <2>2. /\ new \in [RowIds -> Rows]
          /\ new[r].alloc = n /\ new[r].status = st /\ new[r].fresh = trade[r].fresh
          /\ \A q \in RowIds \ {r} : new[q] = trade[q]
      BY <1>1, <2>1 DEF Rows
    <2>3. Follows(trade, new)
      BY <1>1, <2>2 DEF Follows, TableOK
    <2> QED BY <2>1, <2>3
  <1> QED BY <1>2, <1>3, <1>4

\* And a table with one more row.
LEMMA InsertFollows ==
    ASSUME BInv, NEW st \in {"OPEN", "CLOSED"}, NEW n \in Nat \ {0}, Insert(st, n)
    PROVE  Follows(trade, trade')
  <1>1. PICK r \in RowIds, joined \in BOOLEAN :
            /\ trade[r].status = "none"
            /\ trade' = [trade EXCEPT ![r] = [status |-> st, alloc |-> n,
                                              fresh |-> TRUE, joined |-> joined]]
    BY DEF Insert
  <1>2. trade \in [RowIds -> Rows] /\ TableOK(trade)
    BY DEF BInv, TypeOK
  <1>3. trade' \in [RowIds -> Rows]
    BY <1>1, <1>2 DEF Rows
  <1> QED BY <1>1, <1>2, <1>3 DEF Follows, TableOK

\* What a call holds is not disturbed by the writes of the others.
LEMMA CallSurvives ==
    ASSUME TypeOK, Follows(trade, trade'), NEW c \in Calls, CallOK(trade, c)
    PROVE  CallOK(trade', c)
  BY DEF Follows, CallOK, Calls

\* A step of one call keeps the invariant if the table follows and the call
\* ends up with what it should hold.
LEMMA OneCall ==
    ASSUME BInv, NEW p \in Procs, Follows(trade, trade'),
           proc' \in [Procs -> Calls],
           \A o \in Procs \ {p} : proc'[o] = proc[o],
           CallOK(trade', proc'[p]),
           wallet' \in 0..MaxLots, shown' \in 0..MaxLots, events' \in 0..MaxEvents,
           inFlight' \in [Servers -> {"clear", "marked", "expired"}]
    PROVE  BInv'
  <1>1. \A o \in Procs \ {p} : CallOK(trade', proc'[o])
    BY CallSurvives DEF BInv, CallsInv, TypeOK
  <1>2. CallsInv'
    BY <1>1 DEF CallsInv
  <1>3. TypeOK' /\ TableOK(trade')
    BY DEF TypeOK, Follows
  <1> QED BY <1>2, <1>3 DEF BInv

\* An idle call holds nothing.
LEMMA IdleCall == Idle \in Calls /\ \A tr : CallOK(tr, Idle)
  BY DEF Idle, Calls, CallOK

\* Counting an event stays within the bound.
LEMMA DisturbsType == ASSUME TypeOK, Disturbs PROVE events' \in 0..MaxEvents
  BY BookAssumption DEF TypeOK, Disturbs

\* What the invariant says about a call and what surrounds it.
LEMMA CallFacts ==
    ASSUME BInv, NEW p \in Procs
    PROVE  /\ proc \in [Procs -> Calls] /\ proc[p] \in Calls /\ CallOK(trade, proc[p])
           /\ TypeOK /\ TableOK(trade) /\ Follows(trade, trade)
           /\ wallet \in 0..MaxLots /\ shown \in 0..MaxLots /\ events \in 0..MaxEvents
           /\ inFlight \in [Servers -> {"clear", "marked", "expired"}]
           /\ MaxLots \in Nat /\ Home[p] \in Servers
  BY SameTable, BookAssumption DEF BInv, CallsInv, TypeOK

\* The swap: filling it, and what leads to a sale.
LEMMA SwapInv ==
    ASSUME BInv, NEW p \in Traders,
           \/ BuyFills(p) \/ StartSell(p) \/ StartSkim(p) \/ SizeSkim(p) \/ StartSellOpen(p)
           \/ SellFills(p) \/ SellClearsGhosts(p)
    PROVE  BInv'
  <1>p. p \in Procs
    BY DEF Procs
  <1>0. /\ proc \in [Procs -> Calls] /\ proc[p] \in Calls /\ CallOK(trade, proc[p])
        /\ TypeOK /\ TableOK(trade) /\ Follows(trade, trade)
        /\ wallet \in 0..MaxLots /\ shown \in 0..MaxLots /\ events \in 0..MaxEvents
        /\ inFlight \in [Servers -> {"clear", "marked", "expired"}]
        /\ MaxLots \in Nat /\ p \in Procs
    BY <1>p, CallFacts
  <1>c. wallet \in Nat /\ wallet <= MaxLots /\ MaxLots \in Nat
    BY <1>0
  <1>1. OpenRows \in SUBSET RowIds /\ \A r \in OpenRows : trade[r].status # "none"
    BY DEF OpenRows
  <1>2. CASE BuyFills(p)
    <2>1. PICK n \in 1..(MaxLots - wallet) :
             /\ wallet' = wallet + n
             /\ proc' = [proc EXCEPT ![p] = [Idle EXCEPT !.pc = "filled", !.kind = "buy",
                                                        !.size = n]]
      BY <1>2 DEF BuyFills
    <2>n. n \in Nat /\ n > 0 /\ wallet + n <= MaxLots
      BY <1>c, <2>1
    <2>2. /\ proc' \in [Procs -> Calls] /\ \A o \in Procs \ {p} : proc'[o] = proc[o]
          /\ CallOK(trade, proc'[p])
      <3> DEFINE new == [Idle EXCEPT !.pc = "filled", !.kind = "buy", !.size = n]
      <3>1. new \in Calls /\ CallOK(trade, new)
        BY <2>n DEF Idle, Calls, CallOK
      <3>2. proc' = [proc EXCEPT ![p] = new]
        BY <2>1
      <3> HIDE DEF new
      <3> QED BY <1>0, <3>1, <3>2
    <2>3. wallet' \in 0..MaxLots
      BY <1>c, <2>1, <2>n
    <2>4. events' \in 0..MaxEvents
      BY <1>2, DisturbsType DEF BuyFills, BInv
    <2> QED BY <1>0, <1>2, <2>2, <2>3, <2>4, OneCall DEF BuyFills
  <1>3. CASE StartSell(p)
    <2>1. /\ proc' \in [Procs -> Calls] /\ \A o \in Procs \ {p} : proc'[o] = proc[o]
          /\ CallOK(trade, proc'[p])
      <3> DEFINE new == [Idle EXCEPT !.pc = "swap", !.kind = "sell", !.size = MaxLots]
      <3>1. new \in Calls /\ CallOK(trade, new)
        BY <1>c DEF Idle, Calls, CallOK
      <3>2. proc' = [proc EXCEPT ![p] = new]
        BY <1>3 DEF StartSell
      <3> HIDE DEF new
      <3> QED BY <1>0, <3>1, <3>2
    <2> QED BY <1>0, <1>3, <2>1, OneCall DEF StartSell, chain
  <1>4. CASE StartSkim(p)
    <2>1. /\ proc' \in [Procs -> Calls] /\ \A o \in Procs \ {p} : proc'[o] = proc[o]
          /\ CallOK(trade, proc'[p])
      <3> DEFINE new == [Idle EXCEPT !.pc = "merge", !.kind = "skim"]
      <3>1. new \in Calls /\ CallOK(trade, new)
        BY DEF Idle, Calls, CallOK
      <3>2. proc' = [proc EXCEPT ![p] = new]
        BY <1>4 DEF StartSkim
      <3> HIDE DEF new
      <3> QED BY <1>0, <3>1, <3>2
    <2> QED BY <1>0, <1>4, <2>1, OneCall DEF StartSkim, chain
  <1>5. CASE SizeSkim(p)
    <2>1. CASE OpenRows = {}
      <3>1. proc' = [proc EXCEPT ![p] = Idle]
        BY <1>5, <2>1 DEF SizeSkim
      <3>2. /\ proc' \in [Procs -> Calls] /\ \A o \in Procs \ {p} : proc'[o] = proc[o]
            /\ CallOK(trade, proc'[p])
        BY <1>0, <3>1, IdleCall
      <3> QED BY <1>0, <1>5, <3>2, OneCall DEF SizeSkim, chain
    <2>2. CASE OpenRows # {}
      <3>1. proc[p].pc = "sizing"
              /\ proc' = [proc EXCEPT ![p].pc = "swap", ![p].size = trade[Min(OpenRows)].alloc]
        BY <1>5, <2>2 DEF SizeSkim
      <3>2. trade[Min(OpenRows)].alloc \in Nat
        BY <1>0, <1>1, <2>2, SetsOfRows DEF TypeOK, Rows
      <3>3. /\ proc' \in [Procs -> Calls] /\ \A o \in Procs \ {p} : proc'[o] = proc[o]
            /\ CallOK(trade, proc'[p])
        BY <1>0, <3>1, <3>2 DEF Calls, CallOK
      <3> QED BY <1>0, <1>5, <3>3, OneCall DEF SizeSkim, chain
    <2> QED BY <2>1, <2>2
  <1>6. CASE StartSellOpen(p)
    <2>1. Alloc(OpenRows) \in Nat
      BY <1>0, <1>1, AllocOfRows
    <2>2. proc' = [proc EXCEPT ![p] = [Idle EXCEPT !.pc = "merge", !.kind = "sellOpen",
                                         !.size = Alloc(OpenRows), !.lots = OpenRows]]
      BY <1>6 DEF StartSellOpen
    <2>3. /\ proc' \in [Procs -> Calls] /\ \A o \in Procs \ {p} : proc'[o] = proc[o]
          /\ CallOK(trade, proc'[p])
      <3> DEFINE new == [Idle EXCEPT !.pc = "merge", !.kind = "sellOpen",
                                     !.size = Alloc(OpenRows), !.lots = OpenRows]
      <3>1. new \in Calls /\ CallOK(trade, new)
        BY <1>1, <2>1 DEF Idle, Calls, CallOK
      <3> HIDE DEF new
      <3>2. proc' = [proc EXCEPT ![p] = new]
        BY <2>2 DEF new
      <3> QED BY <1>0, <3>1, <3>2
    <2> QED BY <1>0, <1>6, <2>3, OneCall DEF StartSellOpen, chain
  <1>7. CASE SellFills(p)
    <2>0. proc[p].size \in Nat /\ proc[p].size \div 2 \in Nat
      <3>1. proc[p].size \in Nat
        BY <1>0 DEF Calls
      <3>2. \A i \in Nat : i \div 2 \in Nat
        OBVIOUS
      <3> QED BY <3>1, <3>2
    <2>1. proc[p].pc = "swap" /\ AtMost(p) \in Nat
      BY <1>7, <2>0 DEF SellFills, AtMost
    <2>2. PICK n \in 1..AtMost(p) :
             /\ n <= wallet
             /\ wallet' = wallet - n
             /\ proc' = [proc EXCEPT ![p].pc = "booking", ![p].size = n]
      BY <1>7 DEF SellFills
    <2>3. n \in Nat /\ n > 0
      BY <2>1, <2>2
    <2>4. /\ proc' \in [Procs -> Calls] /\ \A o \in Procs \ {p} : proc'[o] = proc[o]
          /\ CallOK(trade, proc'[p])
      BY <1>0, <2>1, <2>2, <2>3 DEF Calls, CallOK
    <2>5. wallet' \in 0..MaxLots
      BY <1>c, <2>2, <2>3
    <2>6. events' \in 0..MaxEvents
      BY <1>7, DisturbsType DEF SellFills, BInv
    <2> QED BY <1>0, <1>7, <2>4, <2>5, <2>6, OneCall DEF SellFills
  <1>8. CASE SellClearsGhosts(p)
    <2>1. proc' = [proc EXCEPT ![p] = Idle] /\ trade' = CancelIfOpen(trade, proc[p].lots)
      BY <1>8 DEF SellClearsGhosts
    <2>2. Follows(trade, trade')
      BY <2>1, CancelFollows
    <2>3. /\ proc' \in [Procs -> Calls] /\ \A o \in Procs \ {p} : proc'[o] = proc[o]
          /\ CallOK(trade', proc'[p])
      BY <1>0, <2>1, IdleCall
    <2> QED BY <1>0, <1>8, <2>2, <2>3, OneCall DEF SellClearsGhosts, chain
  <1> QED BY <1>2, <1>3, <1>4, <1>5, <1>6, <1>7, <1>8

\* The finally block leaves the marks well typed.
LEMMA ClearMarkType ==
    ASSUME TypeOK, NEW p \in Procs, ClearMark(p)
    PROVE  inFlight' \in [Servers -> {"clear", "marked", "expired"}]
  BY DEF TypeOK, ClearMark

\* A call that ends keeps the invariant if the table follows.
LEMMA CallEnds ==
    ASSUME BInv, NEW p \in Procs, proc' = [proc EXCEPT ![p] = Idle], Follows(trade, trade'),
           UNCHANGED <<wallet, shown>>, events' \in 0..MaxEvents,
           inFlight' \in [Servers -> {"clear", "marked", "expired"}]
    PROVE  BInv'
  <1>1. /\ proc' \in [Procs -> Calls] /\ \A o \in Procs \ {p} : proc'[o] = proc[o]
        /\ CallOK(trade', proc'[p])
    BY CallFacts, IdleCall
  <1>2. wallet' \in 0..MaxLots /\ shown' \in 0..MaxLots
    BY CallFacts
  <1> QED BY <1>1, <1>2, OneCall

\* A sale that was booked goes on to the trim, or ends.
LEMMA SaleBooked ==
    ASSUME BInv, NEW p \in Procs, proc[p].kind # "buy", proc' = [proc EXCEPT ![p] = AfterSell(p)],
           Follows(trade, trade'), UNCHANGED <<chain, inFlight>>
    PROVE  BInv'
  <1>0. /\ proc \in [Procs -> Calls] /\ proc[p] \in Calls /\ CallOK(trade, proc[p])
        /\ TypeOK /\ TableOK(trade) /\ Follows(trade, trade)
        /\ wallet \in 0..MaxLots /\ shown \in 0..MaxLots /\ events \in 0..MaxEvents
        /\ inFlight \in [Servers -> {"clear", "marked", "expired"}] /\ Home[p] \in Servers
    BY CallFacts
  <1>2. AfterSell(p) \in Calls /\ CallOK(trade', AfterSell(p))
    BY <1>0, IdleCall DEF AfterSell, Calls, CallOK
  <1>3. /\ proc' \in [Procs -> Calls] /\ \A o \in Procs \ {p} : proc'[o] = proc[o]
        /\ CallOK(trade', proc'[p])
    BY <1>0, <1>2
  <1> QED BY <1>0, <1>3, OneCall DEF chain

\* The booking.
LEMMA BookInv == ASSUME BInv, NEW p \in Procs, BookStep(p) PROVE BInv'
  <1>0. /\ proc \in [Procs -> Calls] /\ proc[p] \in Calls /\ CallOK(trade, proc[p])
        /\ TypeOK /\ TableOK(trade) /\ Follows(trade, trade)
        /\ wallet \in 0..MaxLots /\ shown \in 0..MaxLots /\ events \in 0..MaxEvents
        /\ inFlight \in [Servers -> {"clear", "marked", "expired"}] /\ Home[p] \in Servers
    BY CallFacts
  <1>1. OpenRows \in SUBSET RowIds /\ \A r \in OpenRows : trade[r].status # "none"
    BY DEF OpenRows
  <1>2. CASE GuardAdmits(p)
    <2>1. proc[p].pc = "filled" /\ proc' = [proc EXCEPT ![p].pc = "booking"] /\ trade' = trade
      BY <1>2 DEF GuardAdmits, Goes
    <2>2. /\ proc' \in [Procs -> Calls] /\ \A o \in Procs \ {p} : proc'[o] = proc[o]
          /\ CallOK(trade', proc'[p])
      BY <1>0, <2>1 DEF Calls, CallOK
    <2>3. inFlight' \in [Servers -> {"clear", "marked", "expired"}]
      BY <1>0, <1>2 DEF GuardAdmits
    <2> QED BY <1>0, <1>2, <2>1, <2>2, <2>3, OneCall DEF GuardAdmits, chain
  <1>3. CASE GuardRefuses(p)
    BY <1>0, <1>3, CallEnds DEF GuardRefuses, chain
  <1>4. CASE BookReads(p)
    <2>1. /\ proc[p].pc = "booking" /\ trade' = trade
          /\ proc' = [proc EXCEPT ![p].pc = "write", ![p].ids = Oldest(OpenRows),
                                  ![p].amt = Alloc(Oldest(OpenRows))]
      BY <1>4 DEF BookReads
    <2>2. Oldest(OpenRows) \in SUBSET RowIds /\ \A r \in Oldest(OpenRows) : trade[r].status # "none"
      BY <1>1, SetsOfRows
    <2>3. Alloc(Oldest(OpenRows)) \in Nat
      BY <1>0, <2>2, AllocOfRows
    <2>4. /\ proc' \in [Procs -> Calls] /\ \A o \in Procs \ {p} : proc'[o] = proc[o]
          /\ CallOK(trade', proc'[p])
      <3> DEFINE ids == Oldest(OpenRows)
                 n == Alloc(ids)
                 new == [proc[p] EXCEPT !.pc = "write", !.ids = ids, !.amt = n]
      <3>1. proc' = [proc EXCEPT ![p] = new]
        BY <1>0, <2>1
      <3>2. ids \in SUBSET RowIds /\ n \in Nat /\ \A r \in ids : trade[r].status # "none"
        BY <2>2, <2>3
      <3> HIDE DEF ids, n
      <3>3. new \in Calls
        BY <1>0, <3>2 DEF Calls
      <3>4. CallOK(trade, new)
        BY <1>0, <2>1, <3>2 DEF Calls, CallOK
      <3>5. proc \in [Procs -> Calls] /\ p \in Procs
        BY <1>0
      <3> HIDE DEF new
      <3> QED BY <2>1, <3>1, <3>3, <3>4, <3>5
    <2> QED BY <1>0, <1>4, <2>1, <2>4, OneCall DEF BookReads, chain
  <1>w. ASSUME proc[p].pc = "write"
        PROVE  /\ proc[p].size \in Nat \ {0} /\ proc[p].amt \in Nat
               /\ proc[p].ids # {} => Min(proc[p].ids) \in RowIds
                                      /\ trade[Min(proc[p].ids)].status # "none"
    BY <1>0, <1>w, SetsOfRows DEF Calls, CallOK
  <1>5. CASE BookBuy(p)
    <2>1. proc[p].pc = "write" /\ proc[p].kind = "buy"
      BY <1>5 DEF BookBuy
    <2>2. CASE /\ Insert("OPEN", proc[p].size)
               /\ ClearMark(p)
               /\ proc' = [proc EXCEPT ![p] = Idle]
      <3>1. Follows(trade, trade')
        BY <1>w, <2>1, <2>2, InsertFollows
      <3>2. inFlight' \in [Servers -> {"clear", "marked", "expired"}]
        BY <1>0, <2>2, ClearMarkType
      <3> QED BY <1>0, <1>5, <2>2, <3>1, <3>2, CallEnds DEF BookBuy, chain
    <2>3. CASE /\ proc[p].ids # {}
               /\ trade' = [trade EXCEPT ![Min(proc[p].ids)].alloc = proc[p].amt + proc[p].size]
               /\ Goes(p, "merge")
               /\ UNCHANGED inFlight
      <3>1. Follows(trade, trade')
        <4>1. proc[p].amt + proc[p].size \in Nat \ {0}
          BY <1>w, <2>1
        <4> QED BY <1>w, <2>1, <2>3, <4>1, WriteFollows
      <3>2. /\ proc' \in [Procs -> Calls] /\ \A o \in Procs \ {p} : proc'[o] = proc[o]
          /\ CallOK(trade', proc'[p])
        BY <1>0, <2>1, <2>3 DEF Goes, Calls, CallOK
      <3> QED BY <1>0, <1>5, <2>3, <3>1, <3>2, OneCall DEF BookBuy, chain
    <2> QED BY <1>5, <2>2, <2>3 DEF BookBuy
  <1>6. CASE BookSkim(p)
    <2>1. /\ proc[p].pc = "write" /\ proc[p].ids # {}
          /\ trade' = [trade EXCEPT ![Min(proc[p].ids)].alloc = proc[p].amt - proc[p].size,
                                    ![Min(proc[p].ids)].status = "OPEN"]
          /\ proc[p].size * 100 < proc[p].amt * 95
      BY <1>6 DEF BookSkim, IsPartial
    <2>2. proc[p].amt - proc[p].size \in Nat \ {0}
      BY <1>w, <2>1
    <2>3. Follows(trade, trade')
      BY <1>w, <2>1, <2>2, WriteFollows
    <2> QED BY <1>0, <1>6, <2>3, CallEnds DEF BookSkim, chain
  <1>7. CASE BookClose(p)
    <2>1. /\ proc[p].pc = "write" /\ proc[p].ids # {} /\ proc[p].kind # "buy"
          /\ trade' = [trade EXCEPT ![Min(proc[p].ids)].status = "CLOSED"]
          /\ proc' = [proc EXCEPT ![p].pc = "extras"]
      BY <1>7 DEF BookClose, Goes
    <2>2. Follows(trade, trade')
      BY <1>w, <2>1, WriteFollows
    <2>3. /\ proc' \in [Procs -> Calls] /\ \A o \in Procs \ {p} : proc'[o] = proc[o]
          /\ CallOK(trade', proc'[p])
      BY <1>0, <2>1 DEF Calls, CallOK
    <2> QED BY <1>0, <1>7, <2>2, <2>3, OneCall DEF BookClose, chain
  <1>8. CASE CancelExtras(p)
    <2>1. proc[p].kind # "buy"
      BY <1>0, <1>8 DEF CancelExtras, CallOK
    <2>2. Follows(trade, trade')
      BY <1>8, CancelFollows DEF CancelExtras
    <2> QED BY <1>8, <2>1, <2>2, SaleBooked DEF CancelExtras
  <1>9. CASE BookLoneSell(p)
    <2>1. Follows(trade, trade')
      BY <1>9, <1>w, InsertFollows DEF BookLoneSell
    <2> QED BY <1>9, <2>1, SaleBooked DEF BookLoneSell
  <1>10. CASE TrimReads(p)
    <2>1. /\ proc[p].pc = "trim" /\ trade' = trade
          /\ proc' = [proc EXCEPT ![p].pc = "trimCancel",
                                  ![p].ids = OpenRows \ Oldest(OpenRows)]
      BY <1>10 DEF TrimReads
    <2>2. /\ proc' \in [Procs -> Calls] /\ \A o \in Procs \ {p} : proc'[o] = proc[o]
          /\ CallOK(trade', proc'[p])
      BY <1>0, <1>1, <2>1 DEF Calls, CallOK
    <2> QED BY <1>0, <1>10, <2>1, <2>2, OneCall DEF TrimReads, chain
  <1>11. CASE TrimCancels(p)
    <2>1. /\ proc[p].pc = "trimCancel"
          /\ trade' = [r \in RowIds |-> IF r \in proc[p].ids
                                         THEN [trade[r] EXCEPT !.status = "CANCELLED"] ELSE trade[r]]
      BY <1>11 DEF TrimCancels
    <2>2. \A r \in proc[p].ids : trade[r].status # "none"
      BY <1>0, <2>1 DEF CallOK
    <2>3. trade \in [RowIds -> Rows]
      BY <1>0 DEF TypeOK
    <2>4. Follows(trade, trade')
      BY <1>0, <2>1, <2>2, <2>3 DEF Follows, TableOK, Rows
    <2> QED BY <1>0, <1>11, <2>4, CallEnds DEF TrimCancels, chain
  <1> QED BY <1>2, <1>3, <1>4, <1>5, <1>6, <1>7, <1>8, <1>9, <1>10, <1>11 DEF BookStep

\* The end of a merge, however it ends, keeps the invariant if the table
\* follows.
LEMMA MergeEnds ==
    ASSUME BInv, NEW p \in Procs, EndMerge(p), Follows(trade, trade'),
           UNCHANGED <<wallet, shown>>, events' \in 0..MaxEvents
    PROVE  BInv'
  <1>0. /\ proc \in [Procs -> Calls] /\ proc[p] \in Calls /\ CallOK(trade, proc[p])
        /\ TypeOK /\ TableOK(trade) /\ Follows(trade, trade)
        /\ wallet \in 0..MaxLots /\ shown \in 0..MaxLots /\ events \in 0..MaxEvents
        /\ inFlight \in [Servers -> {"clear", "marked", "expired"}] /\ Home[p] \in Servers
    BY CallFacts
  <1>2. AfterMerge(p) \in Calls /\ CallOK(trade', AfterMerge(p))
    <2>1. CASE proc[p].kind \in {"skim", "sellOpen", "tidy"}
      BY <1>0, <2>1 DEF AfterMerge, Calls, CallOK
    <2>2. CASE proc[p].kind \notin {"skim", "sellOpen", "tidy"}
      <3>1. AfterMerge(p) = Idle
        BY <2>2 DEF AfterMerge
      <3> QED BY <3>1, IdleCall
    <2> QED BY <2>1, <2>2
  <1>3. proc' = [proc EXCEPT ![p] = AfterMerge(p)]
    BY DEF EndMerge
  <1>4. /\ proc' \in [Procs -> Calls] /\ \A o \in Procs \ {p} : proc'[o] = proc[o]
        /\ CallOK(trade', proc'[p])
    BY <1>0, <1>2, <1>3
  <1>5. inFlight' \in [Servers -> {"clear", "marked", "expired"}]
    BY <1>0, ClearMarkType DEF EndMerge
  <1> QED BY <1>0, <1>4, <1>5, OneCall

\* Rows that are duplicates are rows.
LEMMA DuplicatesAreSome == ASSUME NEW R, HasDuplicates(R) PROVE R # {}
  BY FS_EmptySet DEF HasDuplicates

\* The merge.
LEMMA MergeInv == ASSUME BInv, NEW p \in Procs, MergeStep(p) PROVE BInv'
  <1>0. /\ proc \in [Procs -> Calls] /\ proc[p] \in Calls /\ CallOK(trade, proc[p])
        /\ TypeOK /\ TableOK(trade) /\ Follows(trade, trade)
        /\ wallet \in 0..MaxLots /\ shown \in 0..MaxLots /\ events \in 0..MaxEvents
        /\ inFlight \in [Servers -> {"clear", "marked", "expired"}] /\ Home[p] \in Servers
    BY CallFacts
  <1>1. OpenRows \in SUBSET RowIds /\ \A r \in OpenRows : trade[r].status # "none"
    BY DEF OpenRows
  <1>2. CASE MergeReads(p)
    <2>1. CASE EndMerge(p)
      BY <1>0, <1>2, <2>1, MergeEnds DEF MergeReads, chain
    <2>2. CASE /\ HasDuplicates(OpenRows)
               /\ proc' = [proc EXCEPT ![p].pc = "mergeWrite", ![p].ids = OpenRows,
                                       ![p].amt = Alloc(OpenRows)]
               /\ UNCHANGED inFlight
      <3>1. proc[p].pc = "merge" /\ trade' = trade
        BY <1>2 DEF MergeReads
      <3>2. OpenRows # {}
        BY <2>2, DuplicatesAreSome
      <3>3. Alloc(OpenRows) \in Nat /\ Alloc(OpenRows) > 0
        BY <1>0, <1>1, <3>2, AllocOfRows
      <3>4. /\ proc' \in [Procs -> Calls] /\ \A o \in Procs \ {p} : proc'[o] = proc[o]
          /\ CallOK(trade', proc'[p])
        BY <1>0, <1>1, <2>2, <3>1, <3>2, <3>3 DEF Calls, CallOK
      <3> QED BY <1>0, <1>2, <2>2, <3>1, <3>4, OneCall DEF MergeReads, chain
    <2> QED BY <1>2, <2>1, <2>2 DEF MergeReads
  <1>m. ASSUME proc[p].pc = "mergeWrite"
        PROVE  /\ proc[p].amt \in Nat \ {0} /\ Min(proc[p].ids) \in RowIds
               /\ trade[Min(proc[p].ids)].status # "none"
    BY <1>0, <1>m, SetsOfRows DEF Calls, CallOK
  <1>3. CASE MergeWrites(p)
    <2>1. /\ proc[p].pc = "mergeWrite"
          /\ trade' = [trade EXCEPT ![Min(proc[p].ids)].alloc = proc[p].amt]
          /\ proc' = [proc EXCEPT ![p].pc = "mergeCancel"]
      BY <1>3 DEF MergeWrites, Goes
    <2>2. Follows(trade, trade')
      BY <1>m, <2>1, WriteFollows
    <2>3. CallOK(trade', proc[p])
      BY <1>0, <2>2, CallSurvives
    <2>4. /\ proc' \in [Procs -> Calls] /\ \A o \in Procs \ {p} : proc'[o] = proc[o]
          /\ CallOK(trade', proc'[p])
      BY <1>0, <2>1, <2>3 DEF Calls, CallOK
    <2> QED BY <1>0, <1>3, <2>2, <2>4, OneCall DEF MergeWrites, chain
  <1>4. CASE MergeCancels(p)
    <2>1. Follows(trade, trade')
      BY <1>4, CancelFollows DEF MergeCancels
    <2> QED BY <1>0, <1>4, <2>1, MergeEnds DEF MergeCancels, chain
  <1>5. CASE MergeThrows(p)
    BY <1>0, <1>5, MergeEnds, DisturbsType DEF MergeThrows
  <1> QED BY <1>2, <1>3, <1>4, <1>5 DEF MergeStep

\* The correction of a burst writes the quantity of one of its rows, which
\* is not zero.
LEMMA UnitsAreCounted ==
    ASSUME TypeOK, NEW r \in RowIds, Inflated(r)
    PROVE  Min(Units(r)) \in Nat /\ Min(Units(r)) > 0
  <1>a. \A q \in RowIds : trade[q].alloc \in Nat
    BY DEF TypeOK, Rows
  <1>b. Burst(r) \subseteq RowIds
    BY DEF Burst
  <1>1. Units(r) \in SUBSET (Nat \ {0})
    BY <1>a, <1>b, Zenon DEF Units
  <1>2. Units(r) # {}
    BY DEF Inflated
  <1>3. Min(Units(r)) \in Units(r)
    BY <1>1, <1>2, MinIsLeast
  <1> QED BY <1>1, <1>3

\* The reconcile.
LEMMA TidyInv == ASSUME BInv, NEW p \in Tidiers, TidyStep(p) \/ TidyThrows(p) PROVE BInv'
  <1>p. p \in Procs
    BY DEF Procs
  <1>0. /\ proc \in [Procs -> Calls] /\ proc[p] \in Calls /\ CallOK(trade, proc[p])
        /\ TypeOK /\ TableOK(trade) /\ Follows(trade, trade)
        /\ wallet \in 0..MaxLots /\ shown \in 0..MaxLots /\ events \in 0..MaxEvents
        /\ inFlight \in [Servers -> {"clear", "marked", "expired"}] /\ Home[p] \in Servers
    BY <1>p, CallFacts
  <1>1. OpenRows \in SUBSET RowIds /\ \A r \in OpenRows : trade[r].status # "none"
    BY DEF OpenRows
  <1>i. /\ [Idle EXCEPT !.pc = "merge", !.kind = "tidy"] \in Calls
        /\ \A tr : CallOK(tr, [Idle EXCEPT !.pc = "merge", !.kind = "tidy"])
    BY DEF Idle, Calls, CallOK
  <1>2. CASE BurstReads(p)
    <2>1. trade' = trade
      BY <1>2 DEF BurstReads
    <2>2. CASE proc' = [proc EXCEPT ![p] = [Idle EXCEPT !.pc = "merge", !.kind = "tidy"]]
      <3>1. /\ proc' \in [Procs -> Calls] /\ \A o \in Procs \ {p} : proc'[o] = proc[o]
          /\ CallOK(trade', proc'[p])
        BY <1>0, <1>p, <1>i, <2>2
      <3> QED BY <1>0, <1>p, <1>2, <2>1, <3>1, OneCall DEF BurstReads, chain
    <2>3. ASSUME NEW r \in RowIds, trade[r].status # "none", Inflated(r),
                 proc' = [proc EXCEPT ![p] = [Idle EXCEPT !.pc = "burstWrite", !.kind = "tidy",
                                                !.ids = {r}, !.amt = Min(Units(r))]]
          PROVE  BInv'
      <3>1. Min(Units(r)) \in Nat /\ Min(Units(r)) > 0
        BY <1>0, <2>3, UnitsAreCounted
      <3>2. /\ proc' \in [Procs -> Calls] /\ \A o \in Procs \ {p} : proc'[o] = proc[o]
          /\ CallOK(trade', proc'[p])
        <4> DEFINE new == [Idle EXCEPT !.pc = "burstWrite", !.kind = "tidy",
                                       !.ids = {r}, !.amt = Min(Units(r))]
        <4>1. new \in Calls
          BY <3>1 DEF Idle, Calls
        <4>2. CallOK(trade, new)
          BY <2>3, <3>1 DEF Idle, CallOK
        <4>3. proc' = [proc EXCEPT ![p] = new]
          BY <2>3
        <4> HIDE DEF new
        <4> QED BY <1>0, <1>p, <2>1, <4>1, <4>2, <4>3
      <3> QED BY <1>0, <1>p, <1>2, <2>1, <3>2, OneCall DEF BurstReads, chain
    <2> QED BY <1>2, <2>2, <2>3, Zenon DEF BurstReads
  <1>m. ASSUME proc[p].pc \in {"burstWrite", "decide"}
        PROVE  /\ proc[p].amt \in Nat \ {0} /\ proc[p].size \in Nat
               /\ Min(proc[p].ids) \in RowIds /\ Min(proc[p].ids) \in proc[p].ids
               /\ trade[Min(proc[p].ids)].status # "none"
    BY <1>0, <1>m, SetsOfRows DEF Calls, CallOK
  <1>3. CASE BurstWrites(p)
    <2>1. /\ proc[p].pc = "burstWrite"
          /\ trade' = [trade EXCEPT ![Min(proc[p].ids)].alloc = proc[p].amt]
          /\ proc' = [proc EXCEPT ![p] = [Idle EXCEPT !.pc = "merge", !.kind = "tidy"]]
      BY <1>3 DEF BurstWrites
    <2>2. Follows(trade, trade')
      BY <1>m, <2>1, WriteFollows
    <2>3. /\ proc' \in [Procs -> Calls] /\ \A o \in Procs \ {p} : proc'[o] = proc[o]
          /\ CallOK(trade', proc'[p])
      BY <1>0, <1>p, <1>i, <2>1
    <2> QED BY <1>0, <1>p, <1>3, <2>2, <2>3, OneCall DEF BurstWrites, chain
  <1>4. CASE OpensRead(p)
    <2>1. CASE OpenRows = {}
      BY <1>0, <1>p, <1>4, <2>1, CallEnds DEF OpensRead, chain
    <2>2. CASE OpenRows # {}
      <3>1. /\ proc[p].pc = "opens" /\ trade' = trade
            /\ proc' = [proc EXCEPT ![p].pc = "holdings", ![p].ids = OpenRows,
                                    ![p].amt = Alloc(OpenRows)]
        BY <1>4, <2>2 DEF OpensRead
      <3>2. Alloc(OpenRows) \in Nat /\ Alloc(OpenRows) > 0
        BY <1>0, <1>1, <2>2, AllocOfRows
      <3>3. /\ proc' \in [Procs -> Calls] /\ \A o \in Procs \ {p} : proc'[o] = proc[o]
          /\ CallOK(trade', proc'[p])
        BY <1>0, <1>p, <1>1, <2>2, <3>1, <3>2 DEF Calls, CallOK
      <3> QED BY <1>0, <1>p, <1>4, <3>1, <3>3, OneCall DEF OpensRead, chain
    <2> QED BY <2>1, <2>2
  <1>s. shown \in Nat
    BY <1>0, BookAssumption
  <1>5. CASE HoldingsRead(p)
    <2>1. /\ proc[p].pc = "holdings" /\ trade' = trade
          /\ proc' = [proc EXCEPT ![p].pc = "decide", ![p].size = shown]
      BY <1>5 DEF HoldingsRead
    <2>2. /\ proc' \in [Procs -> Calls] /\ \A o \in Procs \ {p} : proc'[o] = proc[o]
          /\ CallOK(trade', proc'[p])
      BY <1>0, <1>p, <1>s, <2>1 DEF Calls, CallOK
    <2> QED BY <1>0, <1>p, <1>5, <2>1, <2>2, OneCall DEF HoldingsRead, chain
  <1>6. CASE HoldingsReread(p)
    <2>1. /\ proc[p].pc = "decide" /\ trade' = trade
          /\ proc' = [proc EXCEPT ![p].size = shown]
      BY <1>6 DEF HoldingsReread
    <2>2. /\ proc' \in [Procs -> Calls] /\ \A o \in Procs \ {p} : proc'[o] = proc[o]
          /\ CallOK(trade', proc'[p])
      BY <1>0, <1>p, <1>s, <2>1 DEF Calls, CallOK
    <2> QED BY <1>0, <1>p, <1>6, <2>1, <2>2, OneCall DEF HoldingsReread, chain
  <1>7. CASE CancelGhosts(p) \/ CancelScaled(p)
    <2>1. Follows(trade, trade')
      BY <1>7, CancelFollows DEF CancelGhosts, CancelScaled
    <2> QED BY <1>0, <1>p, <1>7, <2>1, CallEnds DEF CancelGhosts, CancelScaled, chain
  <1>8. CASE ScaleDown(p)
    <2>1. /\ proc[p].pc = "decide"
          /\ \A r \in proc[p].ids : ~trade[r].fresh
          /\ ~(proc[p].size * 100 < proc[p].amt * 5)
          /\ trade' = [trade EXCEPT ![Min(proc[p].ids)].alloc = proc[p].size]
          /\ proc' = [proc EXCEPT ![p].pc = "tidyCancel"]
      BY <1>8 DEF ScaleDown, IsUnbacked, IsGhost, PastGrace, Goes
    <2>2. proc[p].size \in Nat \ {0}
      BY <1>m, <2>1
    <2>3. Follows(trade, trade')
      BY <1>m, <2>1, <2>2, WriteFollows
    <2>4. \A r \in proc[p].ids : trade'[r].status # "none" /\ ~trade'[r].fresh
      BY <1>0, <2>1, <2>3 DEF Follows, CallOK, Calls
    <2>5. /\ proc' \in [Procs -> Calls] /\ \A o \in Procs \ {p} : proc'[o] = proc[o]
          /\ CallOK(trade', proc'[p])
      BY <1>0, <1>p, <2>1, <2>4 DEF Calls, CallOK
    <2> QED BY <1>0, <1>p, <1>8, <2>3, <2>5, OneCall DEF ScaleDown, chain
  <1>9. CASE LeaveAlone(p)
    BY <1>0, <1>p, <1>9, CallEnds DEF LeaveAlone, chain
  <1>10. CASE TidyThrows(p)
    <2>1. trade' = trade /\ events' \in 0..MaxEvents /\ UNCHANGED <<wallet, shown, inFlight>>
      BY <1>0, <1>10, DisturbsType DEF TidyThrows
    <2>2. /\ proc' \in [Procs -> Calls] /\ \A o \in Procs \ {p} : proc'[o] = proc[o]
          /\ CallOK(trade', proc'[p])
      BY <1>0, <1>p, <1>i, <1>10, IdleCall DEF TidyThrows
    <2> QED BY <1>0, <1>p, <2>1, <2>2, OneCall
  <1> QED BY <1>2, <1>3, <1>4, <1>5, <1>6, <1>7, <1>8, <1>9, <1>10 DEF TidyStep

\* The chain, the clock, a failed await and a restart.
LEMMA RestInv ==
    ASSUME BInv,
           \/ Convert \/ RpcCatchesUp \/ \E r \in RowIds : GraceEnds(r)
           \/ \E s \in Servers : MarkExpires(s) \/ Restart(s)
           \/ \E p \in Traders : Throws(p)
           \/ UNCHANGED vars
    PROVE  BInv'
  <1>0. /\ TypeOK /\ TableOK(trade) /\ CallsInv /\ Follows(trade, trade)
    BY SameTable DEF BInv
  <1>c. ASSUME trade' = trade, proc' = proc PROVE TableOK(trade') /\ CallsInv'
    BY <1>0, <1>c DEF CallsInv
  <1>1. CASE Convert \/ RpcCatchesUp \/ (\E s \in Servers : MarkExpires(s)) \/ UNCHANGED vars
    <2>1. trade' = trade /\ proc' = proc
      BY <1>1 DEF Convert, RpcCatchesUp, MarkExpires, vars, chain
    <2>2. TypeOK'
      BY <1>0, <1>1, DisturbsType DEF Convert, RpcCatchesUp, MarkExpires, TypeOK, vars, chain
    <2> QED BY <1>c, <2>1, <2>2 DEF BInv
  <1>2. ASSUME NEW r \in RowIds, GraceEnds(r) PROVE BInv'
    <2>1. trade \in [RowIds -> Rows] /\ trade' = [trade EXCEPT ![r].fresh = FALSE]
      BY <1>0, <1>2 DEF GraceEnds, TypeOK
    <2>2. Follows(trade, trade')
      BY <1>0, <2>1 DEF Follows, TableOK, Rows
    <2>3. CallsInv'
      BY <1>0, <1>2, <2>2, CallSurvives DEF CallsInv, TypeOK, GraceEnds
    <2>4. TypeOK' /\ TableOK(trade')
      BY <1>0, <1>2, <2>2 DEF TypeOK, GraceEnds, Follows, chain
    <2> QED BY <2>3, <2>4 DEF BInv
  <1>3. ASSUME NEW s \in Servers, Restart(s) PROVE BInv'
    <2>1. /\ trade' = trade /\ events' \in 0..MaxEvents /\ UNCHANGED <<wallet, shown>>
          /\ proc' = [p \in Procs |-> IF Home[p] = s THEN Idle ELSE proc[p]]
          /\ inFlight' = [inFlight EXCEPT ![s] = "clear"]
      BY <1>0, <1>3, DisturbsType DEF Restart
    <2>2. TypeOK'
      BY <1>0, <2>1, IdleCall DEF TypeOK
    <2>3. CallsInv'
      BY <1>0, <2>1, IdleCall DEF CallsInv
    <2> QED BY <1>0, <2>1, <2>2, <2>3 DEF BInv
  <1>4. ASSUME NEW p \in Traders, Throws(p) PROVE BInv'
    <2>1. p \in Procs
      BY DEF Procs
    <2>2. inFlight' \in [Servers -> {"clear", "marked", "expired"}]
      BY <1>0, <1>4, <2>1, ClearMarkType DEF Throws, TypeOK
    <2>3. trade' = trade /\ events' = events /\ events \in 0..MaxEvents /\ UNCHANGED <<wallet, shown>>
      BY <1>0, <1>4 DEF Throws, chain, TypeOK
    <2> QED BY <1>0, <1>4, <2>1, <2>2, <2>3, CallEnds DEF Throws
  <1> QED BY <1>1, <1>2, <1>3, <1>4

\* Every step keeps the invariant.
LEMMA BInvInductive == BInv /\ [Next]_vars => BInv'
  <1>1. Traders \subseteq Procs
    BY DEF Procs
  <1> QED BY <1>1, SwapInv, BookInv, MergeInv, TidyInv, RestInv DEF Next

\* The first state satisfies it.
LEMMA InitBInv == Init => BInv
  <1> SUFFICES ASSUME Init PROVE BInv
    OBVIOUS
  <1>1. TypeOK
    BY BookAssumption, IdleCall DEF Init, TypeOK, NoRow, Rows
  <1>2. TableOK(trade) /\ CallsInv
    BY IdleCall DEF Init, TableOK, CallsInv, NoRow
  <1> QED BY <1>1, <1>2 DEF BInv

\* The table, the balances, the marks and the calls are always well typed:
\* in particular no skim and no correction leaves a row with a negative
\* quantity, whatever it read before others wrote.
THEOREM TypeCorrect == Spec => []TypeOK
  <1>1. BInv => TypeOK
    BY DEF BInv
  <1> QED BY <1>1, InitBInv, BInvInductive, PTL DEF Spec
-----------------------------------------------------------------------------
(* The mark that refuses further BUYs *)

\* Every action that a trader, a merge or a reconcile takes in a call p.
StepOf(p) ==
    \/ BuyFills(p) \/ StartSell(p) \/ StartSkim(p) \/ SizeSkim(p) \/ StartSellOpen(p)
    \/ SellFills(p) \/ SellClearsGhosts(p) \/ BookStep(p) \/ Throws(p)
    \/ MergeStep(p) \/ TidyStep(p) \/ TidyThrows(p)

\* A call's step leaves the other calls alone.
LEMMA OthersWait ==
    ASSUME BInv, NEW p \in Procs, StepOf(p)
    PROVE  \A o \in Procs \ {p} : proc'[o] = proc[o]
  <1>0. proc \in [Procs -> Calls]
    BY CallFacts
  <1>1. CASE \/ BuyFills(p) \/ StartSell(p) \/ StartSkim(p) \/ SizeSkim(p) \/ StartSellOpen(p)
             \/ SellFills(p) \/ SellClearsGhosts(p) \/ Throws(p)
    BY <1>0, <1>1 DEF BuyFills, StartSell, StartSkim, SizeSkim, StartSellOpen, SellFills,
                      SellClearsGhosts, Throws
  <1>2. CASE BookStep(p)
    BY <1>0, <1>2 DEF BookStep, GuardAdmits, GuardRefuses, BookReads, BookBuy, BookSkim, BookClose,
                      CancelExtras, BookLoneSell, TrimReads, TrimCancels, Goes
  <1>3. CASE MergeStep(p)
    BY <1>0, <1>3 DEF MergeStep, MergeReads, MergeWrites, MergeCancels, MergeThrows, EndMerge, Goes
  <1>4. CASE TidyStep(p)
    <2>1. CASE BurstReads(p)
      <3>1. PICK c : proc' = [proc EXCEPT ![p] = c]
        BY <2>1, Zenon DEF BurstReads
      <3> QED BY <1>0, <3>1
    <2>2. CASE ~BurstReads(p)
      BY <1>0, <1>4, <2>2 DEF TidyStep, BurstWrites, OpensRead, HoldingsRead, HoldingsReread,
                              CancelGhosts, ScaleDown, CancelScaled, LeaveAlone, Goes
    <2> QED BY <2>1, <2>2
  <1>5. CASE TidyThrows(p)
    BY <1>0, <1>5 DEF TidyThrows
  <1> QED BY <1>1, <1>2, <1>3, <1>4, <1>5 DEF StepOf

\* A step of one call that keeps its BUY going, clears its server's mark, or
\* sets it for the BUY it goes on with, leaves no stale mark.
LEMMA MarkKept ==
    ASSUME BInv, NoStaleMark, NEW p \in Procs, \A o \in Procs \ {p} : proc'[o] = proc[o],
           \/ inFlight' = inFlight /\ (Buying(p) => Buying(p)')
           \/ inFlight' = [inFlight EXCEPT ![Home[p]] = "clear"]
           \/ /\ p \in Traders /\ Buying(p)'
              /\ inFlight' = [inFlight EXCEPT ![Home[p]] = "marked"]
    PROVE  NoStaleMark'
  <1> SUFFICES ASSUME NEW s \in Servers, inFlight'[s] # "clear"
               PROVE  \E o \in Traders : Home[o] = s /\ Buying(o)'
    BY DEF NoStaleMark
  <1>0. /\ inFlight \in [Servers -> {"clear", "marked", "expired"}]
        /\ Traders \subseteq Procs
        /\ \A o \in Procs \ {p} : Buying(o) => Buying(o)'
    BY CallFacts DEF Procs, Buying
  <1>1. CASE inFlight' = inFlight /\ (Buying(p) => Buying(p)')
    <2>1. PICK o \in Traders : Home[o] = s /\ Buying(o)
      BY <1>1 DEF NoStaleMark
    <2>2. Buying(o)'
      BY <1>0, <1>1, <2>1
    <2> QED BY <2>1, <2>2
  <1>2. CASE inFlight' = [inFlight EXCEPT ![Home[p]] = "clear"]
    <2>1. s # Home[p] /\ inFlight[s] # "clear"
      BY <1>0, <1>2
    <2>2. PICK o \in Traders : Home[o] = s /\ Buying(o)
      BY <2>1 DEF NoStaleMark
    <2>3. Buying(o)'
      BY <1>0, <2>1, <2>2
    <2> QED BY <2>2, <2>3
  <1>3. CASE /\ p \in Traders /\ Buying(p)'
             /\ inFlight' = [inFlight EXCEPT ![Home[p]] = "marked"]
    <2>1. CASE s = Home[p]
      BY <1>3, <2>1
    <2>2. CASE s # Home[p]
      <3>1. inFlight[s] # "clear"
        BY <1>0, <1>3, <2>2
      <3>2. PICK o \in Traders : Home[o] = s /\ Buying(o)
        BY <3>1 DEF NoStaleMark
      <3>3. Buying(o)'
        BY <1>0, <2>2, <3>2
      <3> QED BY <3>2, <3>3
    <2> QED BY <2>1, <2>2
  <1> QED BY <1>1, <1>2, <1>3

\* The end of a merge of a BUY clears the mark; any other merge is no BUY.
LEMMA EndedMergeMark ==
    ASSUME BInv, NoStaleMark, NEW p \in Procs, EndMerge(p),
           \A o \in Procs \ {p} : proc'[o] = proc[o]
    PROVE  NoStaleMark'
  <1>1. CASE proc[p].kind = "buy"
    BY <1>1, MarkKept DEF EndMerge, ClearMark
  <1>2. CASE proc[p].kind # "buy"
    BY <1>2, MarkKept DEF EndMerge, ClearMark, Buying
  <1> QED BY <1>1, <1>2

\* Every step of a call leaves no stale mark.
LEMMA StepMark ==
    ASSUME BInv, NoStaleMark, NEW p \in Procs, StepOf(p), BookStep(p) => p \in Traders
    PROVE  NoStaleMark'
  <1>0. /\ proc \in [Procs -> Calls] /\ proc[p] \in Calls /\ CallOK(trade, proc[p])
        /\ \A o \in Procs \ {p} : proc'[o] = proc[o]
    BY CallFacts, OthersWait
  <1>b. ASSUME proc[p].pc \notin {"booking", "write", "merge", "mergeWrite", "mergeCancel"}
        PROVE  ~Buying(p)
    BY <1>0, <1>b DEF CallOK, Buying
  <1>1. CASE \/ BuyFills(p) \/ StartSell(p) \/ StartSkim(p) \/ SizeSkim(p) \/ StartSellOpen(p)
             \/ SellFills(p) \/ SellClearsGhosts(p)
    <2>1. ~Buying(p) /\ inFlight' = inFlight
      BY <1>b, <1>1 DEF BuyFills, StartSell, StartSkim, SizeSkim, StartSellOpen, SellFills,
                        SellClearsGhosts, Trades
    <2> QED BY <1>0, <2>1, MarkKept
  <1>2. CASE GuardAdmits(p)
    <2>1. /\ proc[p].pc = "filled" /\ proc' = [proc EXCEPT ![p].pc = "booking"]
          /\ inFlight' = [inFlight EXCEPT ![Home[p]] = "marked"]
      BY <1>2 DEF GuardAdmits, Goes
    <2>2. Buying(p)'
      BY <1>0, <2>1 DEF CallOK, Calls, Buying
    <2>3. p \in Traders
      BY <1>2 DEF BookStep
    <2> QED BY <1>0, <2>1, <2>2, <2>3, MarkKept
  <1>3. CASE GuardRefuses(p) \/ CancelExtras(p) \/ TrimReads(p) \/ TrimCancels(p)
    <2>1. ~Buying(p) /\ inFlight' = inFlight
      BY <1>b, <1>3 DEF GuardRefuses, CancelExtras, TrimReads, TrimCancels
    <2> QED BY <1>0, <2>1, MarkKept
  <1>4. CASE BookSkim(p) \/ BookClose(p) \/ BookLoneSell(p)
    <2>1. ~Buying(p) /\ inFlight' = inFlight
      BY <1>4 DEF BookSkim, BookClose, BookLoneSell, IsPartial, Buying
    <2> QED BY <1>0, <2>1, MarkKept
  <1>5. CASE BookReads(p)
    <2>1. inFlight' = inFlight /\ (Buying(p) => Buying(p)')
      BY <1>0, <1>5 DEF BookReads, Buying, Calls
    <2> QED BY <1>0, <2>1, MarkKept
  <1>6. CASE BookBuy(p)
    <2>1. CASE ClearMark(p)
      <3>1. inFlight' = [inFlight EXCEPT ![Home[p]] = "clear"]
        BY <1>6, <2>1 DEF BookBuy, ClearMark
      <3> QED BY <1>0, <3>1, MarkKept
    <2>2. CASE Goes(p, "merge") /\ UNCHANGED inFlight
      <3>1. inFlight' = inFlight /\ (Buying(p) => Buying(p)')
        BY <1>0, <2>2 DEF Goes, Buying, Calls
      <3> QED BY <1>0, <3>1, MarkKept
    <2> QED BY <1>6, <2>1, <2>2 DEF BookBuy
  <1>7. CASE Throws(p)
    <2>1. CASE ClearMark(p) /\ proc[p].kind = "buy"
      BY <1>0, <2>1, MarkKept DEF ClearMark
    <2>2. CASE ClearMark(p) /\ proc[p].kind # "buy"
      BY <1>0, <2>2, MarkKept DEF ClearMark, Buying
    <2>3. CASE ~ClearMark(p)
      <3>1. ~Buying(p) /\ inFlight' = inFlight
        BY <1>b, <1>7, <2>3 DEF Throws
      <3> QED BY <1>0, <3>1, MarkKept
    <2> QED BY <2>1, <2>2, <2>3
  <1>8. CASE MergeStep(p)
    <2>1. CASE EndMerge(p)
      BY <1>0, <2>1, EndedMergeMark
    <2>2. CASE ~EndMerge(p)
      <3>1. inFlight' = inFlight /\ (Buying(p) => Buying(p)')
        BY <1>0, <1>8, <2>2 DEF MergeStep, MergeReads, MergeWrites, MergeCancels, MergeThrows,
                                Goes, Buying, Calls
      <3> QED BY <1>0, <3>1, MarkKept
    <2> QED BY <2>1, <2>2
  <1>9. CASE TidyStep(p) \/ TidyThrows(p)
    <2>1. ~Buying(p) /\ inFlight' = inFlight
      BY <1>b, <1>9 DEF TidyStep, BurstReads, BurstWrites, OpensRead, HoldingsRead, HoldingsReread,
                        CancelGhosts, ScaleDown, CancelScaled, LeaveAlone, TidyThrows
    <2> QED BY <1>0, <2>1, MarkKept
  <1> QED BY <1>1, <1>2, <1>3, <1>4, <1>5, <1>6, <1>7, <1>8, <1>9 DEF StepOf, BookStep

\* So does every other step.
LEMMA MarkInductive == BInv /\ NoStaleMark /\ [Next]_vars => NoStaleMark'
  <1> SUFFICES ASSUME BInv, NoStaleMark, [Next]_vars PROVE NoStaleMark'
    OBVIOUS
  <1>0. /\ Traders \subseteq Procs /\ Tidiers \subseteq Procs
        /\ inFlight \in [Servers -> {"clear", "marked", "expired"}]
        /\ proc \in [Procs -> Calls]
    BY DEF Procs, BInv, TypeOK
  <1>1. CASE Convert \/ RpcCatchesUp \/ (\E r \in RowIds : GraceEnds(r)) \/ UNCHANGED vars
    <2>1. inFlight' = inFlight /\ proc' = proc
      BY <1>1 DEF Convert, RpcCatchesUp, GraceEnds, vars
    <2> QED BY <2>1 DEF NoStaleMark, Buying
  <1>2. ASSUME NEW s \in Servers, MarkExpires(s) PROVE NoStaleMark'
    <2>1. /\ proc' = proc
          /\ \A o \in Servers : inFlight'[o] # "clear" => inFlight[o] # "clear"
      BY <1>0, <1>2 DEF MarkExpires
    <2> QED BY <2>1 DEF NoStaleMark, Buying
  <1>3. ASSUME NEW s \in Servers, Restart(s) PROVE NoStaleMark'
    <2>1. /\ \A p \in Procs : Home[p] # s => proc'[p] = proc[p]
          /\ \A o \in Servers : inFlight'[o] # "clear" => o # s /\ inFlight[o] # "clear"
      BY <1>0, <1>3 DEF Restart
    <2> QED BY <1>0, <2>1 DEF NoStaleMark, Buying
  <1>4. ASSUME NEW p \in Procs, StepOf(p), BookStep(p) => p \in Traders PROVE NoStaleMark'
    BY <1>4, StepMark
  <1>5. ASSUME NEW p \in Procs, MergeStep(p) PROVE NoStaleMark'
    <2>1. ~BookStep(p) \/ p \in Traders
      BY <1>5 DEF MergeStep, MergeReads, MergeWrites, MergeCancels, MergeThrows, BookStep,
                  GuardAdmits, GuardRefuses, BookReads, BookBuy, BookSkim, BookClose,
                  CancelExtras, BookLoneSell, TrimReads, TrimCancels
    <2> QED BY <1>4, <1>5, <2>1 DEF StepOf
  <1>6. ASSUME NEW q \in Tidiers, TidyStep(q) \/ TidyThrows(q) PROVE NoStaleMark'
    <2>1. ~BookStep(q) \/ q \in Traders
      BY <1>6 DEF TidyStep, BurstReads, BurstWrites, OpensRead, HoldingsRead, HoldingsReread,
                  CancelGhosts, ScaleDown, CancelScaled, LeaveAlone, TidyThrows, BookStep,
                  GuardAdmits, GuardRefuses, BookReads, BookBuy, BookSkim, BookClose,
                  CancelExtras, BookLoneSell, TrimReads, TrimCancels
    <2> QED BY <1>0, <1>4, <1>6, <2>1 DEF StepOf
  <1> QED BY <1>0, <1>1, <1>2, <1>3, <1>4, <1>5, <1>6 DEF Next, StepOf

\* On no server does the mark that refuses BUYs outlive the booking that set
\* it: for any number of callers, servers and rows, and whichever way the
\* bookings end.
THEOREM MarkIsNeverStale == Spec => []NoStaleMark
  <1>1. Init => NoStaleMark
    BY DEF Init, NoStaleMark
  <1> QED BY <1>1, InitBInv, BInvInductive, MarkInductive, PTL DEF Spec

-----------------------------------------------------------------------------
(* The grace period *)

\* A reconcile that leaves its decision, or its last write, leaves the young
\* rows as they are.
LEMMA TidySparesTheYoung ==
    ASSUME BInv, NEW q \in Tidiers, TidyStep(q) \/ TidyThrows(q),
           proc[q].pc \in {"decide", "tidyCancel"}, proc'[q].pc # proc[q].pc,
           NEW r \in RowIds, trade[r].fresh
    PROVE  trade'[r] = trade[r]
  <1>p. q \in Procs
    BY DEF Procs
  <1>0. /\ proc[q] \in Calls /\ CallOK(trade, proc[q]) /\ trade \in [RowIds -> Rows]
    BY <1>p, CallFacts DEF TypeOK
  <1>1. proc[q].ids \in SUBSET RowIds /\ proc[q].ids # {} /\ proc[q].amt # 0
    BY <1>0 DEF CallOK, Calls
  <1>2. CASE CancelGhosts(q)
    <2>1. r \notin proc[q].ids
      BY <1>1, <1>2 DEF CancelGhosts, IsUnbacked, PastGrace
    <2> QED BY <1>0, <1>2, <2>1 DEF CancelGhosts, CancelIfOpen
  <1>3. CASE ScaleDown(q)
    <2>1. Min(proc[q].ids) \in proc[q].ids
      BY <1>1, SetsOfRows
    <2>2. r # Min(proc[q].ids)
      BY <1>3, <2>1 DEF ScaleDown, PastGrace
    <2> QED BY <1>0, <1>3, <2>2 DEF ScaleDown
  <1>4. CASE CancelScaled(q)
    <2>1. r \notin proc[q].ids
      BY <1>0, <1>4 DEF CancelScaled, CallOK
    <2> QED BY <1>0, <1>4, <2>1 DEF CancelScaled, CancelIfOpen
  <1>5. CASE LeaveAlone(q) \/ TidyThrows(q) \/ HoldingsReread(q)
    BY <1>5 DEF LeaveAlone, TidyThrows, HoldingsReread
  <1>6. ~(BurstReads(q) \/ BurstWrites(q) \/ OpensRead(q) \/ HoldingsRead(q))
    BY DEF BurstReads, BurstWrites, OpensRead, HoldingsRead
  <1> QED BY <1>2, <1>3, <1>4, <1>5, <1>6 DEF TidyStep

\* And no other step moves a reconcile on from there while it writes.
LEMMA GraceStep ==
    ASSUME BInv, [Next]_vars, NEW q \in Tidiers,
           proc[q].pc \in {"decide", "tidyCancel"}, proc'[q].pc # proc[q].pc,
           NEW r \in RowIds, trade[r].fresh
    PROVE  trade'[r] = trade[r]
  <1>0. /\ Traders \subseteq Procs /\ Tidiers \subseteq Procs /\ q \in Procs
        /\ Traders \cap Tidiers = {}
    BY BookAssumption DEF Procs
  <1>1. ASSUME NEW p \in Procs, StepOf(p) PROVE p = q
    BY <1>0, <1>1, OthersWait
  <1>2. ASSUME NEW p \in Traders,
               \/ BuyFills(p) \/ StartSell(p) \/ StartSkim(p) \/ SizeSkim(p) \/ StartSellOpen(p)
               \/ SellFills(p) \/ SellClearsGhosts(p) \/ BookStep(p) \/ Throws(p)
        PROVE  FALSE
    BY <1>0, <1>1, <1>2 DEF StepOf
  <1>3. ASSUME NEW p \in Procs, MergeStep(p) PROVE FALSE
    <2>1. MergeStep(q)
      BY <1>1, <1>3 DEF StepOf
    <2> QED BY <2>1 DEF MergeStep, MergeReads, MergeWrites, MergeCancels, MergeThrows
  <1>4. ASSUME NEW p \in Tidiers, TidyStep(p) \/ TidyThrows(p) PROVE trade'[r] = trade[r]
    <2>1. p = q
      BY <1>0, <1>1, <1>4 DEF StepOf
    <2> QED BY <1>4, <2>1, TidySparesTheYoung
  <1>5. CASE \/ Convert \/ RpcCatchesUp \/ \E i \in RowIds : GraceEnds(i)
             \/ \E s \in Servers : MarkExpires(s)
             \/ UNCHANGED vars
    BY <1>5 DEF Convert, RpcCatchesUp, GraceEnds, MarkExpires, vars
  <1>6. CASE \E s \in Servers : Restart(s)
    BY <1>6 DEF Restart
  <1> QED BY <1>2, <1>3, <1>4, <1>5, <1>6 DEF Next

\* The reconcile never cancels or scales down a row within its grace period,
\* however many reconciles and bookings overlap, and whatever they wrote
\* between its reads and its writes.
THEOREM YoungRowsAreSpared == Spec => GraceIsKept
  <1>1. BInv /\ [Next]_vars =>
           [\A q \in Tidiers :
               (proc[q].pc \in {"decide", "tidyCancel"} /\ proc'[q].pc # proc[q].pc) =>
               \A r \in RowIds : trade[r].fresh => trade'[r] = trade[r]]_vars
    BY GraceStep
  <1> QED BY <1>1, InitBInv, BInvInductive, PTL DEF Spec, GraceIsKept
=============================================================================
