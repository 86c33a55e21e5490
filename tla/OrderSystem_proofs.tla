------------------------ MODULE OrderSystem_proofs ------------------------
(***************************************************************************)
(* Proofs about orderservice and inventoryservice together, for any        *)
(* number of orders, lines and restarts, any stock and any quantities a    *)
(* client may write.                                                       *)
(***************************************************************************)
EXTENDS OrderSystem, FiniteSetTheorems, TLAPS

Pipeline == INSTANCE OrderProcessing_proofs

(***************************************************************************)
(* Sums.  What the stock has lost is compared with a sum over the calls,   *)
(* so the proof needs that a sum grows by what is added to it.  Induction  *)
(* is by a least counterexample.                                           *)
(***************************************************************************)

\* A set of numbers has a least one.
LEMMA LeastNumber ==
  ASSUME NEW T \in SUBSET Nat, T # {}
  PROVE  \E n \in T : \A m \in T : n <= m
<1>1. PICK n \in T : \A m \in T : ~(<<m, n>> \in OpToRel(<, Nat))
  BY NatLessThanWellFounded, WFMin
<1>2. \A m \in T : ~(m < n)
  BY <1>1 DEF OpToRel
<1> QED
  BY <1>2

\* Of several subsets of a finite set, one contains no other.
LEMMA LeastSet ==
  ASSUME NEW S, IsFiniteSet(S), NEW F \in SUBSET SUBSET S, F # {}
  PROVE  \E s \in F : \A t \in F : t # s => ~(t \subseteq s)
<1>1. \A s \in F : IsFiniteSet(s) /\ Cardinality(s) \in Nat
  BY FS_Subset, FS_CardinalityType
<1> DEFINE N == {n \in Nat : \E s \in F : n = Cardinality(s)}
<1>2. N \in SUBSET Nat /\ N # {}
  BY <1>1
<1>3. PICK n \in N : \A m \in N : n <= m
  <2> HIDE DEF N
  <2> QED
    BY <1>2, LeastNumber
<1>4. PICK s \in F : n = Cardinality(s)
  BY <1>3
<1>5. ASSUME NEW t \in F, t # s, t \subseteq s PROVE FALSE
  <2>1. Cardinality(t) <= Cardinality(s) /\ Cardinality(t) # Cardinality(s)
    BY <1>1, <1>5, FS_Subset
  <2>2. Cardinality(t) \in N
    BY <1>1
  <2> QED
    BY <1>1, <1>3, <1>4, <2>1, <2>2
<1> QED
  BY <1>4, <1>5

(***************************************************************************)
(* The table of all partial sums that the fold behind SumFunctionOnSet     *)
(* reads its result from.                                                  *)
(***************************************************************************)
First(s) == CHOOSE x \in s : TRUE

SumStep(f, g, s) == f[First(s)] + g[s \ {First(s)}]

IsSum(f, S, g) == \A s \in SUBSET S : g[s] = IF s = {} THEN 0 ELSE SumStep(f, g, s)

SumTable(f, S) == CHOOSE g : g = [s \in SUBSET S |-> IF s = {} THEN 0 ELSE SumStep(f, g, s)]

LEMMA SumIsInTable == \A f, S : SumFunctionOnSet(f, S) = SumTable(f, S)[S]
BY DEF SumFunctionOnSet, FoldFunctionOnSet, MapThenFoldSet, SumTable, SumStep, First

LEMMA FirstInSet == \A s : s # {} => First(s) \in s
BY DEF First

\* There is such a table: one that is right for sets of n - 1 elements extends to
\* sets of n.
LEMMA SumExists ==
  ASSUME NEW S, IsFiniteSet(S), NEW f, \A x \in S : f[x] \in Int
  PROVE  \E g \in [SUBSET S -> Int] : IsSum(f, S, g)
<1> DEFINE UpTo(n, g) == \A s \in SUBSET S : Cardinality(s) <= n =>
                            g[s] = IF s = {} THEN 0 ELSE SumStep(f, g, s)
           Bad == {n \in Nat : ~\E g \in [SUBSET S -> Int] : UpTo(n, g)}
<1>1. \A s \in SUBSET S : IsFiniteSet(s) /\ Cardinality(s) \in Nat /\ (Cardinality(s) = 0 <=> s = {})
  BY FS_Subset, FS_CardinalityType, FS_EmptySet
<1>2. \A s \in SUBSET S : s # {} =>
        /\ First(s) \in S /\ s \ {First(s)} \in SUBSET S
        /\ Cardinality(s \ {First(s)}) = Cardinality(s) - 1
  BY <1>1, FirstInSet, FS_RemoveElement
<1>3. Bad = {}
  <2> SUFFICES ASSUME Bad # {} PROVE FALSE
    OBVIOUS
  <2>1. PICK n \in Bad : \A m \in Bad : n <= m
    <3>1. Bad \in SUBSET Nat
      OBVIOUS
    <3> HIDE DEF Bad
    <3> QED
      BY <3>1, LeastNumber
  <2>2. CASE n = 0
    <3>1. UpTo(0, [s \in SUBSET S |-> 0])
      BY <1>1
    <3>2. [s \in SUBSET S |-> 0] \in [SUBSET S -> Int]
      OBVIOUS
    <3> QED
      BY <2>1, <2>2, <3>1, <3>2
  <2>3. CASE n # 0
    <3>1. n - 1 \in Nat /\ n - 1 \notin Bad
      <4>1. n \in Nat
        OBVIOUS
      <4> HIDE DEF Bad
      <4> QED
        BY <2>1, <2>3, <4>1
    <3>2. PICK g \in [SUBSET S -> Int] : UpTo(n - 1, g)
      BY <3>1
    <3> DEFINE h == [s \in SUBSET S |->
                       IF s = {} THEN 0 ELSE IF Cardinality(s) <= n - 1 THEN g[s] ELSE SumStep(f, g, s)]
    <3>3. h \in [SUBSET S -> Int]
      BY <1>2 DEF SumStep
    <3>4. \A s \in SUBSET S : Cardinality(s) <= n - 1 => h[s] = g[s]
      BY <1>1, <3>2
    <3>5. ASSUME NEW s \in SUBSET S, Cardinality(s) <= n, s # {} PROVE h[s] = SumStep(f, h, s)
      <4>1. h[s \ {First(s)}] = g[s \ {First(s)}]
        <5>1. Cardinality(s \ {First(s)}) <= n - 1
          BY <1>1, <1>2, <3>5
        <5> QED
          BY <1>2, <3>4, <3>5, <5>1
      <4>2. CASE Cardinality(s) <= n - 1
        <5>1. g[s] = SumStep(f, g, s)
          BY <3>2, <3>5, <4>2
        <5> QED
          BY <3>4, <4>1, <4>2, <5>1 DEF SumStep
      <4>3. CASE ~(Cardinality(s) <= n - 1)
        <5>1. h[s] = SumStep(f, g, s)
          BY <3>5, <4>3
        <5> QED
          BY <4>1, <5>1 DEF SumStep
      <4> QED
        BY <4>2, <4>3
    <3>6. h[{}] = 0
      OBVIOUS
    <3> HIDE DEF h
    <3>7. UpTo(n, h)
      BY <3>5, <3>6
    <3> QED
      BY <2>1, <3>3, <3>7
  <2> QED
    BY <2>2, <2>3
<1>4. PICK g \in [SUBSET S -> Int] : UpTo(Cardinality(S), g)
  BY <1>1, <1>3
<1>5. \A s \in SUBSET S : Cardinality(s) <= Cardinality(S)
  BY FS_Subset
<1> QED
  BY <1>4, <1>5 DEF IsSum

\* So the one the fold chooses is right.
LEMMA TableIsSum ==
  ASSUME NEW S, IsFiniteSet(S), NEW f, \A x \in S : f[x] \in Int
  PROVE  IsSum(f, S, SumTable(f, S))
<1> DEFINE Rec(g) == [s \in SUBSET S |-> IF s = {} THEN 0 ELSE SumStep(f, g, s)]
<1>1. PICK g \in [SUBSET S -> Int] : IsSum(f, S, g)
  BY SumExists
<1>2. g = Rec(g)
  BY <1>1 DEF IsSum
<1>3. SumTable(f, S) = Rec(SumTable(f, S))
  <2> HIDE DEF Rec
  <2>1. SumTable(f, S) = CHOOSE h : h = Rec(h)
    BY DEF Rec, SumTable
  <2> QED
    BY <1>2, <2>1
<1>4. \A s \in SUBSET S : Rec(SumTable(f, S))[s] = IF s = {} THEN 0 ELSE SumStep(f, SumTable(f, S), s)
  OBVIOUS
<1> HIDE DEF Rec
<1> QED
  BY <1>3, <1>4 DEF IsSum

\* Two tables agree where both are defined, and hold integers.
LEMMA TablesAgree ==
  ASSUME NEW S, IsFiniteSet(S), NEW f, \A x \in S : f[x] \in Int, NEW T \in SUBSET S, NEW h,
         NEW g, IsSum(f, S, g), IsSum(f, T, h)
  PROVE  \A s \in SUBSET T : g[s] = h[s] /\ g[s] \in Int
<1> DEFINE Bad == {s \in SUBSET T : ~(g[s] = h[s] /\ g[s] \in Int)}
<1>1. Bad \in SUBSET SUBSET S
  OBVIOUS
<1>2. ASSUME NEW s \in Bad, \A t \in Bad : t # s => ~(t \subseteq s) PROVE FALSE
  <2>1. CASE s = {}
    BY <2>1 DEF IsSum
  <2>2. CASE s # {}
    <3>1. First(s) \in s
      BY <2>2, FirstInSet
    <3> DEFINE t == s \ {First(s)}
    <3>2. t \in SUBSET T /\ t # s /\ t \subseteq s
      BY <3>1
    <3>3. g[t] = h[t] /\ g[t] \in Int
      BY <1>2, <3>2
    <3>4. f[First(s)] \in Int
      BY <3>1
    <3>5. g[s] = f[First(s)] + g[t] /\ h[s] = f[First(s)] + h[t]
      BY <2>2 DEF IsSum, SumStep
    <3> QED
      BY <3>3, <3>4, <3>5
  <2> QED
    BY <2>1, <2>2
<1>3. Bad = {}
  <2> HIDE DEF Bad
  <2> QED
    BY <1>1, <1>2, LeastSet
<1> QED
  BY <1>3

\* It does not matter which element is taken away first.
LEMMA TableStep ==
  ASSUME NEW S, IsFiniteSet(S), NEW f, \A x \in S : f[x] \in Int, NEW g, IsSum(f, S, g)
  PROVE  \A s \in SUBSET S : \A x \in s : g[s] = f[x] + g[s \ {x}]
<1>1. \A s \in SUBSET S : g[s] \in Int
  BY TablesAgree
<1> DEFINE Bad == {s \in SUBSET S : \E x \in s : g[s] # f[x] + g[s \ {x}]}
<1>2. ASSUME NEW s \in Bad, \A t \in Bad : t # s => ~(t \subseteq s) PROVE FALSE
  <2>1. PICK x \in s : g[s] # f[x] + g[s \ {x}]
    OBVIOUS
  <2>2. First(s) \in s
    BY FirstInSet
  <2> DEFINE y == First(s)
  <2>3. s \in SUBSET S /\ g[s] = f[y] + g[s \ {y}]
    BY <2>2 DEF IsSum, SumStep
  <2>4. x # y
    BY <2>1, <2>3
  <2> HIDE DEF y
  <2>5. s \ {y} \notin Bad /\ s \ {x} \notin Bad
    <3>1. s \ {y} # s /\ s \ {x} # s
      BY <2>2 DEF y
    <3> HIDE DEF Bad
    <3> QED
      BY <1>2, <3>1
  <2>6. g[s \ {y}] = f[x] + g[(s \ {y}) \ {x}]
    BY <2>3, <2>4, <2>5
  <2>7. g[s \ {x}] = f[y] + g[(s \ {x}) \ {y}]
    <3>1. y \in s \ {x}
      BY <2>2, <2>4 DEF y
    <3> QED
      BY <2>3, <2>5, <3>1
  <2>8. (s \ {y}) \ {x} = (s \ {x}) \ {y}
    OBVIOUS
  <2>9. f[x] \in Int /\ f[y] \in Int /\ g[(s \ {x}) \ {y}] \in Int
    BY <1>1, <2>2, <2>3 DEF y
  <2> DEFINE z == g[(s \ {x}) \ {y}]
  <2>10. g[s] = f[y] + (f[x] + z) /\ g[s \ {x}] = f[y] + z
    BY <2>3, <2>6, <2>7, <2>8
  <2> HIDE DEF z
  <2>11. f[x] \in Int /\ f[y] \in Int /\ z \in Int
    BY <2>9 DEF z
  <2> QED
    BY <2>1, <2>10, <2>11
<1>3. Bad = {}
  <2>1. Bad \in SUBSET SUBSET S
    OBVIOUS
  <2> HIDE DEF Bad
  <2> QED
    BY <1>2, <2>1, LeastSet
<1> QED
  BY <1>3

\* The sum over no element is 0, and an element adds its value.
LEMMA SumAdds ==
  ASSUME NEW S, IsFiniteSet(S), NEW f, \A x \in S : f[x] \in Int
  PROVE  /\ SumFunctionOnSet(f, {}) = 0
         /\ \A T \in SUBSET S :
              /\ SumFunctionOnSet(f, T) \in Int
              /\ \A x \in S \ T : SumFunctionOnSet(f, T \cup {x}) = f[x] + SumFunctionOnSet(f, T)
<1>1. ASSUME NEW T \in SUBSET S PROVE IsFiniteSet(T) /\ IsSum(f, T, SumTable(f, T))
  <2>1. IsFiniteSet(T) /\ \A x \in T : f[x] \in Int
    BY FS_Subset
  <2> QED
    BY <2>1, TableIsSum
<1>2. SumFunctionOnSet(f, {}) = 0
  BY <1>1, SumIsInTable DEF IsSum
<1>3. ASSUME NEW T \in SUBSET S PROVE SumFunctionOnSet(f, T) \in Int
  <2>1. \A x \in T : f[x] \in Int
    OBVIOUS
  <2> QED
    BY <1>1, <2>1, TablesAgree, SumIsInTable
<1>4. ASSUME NEW T \in SUBSET S, NEW x \in S \ T
      PROVE  SumFunctionOnSet(f, T \cup {x}) = f[x] + SumFunctionOnSet(f, T)
  <2> DEFINE U == T \cup {x}
  <2>1. U \in SUBSET S /\ U \ {x} = T /\ T \in SUBSET U
    OBVIOUS
  <2>2. IsFiniteSet(U) /\ IsSum(f, U, SumTable(f, U)) /\ IsSum(f, T, SumTable(f, T))
    BY <1>1, <2>1
  <2>3. \A y \in U : f[y] \in Int
    BY <2>1
  <2>4. x \in U
    OBVIOUS
  <2> HIDE DEF U
  <2>5. SumTable(f, U)[U] = f[x] + SumTable(f, U)[U \ {x}]
    BY <2>2, <2>3, <2>4, TableStep
  <2>6. SumTable(f, U)[T] = SumTable(f, T)[T]
    BY <2>1, <2>2, <2>3, TablesAgree
  <2> QED
    BY <2>1, <2>5, <2>6, SumIsInTable DEF U
<1> QED
  BY <1>2, <1>3, <1>4

\* The sum depends on the values of the elements only.
LEMMA SumSame ==
  ASSUME NEW S, IsFiniteSet(S), NEW f, NEW g, \A x \in S : f[x] \in Int /\ f[x] = g[x]
  PROVE  SumFunctionOnSet(f, S) = SumFunctionOnSet(g, S)
<1> DEFINE Bad == {T \in SUBSET S : SumFunctionOnSet(f, T) # SumFunctionOnSet(g, T)}
<1>1. \A x \in S : g[x] \in Int
  OBVIOUS
<1>2. ASSUME NEW T \in Bad PROVE \E U \in Bad : U \subseteq T /\ U # T
  <2>1. T # {}
    BY <1>1, SumAdds
  <2>2. PICK x : x \in T
    BY <2>1
  <2> DEFINE U == T \ {x}
  <2>3. U \in SUBSET S /\ x \in S \ U /\ T = U \cup {x} /\ U # T
    BY <2>2
  <2> HIDE DEF U
  <2>4. /\ SumFunctionOnSet(f, T) = f[x] + SumFunctionOnSet(f, U)
        /\ SumFunctionOnSet(g, T) = g[x] + SumFunctionOnSet(g, U)
    BY <1>1, <2>3, SumAdds
  <2> QED
    BY <2>3, <2>4
<1>3. Bad = {}
  <2>1. Bad \in SUBSET SUBSET S
    OBVIOUS
  <2> HIDE DEF Bad
  <2> QED
    BY <1>2, <2>1, LeastSet
<1> QED
  BY <1>3

-----------------------------------------------------------------------------
(***************************************************************************)
(* Types.  A reply is one of a reservation or of a refusal.                *)
(***************************************************************************)
C == Orders \X Items

Replies == [status : {"CONFIRMED", "OUT_OF_STOCK"}, reserved : BOOLEAN, available_qty : Int]

SystemTypeOK ==
  /\ quantity  \in [Orders -> [Items -> Int]]
  /\ stock     \in [{OneSku} -> Int]
  /\ past      \in [{OneSku} -> SUBSET Int]
  /\ pc        \in [C -> {"idle", "load", "loop", "replied"}]
  /\ item      \in [C -> [sku : {OneSku, << >>}, quantity : Int]]
  /\ available \in [C -> Int]
  /\ reply     \in [C -> Replies \cup {Inventory!NoReply}]
  /\ restarts  \in Nat

\* Only lines of the table are looked up.
RunningIsKnown == \A c \in C : pc[c] \in {"load", "loop"} => item[c].sku = OneSku

TInv == SystemTypeOK /\ RunningIsKnown

LEMMA InitTInv == Init => TInv
BY SystemAssumption DEF Init, Inventory!Init, Inventory!NoReply, Inventory!NoItem, TInv, SystemTypeOK,
   RunningIsKnown, C

LEMMA ReceiveCallTInv ==
  ASSUME TInv, NEW o \in Orders, NEW i \in Items, ReceiveCall(o, i)
  PROVE  TInv'
<1> DEFINE c == <<o, i>>
<1>1. c \in C /\ quantity[o][i] \in Int
  BY DEF C, TInv, SystemTypeOK
<1>2. /\ item' = [item EXCEPT ![c] = [sku |-> OneSku, quantity |-> quantity[o][i]]]
      /\ pc' = [pc EXCEPT ![c] = "load"]
      /\ UNCHANGED <<quantity, stock, past, available, reply, restarts>>
  BY DEF ReceiveCall, Inventory!ConsumeMessage
<1> HIDE DEF c
<1> QED
  BY <1>1, <1>2 DEF TInv, SystemTypeOK, RunningIsKnown

LEMMA InventoryStepTInv ==
  ASSUME TInv, NEW c \in C, InventoryStep(c)
  PROVE  TInv'
<1>0. UNCHANGED <<quantity, restarts>>
  BY DEF InventoryStep
<1>1. CASE Inventory!Load(c)
  <2>1. PICK v \in past[OneSku] : available' = [available EXCEPT ![c] = v]
    BY <1>1 DEF Inventory!Load, Inventory!Sku, TInv, RunningIsKnown
  <2>2. v \in Int
    BY <2>1 DEF TInv, SystemTypeOK
  <2> QED
    BY <1>0, <1>1, <2>1, <2>2 DEF Inventory!Load, TInv, SystemTypeOK, RunningIsKnown
<1>2. CASE Inventory!Reserve(c)
  <2>1. item[c].sku = OneSku /\ stock[OneSku] - item[c].quantity \in Int
    BY <1>2 DEF Inventory!Reserve, Inventory!Covered, TInv, SystemTypeOK, RunningIsKnown
  <2>2. stock' \in [{OneSku} -> Int] /\ past' \in [{OneSku} -> SUBSET Int]
    BY <1>2, <2>1 DEF Inventory!Reserve, Inventory!Sku, Inventory!Quantity, TInv, SystemTypeOK
  <2>3. reply' \in [C -> Replies \cup {Inventory!NoReply}]
    BY <1>2 DEF Inventory!Reserve, Inventory!Reply, Inventory!Quantity, Replies, TInv, SystemTypeOK
  <2>4. pc' = [pc EXCEPT ![c] = "replied"] /\ UNCHANGED <<item, available>>
    BY <1>2 DEF Inventory!Reserve, Inventory!Reply
  <2> QED
    BY <1>0, <2>2, <2>3, <2>4 DEF TInv, SystemTypeOK, RunningIsKnown
<1>3. CASE Inventory!Retry(c)
  <2>1. PICK v \in past[OneSku] : available' = [available EXCEPT ![c] = v]
    BY <1>3 DEF Inventory!Retry, Inventory!Covered, Inventory!Sku, TInv, RunningIsKnown
  <2>2. v \in Int
    BY <2>1 DEF TInv, SystemTypeOK
  <2> QED
    BY <1>0, <1>3, <2>1, <2>2 DEF Inventory!Retry, TInv, SystemTypeOK, RunningIsKnown
<1>4. CASE Inventory!Refuse(c)
  BY <1>0, <1>4 DEF Inventory!Refuse, Inventory!Reply, Replies, TInv, SystemTypeOK, RunningIsKnown
<1> QED
  BY <1>1, <1>2, <1>3, <1>4 DEF InventoryStep

LEMMA RestartTInv == TInv /\ RestartInventory => TInv'
BY SystemAssumption DEF RestartInventory, TInv, SystemTypeOK, RunningIsKnown, C

LEMMA StepTInv == TInv /\ [Next]_vars => TInv'
<1> SUFFICES ASSUME TInv, [Next]_vars PROVE TInv'
  OBVIOUS
<1>1. ASSUME NEW o \in Orders, NEW lines \in SUBSET Items, NEW q \in [Items -> Quantities],
             AcceptOrder(o, lines, q)
      PROVE  TInv'
  <2>1. quantity' = [quantity EXCEPT ![o] = q] /\ UNCHANGED inventoryVars
    BY <1>1 DEF AcceptOrder
  <2>2. q \in [Items -> Int]
    BY SystemAssumption
  <2> QED
    BY <2>1, <2>2 DEF inventoryVars, TInv, SystemTypeOK, RunningIsKnown
<1>2. CASE UNCHANGED requestVars
  BY <1>2 DEF requestVars, inventoryVars, TInv, SystemTypeOK, RunningIsKnown
<1>3. ASSUME NEW o \in Orders, NEW i \in Items, HandleResponse(o, i) \/ HandleError(o, i)
      PROVE  TInv'
  BY <1>2, <1>3 DEF HandleResponse, HandleError, CompleteCall
<1>4. CASE UNCHANGED vars \/ Finished \/ \E o \in Orders : RejectOrder(o) \/ OrderStep(o)
  BY <1>2, <1>4 DEF vars, Finished, RejectOrder, OrderStep
<1> QED
  BY <1>1, <1>3, <1>4, ReceiveCallTInv, InventoryStepTInv, RestartTInv DEF Next, C

LEMMA TInvHolds == Spec => []TInv
BY InitTInv, StepTInv, PTL DEF Spec

-----------------------------------------------------------------------------
(***************************************************************************)
(* What orderservice does in the system it does in OrderProcessing, so the *)
(* pipeline's invariants hold of it.                                       *)
(***************************************************************************)

\* A reply ends a call with one of the outcomes the pipeline knows.
LEMMA CallIsCompleted ==
  ASSUME TInv, NEW o \in Orders, NEW i \in Items, HandleResponse(o, i) \/ HandleError(o, i)
  PROVE  \E outcome \in Order!Outcomes :
           /\ Order!CompleteCall(o, i, outcome)
           /\ UNCHANGED requestVars
           /\ outcome \in {reply[<<o, i>>].status, "PROCESSING_ERROR"}
<1>1. CASE HandleResponse(o, i)
  <2>1. reply[<<o, i>>].status \in {"CONFIRMED", "OUT_OF_STOCK"}
    BY <1>1 DEF HandleResponse, TInv, SystemTypeOK, Replies, C
  <2> QED
    BY <1>1, <2>1 DEF HandleResponse, CompleteCall, Order!Outcomes
<1>2. CASE HandleError(o, i)
  BY <1>2 DEF HandleError, CompleteCall, Order!Outcomes
<1> QED
  BY <1>1, <1>2

LEMMA StepIsOrderStep == TInv /\ [Next]_vars => [Order!Next]_(Order!vars)
<1> SUFFICES ASSUME TInv, [Next]_vars PROVE [Order!Next]_(Order!vars)
  OBVIOUS
<1>1. ASSUME NEW o \in Orders, NEW lines \in SUBSET Items, NEW q \in [Items -> Quantities],
             AcceptOrder(o, lines, q)
      PROVE  Order!Next
  BY <1>1 DEF AcceptOrder, Order!Next, Order!RequestStep
<1>2. ASSUME NEW o \in Orders, RejectOrder(o)
      PROVE  Order!Next
  BY <1>2 DEF RejectOrder, Order!Next, Order!RequestStep
<1>3. ASSUME NEW o \in Orders, OrderStep(o)
      PROVE  Order!Next
  BY <1>3 DEF OrderStep, Order!Next, Order!RequestStep, Order!ResultStep
<1>4. ASSUME NEW o \in Orders, NEW i \in Items, HandleResponse(o, i) \/ HandleError(o, i)
      PROVE  Order!Next
  BY <1>4, CallIsCompleted DEF Order!Next, Order!ResultStep
<1>5. CASE UNCHANGED orderVars
  BY <1>5 DEF orderVars, Order!vars
<1>6. CASE UNCHANGED vars \/ Finished
  BY <1>5, <1>6 DEF vars, Finished
<1>7. CASE \/ \E o \in Orders, i \in Items : ReceiveCall(o, i)
           \/ \E c \in Orders \X Items : InventoryStep(c)
           \/ RestartInventory
  BY <1>5, <1>7 DEF ReceiveCall, InventoryStep, RestartInventory
<1> QED
  BY <1>1, <1>2, <1>3, <1>4, <1>6, <1>7 DEF Next

\* With a real inventoryservice behind its calls, whose replies may be late or
\* lost and which may restart, orderservice behaves as OrderProcessing says.
THEOREM SystemImplementsPipeline == Spec => Order!Spec
<1>1. Init => Order!Init
  BY DEF Init
<1> QED
  BY <1>1, StepIsOrderStep, TInvHolds, PTL DEF Spec, Order!Spec

\* The module of the proofs has the same steps.
LEMMA SameSteps == [Order!Next]_(Order!vars) <=> [Pipeline!Next]_(Pipeline!vars)
<1>1. \A o : Order!RequestStep(o) <=> Pipeline!RequestStep(o)
  BY DEF Order!RequestStep, Order!BeginRequest, Order!RejectRequest, Order!ConsumeMessage,
     Order!SendItem, Order!ArmSoftDeadline, Order!FailSoftDeadline, Order!AllSent, Order!EndRequest,
     Order!Finish, Order!RequestStop, Order!Fail, Order!Answered, Order!NoResponse,
     Order!ErrorResponse, Order!pipeline, Order!shared,
     Pipeline!RequestStep, Pipeline!BeginRequest, Pipeline!RejectRequest, Pipeline!ConsumeMessage,
     Pipeline!SendItem, Pipeline!ArmSoftDeadline, Pipeline!FailSoftDeadline, Pipeline!AllSent,
     Pipeline!EndRequest, Pipeline!Finish, Pipeline!RequestStop, Pipeline!Fail, Pipeline!Answered,
     Pipeline!NoResponse, Pipeline!ErrorResponse, Pipeline!pipeline, Pipeline!shared
<1>2. \A o : Order!ResultStep(o) <=> Pipeline!ResultStep(o)
  <2> SUFFICES ASSUME NEW o
               PROVE  Order!ResultStep(o) <=> Pipeline!ResultStep(o)
    OBVIOUS
  <2> USE DEF Order!pipeline, Order!shared, Pipeline!pipeline, Pipeline!shared
  <2>1. /\ Order!Outcomes = Pipeline!Outcomes
        /\ Order!MapToOrderState = Pipeline!MapToOrderState
        /\ \A s : Order!PublishOrderProcessed(o, s) <=> Pipeline!PublishOrderProcessed(o, s)
    BY DEF Order!Outcomes, Pipeline!Outcomes, Order!MapToOrderState, Pipeline!MapToOrderState,
       Order!PublishOrderProcessed, Pipeline!PublishOrderProcessed
  <2>2. \A i, outcome : Order!MapOrderItemResultToOrderState(Order!OrderItemResult(i, outcome))
                       = Pipeline!MapOrderItemResultToOrderState(Pipeline!OrderItemResult(i, outcome))
    BY DEF Order!MapOrderItemResultToOrderState, Pipeline!MapOrderItemResultToOrderState,
       Order!OrderItemResult, Pipeline!OrderItemResult
  <2>3. \A i, outcome : Order!CompleteCall(o, i, outcome) <=> Pipeline!CompleteCall(o, i, outcome)
    BY <2>1, <2>2 DEF Order!CompleteCall, Pipeline!CompleteCall
  <2>4. /\ Order!FireSoftDeadline(o) <=> Pipeline!FireSoftDeadline(o)
        /\ Order!DropSoftDeadline(o) <=> Pipeline!DropSoftDeadline(o)
        /\ \A s : Order!RouteResult(o, s) <=> Pipeline!RouteResult(o, s)
    BY <2>1 DEF Order!FireSoftDeadline, Pipeline!FireSoftDeadline, Order!DropSoftDeadline,
       Pipeline!DropSoftDeadline, Order!RouteResult, Pipeline!RouteResult
  <2>5. \A s : Order!Collected(o, s) = Pipeline!Collected(o, s)
    BY DEF Order!Collected, Pipeline!Collected
  <2>6. \A rs : Order!CompleteStatus(rs) = Pipeline!CompleteStatus(rs)
    BY DEF Order!CompleteStatus, Pipeline!CompleteStatus, Order!AllReserved, Pipeline!AllReserved
  <2>7. \A status, rs : Order!OrderResponse(o, status, rs) = Pipeline!OrderResponse(o, status, rs)
    BY DEF Order!OrderResponse, Pipeline!OrderResponse, Order!TotalAmount, Pipeline!TotalAmount,
       Order!ItemsOf, Pipeline!ItemsOf
  <2>8. /\ \A s : Order!LeaveCallback(o, s) <=> Pipeline!LeaveCallback(o, s)
        /\ \A rs : Order!Insert(o, rs) <=> Pipeline!Insert(o, rs)
        /\ \A status, rs : Order!SendResponse(o, status, rs) <=> Pipeline!SendResponse(o, status, rs)
    BY <2>7 DEF Order!LeaveCallback, Pipeline!LeaveCallback, Order!Insert, Pipeline!Insert,
       Order!SendResponse, Pipeline!SendResponse
  <2>0. \A S : Order!Cardinality(S) = Pipeline!Cardinality(S)
    BY DEF Order!Cardinality, Pipeline!Cardinality, Order!IsFiniteSet, Pipeline!IsFiniteSet
  <2>9. \A s : /\ Order!IgnoreLateResult(o, s) <=> Pipeline!IgnoreLateResult(o, s)
               /\ Order!CollectResult(o, s) <=> Pipeline!CollectResult(o, s)
    BY <2>0, <2>5, <2>8 DEF Order!IgnoreLateResult, Pipeline!IgnoreLateResult, Order!CollectResult,
       Pipeline!CollectResult
  <2>10. \A s : /\ Order!AnswerComplete(o, s) <=> Pipeline!AnswerComplete(o, s)
                /\ Order!AnswerTimedOut(o, s) <=> Pipeline!AnswerTimedOut(o, s)
    BY <2>0, <2>5, <2>6, <2>8 DEF Order!AnswerComplete, Pipeline!AnswerComplete, Order!AnswerTimedOut,
       Pipeline!AnswerTimedOut
  <2> QED
    BY <2>1, <2>3, <2>4, <2>9, <2>10 DEF Order!ResultStep, Pipeline!ResultStep
<1>3. Order!vars = Pipeline!vars /\ (Order!vars)' = (Pipeline!vars)'
  BY DEF Order!vars, Pipeline!vars
<1>4. Order!AllDrained <=> Pipeline!AllDrained
  BY <1>3 DEF Order!AllDrained, Pipeline!AllDrained, Order!Drained, Pipeline!Drained
<1> QED
  BY <1>1, <1>2, <1>3, <1>4 DEF Order!Next, Pipeline!Next

LEMMA SpecIsPipelineSpec == Spec => Pipeline!Spec
<1>1. Order!Init => Pipeline!Init
  BY DEF Order!Init, Pipeline!Init, Order!NoResponse, Pipeline!NoResponse
<1> QED
  BY <1>1, SameSteps, SystemImplementsPipeline, PTL DEF Order!Spec, Pipeline!Spec

LEMMA PipelineItemsFinite == Pipeline!ItemsFinite
BY SystemAssumption DEF Pipeline!ItemsFinite, Pipeline!IsFiniteSet, IsFiniteSet

LEMMA PipelineInvHolds == Spec => []Pipeline!IInv
<1>1. Pipeline!Spec => []Pipeline!IInv
  BY PipelineItemsFinite, Pipeline!IInvHolds
<1> QED
  BY <1>1, SpecIsPipelineSpec, PTL

\* What the pipeline promises its clients holds with the real inventoryservice,
\* too: every behaviour of the two services is one of OrderAnswer.
THEOREM SystemImplementsPromise == Spec => Pipeline!Promise!Spec
<1>1. Pipeline!Spec => Pipeline!Promise!Spec
  BY PipelineItemsFinite, Pipeline!PipelineImplementsPromise
<1> QED
  BY <1>1, SpecIsPipelineSpec, PTL

-----------------------------------------------------------------------------
(***************************************************************************)
(* The inductive invariant, beside that of the pipeline.  A line is worth  *)
(* a positive quantity; its call is answered once, by a thread that then   *)
(* ends, so a published outcome other than PROCESSING_ERROR stays that of  *)
(* the reply; and what one incarnation has left of the stock is not sold.  *)
(***************************************************************************)
QuantityInv ==
  \A o \in Orders : \A i \in order[o] : quantity[o][i] \in Quantities /\ quantity[o][i] > 0

ThreadInv(c) ==
  /\ pc[c] # "idle" => item[c].quantity > 0
  /\ pc[c] # "replied" => reply[c] = Inventory!NoReply

\* An outcome of the line i that was published in a state of the order o.
Published(o, i, outcome) ==
  Order!MapOrderItemResultToOrderState(Order!OrderItemResult(i, outcome)) \in published[o]

IsOrderState(s) ==
  \/ s = Order!MapToOrderState
  \/ \E i \in Items, outcome \in Order!Outcomes :
       s = Order!MapOrderItemResultToOrderState(Order!OrderItemResult(i, outcome))

PublishedInv(o) ==
  /\ \A s \in published[o] : IsOrderState(s)
  /\ \A i \in Items, outcome \in Order!Outcomes \ {"PROCESSING_ERROR"} :
       Published(o, i, outcome) => reply[<<o, i>>].status = outcome
  /\ \A i \in Items : call[o][i] = "done" =>
       \E outcome \in Order!Outcomes : Published(o, i, outcome)

Demand == [c \in C |-> item[c].quantity]

Reserved == { c \in C : reply[c].status = "CONFIRMED" }

Sold == SumFunctionOnSet(Demand, Reserved)

SoldInv ==
  /\ stock[OneSku] \in 0 .. InitialStock
  /\ Sold + stock[OneSku] <= (restarts + 1) * InitialStock
  /\ InitialStock - stock[OneSku] <= Sold

SInv ==
  /\ QuantityInv
  /\ \A c \in C : ThreadInv(c)
  /\ \A o \in Orders : PublishedInv(o)
  /\ SoldInv

LEMMA CallsFinite == IsFiniteSet(C)
BY SystemAssumption, FS_Product DEF C

\* What the steps below need of the pipeline's invariant.
LEMMA PipelineFacts ==
  ASSUME Pipeline!IInv
  PROVE  /\ order \in [Orders -> SUBSET Items]
         /\ call \in [Orders -> [Items -> {"unsent", "pending", "done"}]]
         /\ published \in [Orders -> SUBSET Pipeline!OrderStates]
         /\ \A o \in Orders, i \in Items : call[o][i] # "unsent" => i \in order[o]
BY DEF Pipeline!IInv, Pipeline!TypeOK, Pipeline!OrderInv, Pipeline!FreshIsUntouched

\* An order state says which line it is of and how it ended.
LEMMA StatesDiffer ==
  ASSUME NEW i, NEW j, NEW outcome, NEW other
  PROVE  /\ Order!MapOrderItemResultToOrderState(Order!OrderItemResult(i, outcome)) # Order!MapToOrderState
         /\ Order!MapOrderItemResultToOrderState(Order!OrderItemResult(i, outcome))
              = Order!MapOrderItemResultToOrderState(Order!OrderItemResult(j, other))
            => i = j /\ outcome = other
<1> DEFINE r == Order!OrderItemResult(i, outcome)
           q == Order!OrderItemResult(j, other)
<1>1. Order!MapOrderItemResultToOrderState(r).status # "TIMED_OUT"
  BY DEF Order!MapOrderItemResultToOrderState
<1>2. /\ Order!MapOrderItemResultToOrderState(r).confirmed_items = <<r>>
      /\ Order!MapOrderItemResultToOrderState(q).confirmed_items = <<q>>
  BY DEF Order!MapOrderItemResultToOrderState
<1>3. r.item = i /\ r.status = outcome /\ q.item = j /\ q.status = other
  BY DEF Order!OrderItemResult
<1> HIDE DEF r, q
<1>4. <<r>> = <<q>> => r = q
  OBVIOUS
<1> QED
  BY <1>1, <1>2, <1>3, <1>4 DEF Order!MapToOrderState, r, q

LEMMA InitSInv == Init => SInv
<1> SUFFICES ASSUME Init PROVE SInv
  OBVIOUS
<1>1. QuantityInv /\ (\A o \in Orders : PublishedInv(o)) /\ \A c \in C : ThreadInv(c)
  BY DEF Init, Order!Init, Inventory!Init, QuantityInv, PublishedInv, Published, ThreadInv, C
<1>2. Reserved = {}
  BY DEF Init, Inventory!Init, Inventory!NoReply, Reserved, C
<1>3. \A c \in C : Demand[c] \in Int
  BY InitTInv DEF TInv, SystemTypeOK, Demand
<1>4. Sold = 0
  BY <1>2, <1>3, CallsFinite, SumAdds DEF Sold
<1>5. SoldInv
  BY <1>4, SystemAssumption DEF Init, Inventory!Init, SoldInv
<1> QED
  BY <1>1, <1>5 DEF SInv

\* inventoryservice sees nothing of a step of orderservice.
LEMMA OrderStepKeepsStock ==
  ASSUME SInv, UNCHANGED inventoryVars
  PROVE  SoldInv' /\ \A c \in C : ThreadInv(c)'
BY DEF SInv, inventoryVars, SoldInv, Sold, Demand, Reserved, ThreadInv

LEMMA AcceptOrderSInv ==
  ASSUME Pipeline!IInv, TInv, SInv, NEW o \in Orders, NEW lines \in SUBSET Items,
         NEW q \in [Items -> Quantities], AcceptOrder(o, lines, q)
  PROVE  SInv'
<1>1. /\ order' = [order EXCEPT ![o] = lines]
      /\ quantity' = [quantity EXCEPT ![o] = q]
      /\ \A i \in lines : q[i] > 0
      /\ UNCHANGED <<call, published, inventoryVars>>
  BY DEF AcceptOrder, Order!BeginRequest, Order!pipeline
<1>2. QuantityInv'
  BY <1>1, PipelineFacts DEF SInv, QuantityInv, TInv, SystemTypeOK
<1>3. \A p \in Orders : PublishedInv(p)'
  BY <1>1 DEF SInv, PublishedInv, Published, inventoryVars
<1> QED
  BY <1>1, <1>2, <1>3, OrderStepKeepsStock DEF SInv

\* A step of orderservice that completes no call publishes at most the timeout.
LEMMA OrderStepEffect ==
  ASSUME Pipeline!IInv, NEW o \in Orders, RejectOrder(o) \/ OrderStep(o)
  PROVE  /\ order' = order
         /\ UNCHANGED requestVars
         /\ \A p \in Orders, i \in Items : call'[p][i] = "done" => call[p][i] = "done"
         /\ \A p \in Orders : published'[p] \in {published[p], published[p] \cup {Order!MapToOrderState}}
<1> USE PipelineFacts DEF Order!pipeline, Order!shared
<1>0. CASE RejectOrder(o)
  BY <1>0 DEF RejectOrder, Order!RejectRequest
<1>1. CASE OrderStep(o)
  <2>1. UNCHANGED requestVars
    BY <1>1 DEF OrderStep
  <2>2. CASE Order!ConsumeMessage(o) \/ Order!ArmSoftDeadline(o) \/ Order!FailSoftDeadline(o)
    BY <2>1, <2>2 DEF Order!ConsumeMessage, Order!ArmSoftDeadline, Order!FailSoftDeadline
  <2>3. CASE \E i \in Items : Order!SendItem(o, i)
    BY <2>1, <2>3 DEF Order!SendItem
  <2>4. CASE Order!FireSoftDeadline(o)
    BY <2>1, <2>4 DEF Order!FireSoftDeadline, Order!PublishOrderProcessed
  <2>5. CASE Order!DropSoftDeadline(o) \/ \E s \in merged[o] : Order!RouteResult(o, s)
    BY <2>1, <2>5 DEF Order!DropSoftDeadline, Order!RouteResult
  <2>6. CASE \E s \in entered[o] :
               \/ Order!IgnoreLateResult(o, s)
               \/ Order!CollectResult(o, s)
               \/ Order!AnswerComplete(o, s)
               \/ Order!AnswerTimedOut(o, s)
    BY <2>1, <2>6 DEF Order!IgnoreLateResult, Order!CollectResult, Order!AnswerComplete,
       Order!AnswerTimedOut, Order!LeaveCallback
  <2>7. CASE \E error \in BOOLEAN : Order!EndRequest(o, error)
    BY <2>1, <2>7 DEF Order!EndRequest, Order!Finish
  <2> QED
    BY <1>1, <2>2, <2>3, <2>4, <2>5, <2>6, <2>7 DEF OrderStep
<1> QED
  BY <1>0, <1>1

LEMMA OrderStepSInv ==
  ASSUME Pipeline!IInv, SInv, NEW o \in Orders, RejectOrder(o) \/ OrderStep(o)
  PROVE  SInv'
<1>1. /\ order' = order
      /\ UNCHANGED <<quantity, inventoryVars>>
      /\ \A p \in Orders, i \in Items : call'[p][i] = "done" => call[p][i] = "done"
      /\ \A p \in Orders : published'[p] \in {published[p], published[p] \cup {Order!MapToOrderState}}
  BY OrderStepEffect DEF requestVars
<1>2. QuantityInv'
  BY <1>1 DEF SInv, QuantityInv
<1>3. ASSUME NEW p \in Orders PROVE PublishedInv(p)'
  <2>1. PublishedInv(p) /\ reply' = reply
    BY <1>1 DEF SInv, inventoryVars
  <2>2. \A i, outcome : Published(p, i, outcome)' <=> Published(p, i, outcome)
    BY <1>1, StatesDiffer DEF Published
  <2>3. \A s \in published'[p] : IsOrderState(s)
    BY <1>1, <2>1 DEF PublishedInv, IsOrderState
  <2> QED
    BY <1>1, <2>1, <2>2, <2>3 DEF PublishedInv, IsOrderState
<1> QED
  BY <1>1, <1>2, <1>3, OrderStepKeepsStock DEF SInv

LEMMA CompleteCallSInv ==
  ASSUME Pipeline!IInv, TInv, SInv, NEW o \in Orders, NEW i \in Items,
         HandleResponse(o, i) \/ HandleError(o, i)
  PROVE  SInv'
<1>1. PICK outcome \in Order!Outcomes :
        /\ Order!CompleteCall(o, i, outcome)
        /\ UNCHANGED requestVars
        /\ outcome \in {reply[<<o, i>>].status, "PROCESSING_ERROR"}
  BY CallIsCompleted
<1> DEFINE s == Order!MapOrderItemResultToOrderState(Order!OrderItemResult(i, outcome))
<1>2. /\ published' = [published EXCEPT ![o] = @ \cup {s}]
      /\ call' = [call EXCEPT ![o][i] = "done"]
      /\ UNCHANGED <<order, quantity, inventoryVars>>
  BY <1>1 DEF Order!CompleteCall, Order!PublishOrderProcessed, Order!shared, requestVars
<1>3. QuantityInv'
  BY <1>2 DEF SInv, QuantityInv
<1>4. ASSUME NEW p \in Orders PROVE PublishedInv(p)'
  <2>1. PublishedInv(p) /\ reply' = reply
    BY <1>2 DEF SInv, inventoryVars
  <2>2. published'[p] = IF p = o THEN published[p] \cup {s} ELSE published[p]
    BY <1>2, PipelineFacts
  <2>3. \A j, other : Published(p, j, other)' <=>
          Published(p, j, other) \/ (p = o /\ j = i /\ other = outcome)
    BY <2>2, StatesDiffer DEF Published
  <2>4. \A t \in published'[p] : IsOrderState(t)
    BY <2>1, <2>2 DEF PublishedInv, IsOrderState
  <2>5. \A j \in Items : call'[p][j] = "done" => call[p][j] = "done" \/ (p = o /\ j = i)
    BY <1>2, PipelineFacts
  <2> HIDE DEF s
  <2> QED
    BY <1>1, <2>1, <2>3, <2>4, <2>5 DEF PublishedInv, IsOrderState
<1> QED
  BY <1>2, <1>3, <1>4, OrderStepKeepsStock DEF SInv

\* What inventoryservice does disturbs no published state, because a call that
\* has its reply keeps it.
LEMMA InventoryKeepsPublished ==
  ASSUME SInv, UNCHANGED <<orderVars, quantity>>,
         \A c \in C : reply[c] # Inventory!NoReply => reply'[c] = reply[c]
  PROVE  QuantityInv' /\ \A o \in Orders : PublishedInv(o)'
<1>1. UNCHANGED <<order, call, published>>
  BY DEF orderVars
<1>2. QuantityInv'
  BY <1>1 DEF SInv, QuantityInv
<1>3. ASSUME NEW o \in Orders, NEW i \in Items, reply[<<o, i>>].status \in {"CONFIRMED", "OUT_OF_STOCK"}
      PROVE  reply'[<<o, i>>] = reply[<<o, i>>]
  BY <1>3 DEF C, Inventory!NoReply
<1>4. ASSUME NEW o \in Orders PROVE PublishedInv(o)'
  <2>1. PublishedInv(o)
    BY DEF SInv
  <2>2. \A i, outcome : Published(o, i, outcome)' <=> Published(o, i, outcome)
    BY <1>1 DEF Published
  <2>3. ASSUME NEW i \in Items, NEW outcome \in Order!Outcomes \ {"PROCESSING_ERROR"},
               Published(o, i, outcome)
        PROVE  reply'[<<o, i>>].status = outcome
    <3>1. reply[<<o, i>>].status = outcome /\ outcome \in {"CONFIRMED", "OUT_OF_STOCK"}
      BY <2>1, <2>3 DEF PublishedInv, Order!Outcomes
    <3> QED
      BY <1>3, <3>1
  <2> QED
    BY <1>1, <2>1, <2>2, <2>3 DEF PublishedInv, IsOrderState
<1> QED
  BY <1>2, <1>4

LEMMA SoldIsInt == TInv => Sold \in Int
<1>1. TInv => \A c \in C : Demand[c] \in Int
  BY DEF Demand, TInv, SystemTypeOK
<1>2. Reserved \in SUBSET C
  BY DEF Reserved
<1> QED
  BY <1>1, <1>2, CallsFinite, SumAdds DEF Sold

\* The sum changes only with the reservations.
LEMMA SoldSame ==
  ASSUME TInv, Reserved' = Reserved, \A c \in Reserved : item'[c] = item[c]
  PROVE  Sold' = Sold
<1>1. IsFiniteSet(Reserved)
  BY CallsFinite, FS_Subset DEF Reserved
<1>2. \A c \in Reserved : Demand[c] \in Int /\ Demand[c] = Demand'[c]
  BY DEF Demand, Reserved, TInv, SystemTypeOK
<1> QED
  BY <1>1, <1>2, SumSame DEF Sold

LEMMA ReceiveCallSInv ==
  ASSUME Pipeline!IInv, TInv, SInv, NEW o \in Orders, NEW i \in Items, ReceiveCall(o, i)
  PROVE  SInv'
<1> DEFINE c == <<o, i>>
<1>1. c \in C /\ quantity[o][i] > 0
  BY PipelineFacts DEF ReceiveCall, SInv, QuantityInv, C
<1>2. /\ pc[c] = "idle"
      /\ item' = [item EXCEPT ![c] = [sku |-> OneSku, quantity |-> quantity[o][i]]]
      /\ pc' = [pc EXCEPT ![c] = "load"]
      /\ UNCHANGED <<orderVars, quantity, stock, reply, restarts>>
  BY DEF ReceiveCall, Inventory!ConsumeMessage
<1> HIDE DEF c
<1>3. ASSUME NEW d \in C PROVE ThreadInv(d)'
  BY <1>1, <1>2 DEF SInv, ThreadInv, TInv, SystemTypeOK
<1>4. Reserved' = Reserved /\ c \notin Reserved
  BY <1>1, <1>2 DEF SInv, ThreadInv, Reserved, Inventory!NoReply
<1>5. \A d \in Reserved : item'[d] = item[d]
  BY <1>2, <1>4 DEF Reserved, TInv, SystemTypeOK
<1>6. SoldInv'
  BY <1>2, <1>4, <1>5, SoldSame DEF SInv, SoldInv
<1> QED
  BY <1>2, <1>3, <1>6, InventoryKeepsPublished DEF SInv

LEMMA ReserveSInv ==
  ASSUME TInv, SInv, NEW c \in C, Inventory!Reserve(c), UNCHANGED <<orderVars, quantity, restarts>>
  PROVE  SInv'
<1> DEFINE q == item[c].quantity
<1>1. /\ item[c].sku = OneSku /\ pc[c] = "loop"
      /\ stock[OneSku] \in Int /\ q \in Int
      /\ stock[OneSku] >= q
      /\ stock' = [stock EXCEPT ![OneSku] = @ - q]
      /\ pc' = [pc EXCEPT ![c] = "replied"]
      /\ reply' = [reply EXCEPT ![c] = [status |-> "CONFIRMED", reserved |-> TRUE, available_qty |-> q]]
      /\ item' = item
  BY DEF Inventory!Reserve, Inventory!Covered, Inventory!Reply, Inventory!Sku, Inventory!Quantity,
     TInv, SystemTypeOK
<1>2. q > 0 /\ reply[c] = Inventory!NoReply
  BY <1>1 DEF SInv, ThreadInv
<1> HIDE DEF q
<1>3. \A d \in C : reply'[d] = IF d = c THEN [status |-> "CONFIRMED", reserved |-> TRUE, available_qty |-> q]
                               ELSE reply[d]
  BY <1>1 DEF TInv, SystemTypeOK
<1>4. \A d \in C : pc'[d] = IF d = c THEN "replied" ELSE pc[d]
  BY <1>1 DEF TInv, SystemTypeOK
<1>5. ASSUME NEW d \in C PROVE ThreadInv(d)'
  BY <1>1, <1>3, <1>4 DEF SInv, ThreadInv
<1>6. c \notin Reserved /\ Reserved' = Reserved \cup {c}
  BY <1>2, <1>3 DEF Reserved, Inventory!NoReply
<1>7. Sold' = q + Sold /\ Sold \in Int
  <2>1. \A d \in C : Demand[d] \in Int
    BY DEF Demand, TInv, SystemTypeOK
  <2>2. Demand' = Demand /\ Demand[c] = q
    BY <1>1 DEF Demand, q
  <2>3. Reserved \in SUBSET C /\ c \in C \ Reserved
    BY <1>6 DEF Reserved
  <2> QED
    BY <1>6, <2>1, <2>2, <2>3, CallsFinite, SumAdds DEF Sold
<1>8. SoldInv'
  <2>1. stock'[OneSku] = stock[OneSku] - q
    BY <1>1 DEF TInv, SystemTypeOK
  <2>2. q \in Int /\ stock[OneSku] \in Int /\ InitialStock \in Nat /\ (restarts + 1) * InitialStock \in Int
    BY <1>1, SystemAssumption DEF TInv, SystemTypeOK
  <2> DEFINE total == (restarts + 1) * InitialStock
  <2>3. stock[OneSku] \in 0 .. InitialStock /\ Sold + stock[OneSku] <= total /\ InitialStock - stock[OneSku] <= Sold
    BY DEF SInv, SoldInv
  <2>4. total' = total
    BY DEF orderVars
  <2>5. total \in Int
    BY <2>2
  <2> HIDE DEF total
  <2>6. /\ stock'[OneSku] \in 0 .. InitialStock
        /\ Sold' + stock'[OneSku] <= total
        /\ InitialStock - stock'[OneSku] <= Sold'
    BY <1>1, <1>2, <1>7, <2>1, <2>2, <2>3, <2>5
  <2> QED
    BY <2>4, <2>6 DEF SoldInv, total
<1> QED
  BY <1>3, <1>2, <1>5, <1>8, InventoryKeepsPublished DEF SInv

LEMMA OtherInventoryStepSInv ==
  ASSUME TInv, SInv, NEW c \in C, Inventory!Load(c) \/ Inventory!Retry(c) \/ Inventory!Refuse(c),
         UNCHANGED <<orderVars, quantity, restarts>>
  PROVE  SInv'
<1>1. UNCHANGED <<stock, item>>
  BY DEF Inventory!Load, Inventory!Retry, Inventory!Refuse
<1>2. CASE Inventory!Load(c) \/ Inventory!Retry(c)
  <2>1. reply' = reply /\ pc[c] \in {"load", "loop"} /\ \A d \in C : pc'[d] = IF d = c THEN "loop" ELSE pc[d]
    BY <1>2 DEF Inventory!Load, Inventory!Retry, Inventory!Covered, TInv, SystemTypeOK
  <2>2. ASSUME NEW d \in C PROVE ThreadInv(d)'
    BY <1>1, <2>1 DEF SInv, ThreadInv
  <2>3. SoldInv'
    BY <1>1, <2>1, SoldSame DEF SInv, SoldInv, Reserved
  <2> QED
    BY <2>1, <2>2, <2>3, InventoryKeepsPublished DEF SInv
<1>3. CASE Inventory!Refuse(c)
  <2>1. /\ pc[c] = "loop"
        /\ \A d \in C : pc'[d] = IF d = c THEN "replied" ELSE pc[d]
        /\ \A d \in C \ {c} : reply'[d] = reply[d]
        /\ reply'[c].status = "OUT_OF_STOCK"
    BY <1>3 DEF Inventory!Refuse, Inventory!Reply, TInv, SystemTypeOK
  <2>2. reply[c] = Inventory!NoReply
    BY <2>1 DEF SInv, ThreadInv
  <2>3. ASSUME NEW d \in C PROVE ThreadInv(d)'
    BY <1>1, <2>1 DEF SInv, ThreadInv
  <2>4. Reserved' = Reserved
    BY <2>1, <2>2 DEF Reserved, Inventory!NoReply
  <2>5. SoldInv'
    BY <1>1, <2>4, SoldSame DEF SInv, SoldInv
  <2> QED
    BY <2>1, <2>2, <2>3, <2>5, InventoryKeepsPublished DEF SInv
<1> QED
  BY <1>2, <1>3

\* A new incarnation brings a new stock; what the last one sold fitted in its own.
LEMMA RestartSInv ==
  ASSUME TInv, SInv, RestartInventory
  PROVE  SInv'
<1>1. /\ restarts' = restarts + 1
      /\ stock'[OneSku] = InitialStock
      /\ pc' = [c \in C |-> IF pc[c] = "idle" THEN "idle" ELSE "replied"]
      /\ UNCHANGED <<orderVars, quantity, item, reply>>
  BY DEF RestartInventory, TInv, SystemTypeOK, C
<1>2. ASSUME NEW c \in C PROVE ThreadInv(c)'
  BY <1>1 DEF SInv, ThreadInv
<1>3. Sold' = Sold
  BY <1>1, SoldSame DEF Reserved
<1>4. SoldInv'
  <2>1. /\ stock[OneSku] \in 0 .. InitialStock
        /\ Sold + stock[OneSku] <= (restarts + 1) * InitialStock
        /\ InitialStock - stock[OneSku] <= Sold
    BY DEF SInv, SoldInv
  <2>2. InitialStock \in Nat /\ restarts \in Nat /\ Sold \in Int
    BY SystemAssumption, SoldIsInt DEF TInv, SystemTypeOK
  <2> DEFINE total == (restarts + 1) * InitialStock
  <2>3. total \in Int /\ ((restarts + 1) + 1) * InitialStock = total + InitialStock
    BY <2>2
  <2>4. Sold + stock[OneSku] <= total
    BY <2>1
  <2> HIDE DEF total
  <2>5. Sold + InitialStock <= total + InitialStock /\ InitialStock - InitialStock <= Sold
    BY <2>1, <2>2, <2>3, <2>4
  <2> QED
    BY <1>1, <1>3, <2>2, <2>3, <2>5 DEF SoldInv
<1> QED
  BY <1>1, <1>2, <1>4, InventoryKeepsPublished DEF SInv

LEMMA StepSInv == Pipeline!IInv /\ TInv /\ SInv /\ [Next]_vars => SInv'
<1> SUFFICES ASSUME Pipeline!IInv, TInv, SInv, [Next]_vars PROVE SInv'
  OBVIOUS
<1>1. CASE UNCHANGED vars \/ Finished
  <2>1. UNCHANGED <<order, call, published, quantity, inventoryVars>>
    BY <1>1 DEF vars, Finished, orderVars, requestVars
  <2> QED
    BY <2>1, OrderStepKeepsStock DEF SInv, QuantityInv, PublishedInv, Published, IsOrderState,
       inventoryVars
<1>2. ASSUME NEW c \in C, InventoryStep(c)
      PROVE  SInv'
  BY <1>2, ReserveSInv, OtherInventoryStepSInv DEF InventoryStep
<1> QED
  BY <1>1, <1>2, AcceptOrderSInv, OrderStepSInv, CompleteCallSInv, ReceiveCallSInv, RestartSInv
  DEF Next, C

LEMMA SInvHolds == Spec => []SInv
BY InitSInv, StepSInv, TInvHolds, PipelineInvHolds, PTL DEF Spec

-----------------------------------------------------------------------------
(* The properties. *)

LEMMA InvLostReservations == SInv => LostReservationsAreErrors
<1> SUFFICES ASSUME SInv, NEW o \in Orders, NEW i \in Items, ReservedFor(o, i), call[o][i] = "done"
             PROVE  \E status \in {"CONFIRMED", "PROCESSING_ERROR"} :
                      Order!MapOrderItemResultToOrderState(
                        [item |-> i, reserved |-> status = "CONFIRMED", status |-> status]) \in published[o]
  BY DEF LostReservationsAreErrors
<1>1. PICK outcome \in Order!Outcomes : Published(o, i, outcome)
  BY DEF SInv, PublishedInv
<1>2. outcome # "OUT_OF_STOCK"
  BY <1>1 DEF SInv, PublishedInv, ReservedFor, Order!Outcomes
<1> QED
  BY <1>1, <1>2 DEF Published, Order!OrderItemResult, Order!Outcomes

\* Stock that is gone without a result that says so belongs to a line reported
\* as PROCESSING_ERROR, or to one whose call is still pending.
THEOREM LostReservationsReported == Spec => []LostReservationsAreErrors
BY SInvHolds, InvLostReservations, PTL

LEMMA InvStockBacks == TInv /\ SInv => StockBacksReservations
<1> SUFFICES ASSUME TInv, SInv PROVE StockBacksReservations
  OBVIOUS
<1> DEFINE total == (restarts + 1) * InitialStock
<1>1. Sold \in Int /\ total \in Int
  BY SoldIsInt, SystemAssumption DEF TInv, SystemTypeOK
<1>2. /\ stock[OneSku] \in 0 .. InitialStock
      /\ Sold + stock[OneSku] <= total
      /\ InitialStock - stock[OneSku] <= Sold
  BY DEF SInv, SoldInv
<1> HIDE DEF total
<1>3. Sold <= total
  BY <1>1, <1>2, SystemAssumption
<1> QED
  BY <1>2, <1>3 DEF StockBacksReservations, Sold, Demand, Reserved, C, total

\* However many orders, lines and restarts there are, what was sold fits in the
\* initial stocks, and what left the stock was sold.
THEOREM StockBacksSales == Spec => []StockBacksReservations
BY TInvHolds, SInvHolds, InvStockBacks, PTL

\* A listed result is one that was published, with the outcome of its line.
LEMMA ListedOutcome ==
  ASSUME Pipeline!IInv, SInv, NEW o \in Orders, response[o].code = 200,
         NEW k \in DOMAIN response[o].items
  PROVE  LET r == response[o].items[k] IN
         /\ r.status = "OUT_OF_STOCK" => reply[<<o, r.item>>].status = "OUT_OF_STOCK"
         /\ r.reserved => ReservedFor(o, r.item)
<1> DEFINE r == response[o].items[k]
           s == Order!MapOrderItemResultToOrderState(r)
<1>1. s \in published[o]
  <2>1. Pipeline!AnswerListsOnlyPublished
    BY PipelineItemsFinite, Pipeline!InvListsPublished
  <2> QED
    BY <2>1 DEF Pipeline!AnswerListsOnlyPublished, Pipeline!MapOrderItemResultToOrderState,
       Order!MapOrderItemResultToOrderState
<1>2. s # Order!MapToOrderState
  BY DEF Order!MapOrderItemResultToOrderState, Order!MapToOrderState
<1>3. PICK i \in Items, outcome \in Order!Outcomes :
        s = Order!MapOrderItemResultToOrderState(Order!OrderItemResult(i, outcome))
  BY <1>1, <1>2 DEF SInv, PublishedInv, IsOrderState
<1>4. r = Order!OrderItemResult(i, outcome)
  <2>1. s.confirmed_items = <<r>> /\ s.confirmed_items = <<Order!OrderItemResult(i, outcome)>>
    BY <1>3 DEF Order!MapOrderItemResultToOrderState
  <2> HIDE DEF s, r
  <2> QED
    BY <2>1
<1>5. r.item = i /\ r.status = outcome /\ (r.reserved => outcome = "CONFIRMED")
  <2> HIDE DEF r
  <2>1. r.item = i /\ r.status = outcome /\ r.reserved = (outcome = "CONFIRMED")
    BY <1>4 DEF Order!OrderItemResult
  <2> QED
    BY <2>1
<1>6. Published(o, i, outcome)
  BY <1>1, <1>3 DEF Published
<1>7. outcome # "PROCESSING_ERROR" => reply[<<o, i>>].status = outcome
  BY <1>6 DEF SInv, PublishedInv
<1> HIDE DEF r
<1>8. /\ r.status = "OUT_OF_STOCK" => reply[<<o, r.item>>].status = "OUT_OF_STOCK"
      /\ r.reserved => ReservedFor(o, r.item)
  BY <1>5, <1>7 DEF ReservedFor
<1> QED
  BY <1>8 DEF r

LEMMA InvAnswerAgrees == Pipeline!IInv /\ SInv => AnswerAgreesWithStock
<1> SUFFICES ASSUME Pipeline!IInv, SInv, NEW o \in Orders
             PROVE  /\ Order!AnsweredWith(o, "CONFIRMED") => \A i \in order[o] : ReservedFor(o, i)
                    /\ response[o].code = 200 =>
                         \A k \in DOMAIN response[o].items :
                           response[o].items[k].status = "OUT_OF_STOCK" =>
                             ~ReservedFor(o, response[o].items[k].item)
  BY DEF AnswerAgreesWithStock
<1>1. ASSUME Order!AnsweredWith(o, "CONFIRMED"), NEW i \in order[o]
      PROVE  ReservedFor(o, i)
  <2>1. Pipeline!CompleteAnswerIsExact
    BY PipelineItemsFinite, Pipeline!InvCompleteAnswer
  <2>2. /\ response[o].code = 200
        /\ i \in Pipeline!ItemsOf(response[o].items)
        /\ Pipeline!AllReserved(response[o].items)
    BY <1>1, <2>1 DEF Pipeline!CompleteAnswerIsExact, Pipeline!CompletelyAnswered,
       Pipeline!AnsweredWith, Order!AnsweredWith
  <2>3. PICK k \in DOMAIN response[o].items : response[o].items[k].item = i
    BY <2>2 DEF Pipeline!ItemsOf
  <2> QED
    BY <2>2, <2>3, ListedOutcome DEF Pipeline!AllReserved
<1>2. ASSUME response[o].code = 200, NEW k \in DOMAIN response[o].items,
             response[o].items[k].status = "OUT_OF_STOCK"
      PROVE  ~ReservedFor(o, response[o].items[k].item)
  BY <1>2, ListedOutcome DEF ReservedFor
<1> QED
  BY <1>1, <1>2

\* An order is answered CONFIRMED only if all of its lines were taken from a
\* stock, and a line is listed OUT_OF_STOCK only if nothing was taken for it,
\* whatever was late or lost between the two services and however often
\* inventoryservice restarted.
THEOREM AnswersAgreeWithStock == Spec => []AnswerAgreesWithStock
BY SInvHolds, PipelineInvHolds, InvAnswerAgrees, PTL

-----------------------------------------------------------------------------
(***************************************************************************)
(* The ledger with restarts.  As in InventoryReservation, every value the  *)
(* stock has had in this incarnation bounds what is left of it, and a      *)
(* thread in the loop holds one of them.  A restart forgets the values and *)
(* ends the threads together, so that no value outlives its incarnation.   *)
(***************************************************************************)
PastBoundsStock == stock[OneSku] \in past[OneSku] /\ \A v \in past[OneSku] : stock[OneSku] <= v

CallInv(c) ==
  /\ pc[c] = "loop" => available[c] \in past[OneSku]
  /\ pc[c] = "idle" => item[c] = Inventory!NoItem

LInv == PastBoundsStock /\ \A c \in C : CallInv(c)

\* What the ledger shows of a call.
Verdict == [c \in C |-> IF pc[c] = "replied" /\ reply[c].status = "none" THEN "lost"
                        ELSE reply[c].status]

LEMMA InitLInv == Init => LInv
BY SystemAssumption DEF Init, Inventory!Init, LInv, PastBoundsStock, CallInv, C

LEMMA ReceiveCallLInv ==
  ASSUME TInv, LInv, NEW o \in Orders, NEW i \in Items, ReceiveCall(o, i)
  PROVE  LInv'
<1> DEFINE c == <<o, i>>
<1>1. c \in C
  BY DEF C
<1>2. /\ item' = [item EXCEPT ![c] = [sku |-> OneSku, quantity |-> quantity[o][i]]]
      /\ pc' = [pc EXCEPT ![c] = "load"]
      /\ UNCHANGED <<stock, past, available>>
  BY DEF ReceiveCall, Inventory!ConsumeMessage
<1> HIDE DEF c
<1> QED
  BY <1>1, <1>2 DEF LInv, PastBoundsStock, CallInv, TInv, SystemTypeOK

LEMMA InventoryStepLInv ==
  ASSUME TInv, SInv, LInv, NEW c \in C, InventoryStep(c)
  PROVE  LInv'
<1>1. CASE Inventory!Load(c)
  <2>1. PICK v \in past[OneSku] : available' = [available EXCEPT ![c] = v]
    BY <1>1 DEF Inventory!Load, Inventory!Sku, TInv, RunningIsKnown
  <2>2. pc' = [pc EXCEPT ![c] = "loop"] /\ UNCHANGED <<stock, past, item>>
    BY <1>1 DEF Inventory!Load
  <2> QED
    BY <2>1, <2>2 DEF LInv, PastBoundsStock, CallInv, TInv, SystemTypeOK
<1>2. CASE Inventory!Reserve(c)
  <2> DEFINE q == item[c].quantity
  <2>1. /\ item[c].sku = OneSku /\ pc[c] = "loop"
        /\ stock' = [stock EXCEPT ![OneSku] = @ - q]
        /\ past' = [past EXCEPT ![OneSku] = @ \cup {stock'[OneSku]}]
        /\ pc' = [pc EXCEPT ![c] = "replied"]
        /\ UNCHANGED <<item, available>>
    BY <1>2 DEF Inventory!Reserve, Inventory!Covered, Inventory!Reply, Inventory!Sku, Inventory!Quantity,
       TInv, RunningIsKnown
  <2>2. q \in Int /\ q > 0 /\ stock[OneSku] \in Int /\ past[OneSku] \subseteq Int
    BY <2>1 DEF SInv, ThreadInv, TInv, SystemTypeOK
  <2> HIDE DEF q
  <2>3. stock'[OneSku] = stock[OneSku] - q /\ past'[OneSku] = past[OneSku] \cup {stock[OneSku] - q}
    BY <2>1 DEF TInv, SystemTypeOK
  <2>4. PastBoundsStock'
    BY <2>2, <2>3 DEF LInv, PastBoundsStock
  <2>5. ASSUME NEW d \in C PROVE CallInv(d)'
    BY <2>1, <2>3 DEF LInv, CallInv, TInv, SystemTypeOK
  <2> QED
    BY <2>4, <2>5 DEF LInv
<1>3. CASE Inventory!Retry(c)
  <2>1. PICK v \in past[OneSku] : available' = [available EXCEPT ![c] = v]
    BY <1>3 DEF Inventory!Retry, Inventory!Covered, Inventory!Sku, TInv, RunningIsKnown
  <2>2. UNCHANGED <<stock, past, pc, item>>
    BY <1>3 DEF Inventory!Retry
  <2> QED
    BY <2>1, <2>2 DEF LInv, PastBoundsStock, CallInv, TInv, SystemTypeOK
<1>4. CASE Inventory!Refuse(c)
  <2>1. pc' = [pc EXCEPT ![c] = "replied"] /\ UNCHANGED <<stock, past, item, available>>
    BY <1>4 DEF Inventory!Refuse, Inventory!Reply
  <2> QED
    BY <2>1 DEF LInv, PastBoundsStock, CallInv, TInv, SystemTypeOK
<1> QED
  BY <1>1, <1>2, <1>3, <1>4 DEF InventoryStep

LEMMA RestartLInv ==
  ASSUME TInv, LInv, RestartInventory
  PROVE  LInv'
<1>1. /\ stock'[OneSku] = InitialStock /\ past'[OneSku] = {InitialStock}
      /\ \A c \in C : pc'[c] = IF pc[c] = "idle" THEN "idle" ELSE "replied"
      /\ item' = item
  BY DEF RestartInventory, TInv, SystemTypeOK, C
<1> QED
  BY <1>1, SystemAssumption DEF LInv, PastBoundsStock, CallInv

\* A step that takes place in orderservice leaves inventoryservice alone.
LEMMA OtherStep ==
  ASSUME [Next]_vars
  PROVE  \/ UNCHANGED inventoryVars
         \/ \E o \in Orders, i \in Items : ReceiveCall(o, i)
         \/ \E c \in C : InventoryStep(c)
         \/ RestartInventory
BY DEF Next, C, vars, requestVars, inventoryVars, AcceptOrder, RejectOrder, OrderStep, HandleResponse,
   HandleError, CompleteCall, Finished

LEMMA StepLInv == TInv /\ SInv /\ LInv /\ [Next]_vars => LInv'
<1>1. LInv /\ UNCHANGED inventoryVars => LInv'
  BY DEF inventoryVars, LInv, PastBoundsStock, CallInv
<1> QED
  BY <1>1, OtherStep, ReceiveCallLInv, InventoryStepLInv, RestartLInv

LEMMA LInvHolds == Spec => []LInv
BY InitLInv, StepLInv, TInvHolds, SInvHolds, PTL DEF Spec

LEMMA VolatileLedgerInit == Init => Ledger!Init
BY DEF Init, Inventory!Init, Inventory!NoItem, Inventory!NoReply, Ledger!Init, Ledger!NoDemand

\* A call in the loop is undecided in the ledger.
LEMMA RunningIsUndecided ==
  ASSUME TInv, SInv, LInv, NEW c \in C
  PROVE  Ledger!Undecided(c) <=> pc[c] \in {"load", "loop"}
<1>1. CASE pc[c] = "idle"
  BY <1>1 DEF LInv, CallInv, Ledger!Undecided, Ledger!NoDemand, Inventory!NoItem
<1>2. CASE pc[c] = "replied"
  BY <1>2 DEF Ledger!Undecided, C
<1>3. CASE pc[c] \in {"load", "loop"}
  <2>1. item[c].quantity > 0 /\ reply[c].status = "none"
    BY <1>3 DEF SInv, ThreadInv, Inventory!NoReply
  <2>2. item[c] # Ledger!NoDemand
    BY <2>1 DEF Ledger!NoDemand
  <2> QED
    BY <1>3, <2>1, <2>2 DEF Ledger!Undecided, C
<1> QED
  BY <1>1, <1>2, <1>3 DEF TInv, SystemTypeOK

\* A reply decides its call and no other.
LEMMA VerdictIsReply ==
  ASSUME TInv, NEW c \in C, NEW status \in {"CONFIRMED", "OUT_OF_STOCK"}, NEW qty,
         Inventory!Reply(c, status, qty)
  PROVE  Verdict' = [Verdict EXCEPT ![c] = status]
<1>1. \A d \in C : /\ reply'[d].status = IF d = c THEN status ELSE reply[d].status
                   /\ pc'[d] = IF d = c THEN "replied" ELSE pc[d]
  BY DEF Inventory!Reply, TInv, SystemTypeOK
<1> QED
  BY <1>1 DEF Verdict

\* A request that arrives is asked of the ledger.
LEMMA ReceiveCallInLedger ==
  ASSUME Pipeline!IInv, TInv, SInv, LInv, NEW o \in Orders, NEW i \in Items, ReceiveCall(o, i)
  PROVE  Ledger!Next
<1> DEFINE c == <<o, i>>  q == quantity[o][i]
<1>1. c \in C /\ q \in Quantities \cap (Nat \ {0})
  <2>1. i \in order[o]
    BY PipelineFacts DEF ReceiveCall
  <2>2. quantity[o][i] \in Quantities /\ quantity[o][i] > 0
    BY <2>1 DEF SInv, QuantityInv
  <2>3. quantity[o][i] \in Int
    BY DEF TInv, SystemTypeOK
  <2>4. quantity[o][i] \in Nat \ {0}
    BY <2>2, <2>3
  <2> QED
    BY <2>2, <2>4 DEF C
<1>2. /\ pc[c] = "idle"
      /\ item' = [item EXCEPT ![c] = [sku |-> OneSku, quantity |-> q]]
      /\ pc' = [pc EXCEPT ![c] = "load"]
      /\ UNCHANGED <<stock, reply>>
  BY DEF ReceiveCall, Inventory!ConsumeMessage
<1> HIDE DEF c, q
<1>3. item[c] = Ledger!NoDemand
  BY <1>1, <1>2 DEF LInv, CallInv, Inventory!NoItem, Ledger!NoDemand
<1>4. \A d \in C : pc'[d] = "replied" <=> pc[d] = "replied"
  BY <1>1, <1>2 DEF TInv, SystemTypeOK
<1>5. Verdict' = Verdict
  BY <1>2, <1>4 DEF Verdict
<1>6. Ledger!Ask(c, OneSku, q)
  BY <1>2, <1>3, <1>5 DEF Ledger!Ask, Verdict, C
<1> QED
  BY <1>1, <1>6 DEF Ledger!Next, C

\* The exchange that succeeds is the grant, leaving the loop the refusal.
LEMMA InventoryStepInLedger ==
  ASSUME TInv, SInv, LInv, NEW c \in C, InventoryStep(c)
  PROVE  [Ledger!Next]_(Ledger!vars)
<1>1. CASE Inventory!Load(c) \/ Inventory!Retry(c)
  <2>1. /\ \A d \in C : pc'[d] = "replied" <=> pc[d] = "replied"
        /\ UNCHANGED <<stock, item, reply>>
    BY <1>1 DEF Inventory!Load, Inventory!Retry, Inventory!Covered, TInv, SystemTypeOK
  <2>2. Verdict' = Verdict
    BY <2>1 DEF Verdict
  <2> QED
    BY <2>1, <2>2 DEF Ledger!vars, Verdict, C
<1>2. CASE Inventory!Reserve(c)
  <2>1. Inventory!Reply(c, "CONFIRMED", item[c].quantity) /\ pc[c] = "loop"
    BY <1>2 DEF Inventory!Reserve, Inventory!Covered, Inventory!Quantity
  <2>2. Verdict' = [Verdict EXCEPT ![c] = "CONFIRMED"] /\ Ledger!Undecided(c)
    BY <2>1, VerdictIsReply, RunningIsUndecided
  <2>3. Ledger!Grant(c)
    BY <1>2, <2>2 DEF Inventory!Reserve, Inventory!Covered, Inventory!Sku, Inventory!Quantity,
       Ledger!Grant, Verdict, C
  <2> QED
    BY <2>3 DEF Ledger!Next, C
<1>3. CASE Inventory!Refuse(c)
  <2>1. Inventory!Reply(c, "OUT_OF_STOCK", available[c]) /\ pc[c] = "loop"
    BY <1>3 DEF Inventory!Refuse
  <2>2. Verdict' = [Verdict EXCEPT ![c] = "OUT_OF_STOCK"] /\ Ledger!Undecided(c)
    BY <2>1, VerdictIsReply, RunningIsUndecided
  <2>3. stock[OneSku] < item[c].quantity
    <3>1. item[c].sku = OneSku /\ available[c] \in past[OneSku] /\ ~(available[c] >= item[c].quantity)
      BY <1>3, <2>1 DEF Inventory!Refuse, Inventory!Covered, Inventory!Sku, Inventory!Quantity,
         TInv, RunningIsKnown, LInv, CallInv
    <3>2. /\ stock[OneSku] <= available[c]
          /\ stock[OneSku] \in Int /\ available[c] \in Int /\ item[c].quantity \in Int
      BY <3>1 DEF LInv, PastBoundsStock, TInv, SystemTypeOK
    <3> QED
      BY <3>1, <3>2
  <2>4. item[c].sku = OneSku
    BY <2>1 DEF TInv, RunningIsKnown
  <2>5. Ledger!Refuse(c)
    BY <1>3, <2>2, <2>3, <2>4 DEF Inventory!Refuse, Ledger!Refuse, Verdict, C
  <2> QED
    BY <2>5 DEF Ledger!Next, C
<1> QED
  BY <1>1, <1>2, <1>3 DEF InventoryStep

\* A restart loses what was undecided and nothing else.
LEMMA RestartInLedger ==
  ASSUME TInv, SInv, LInv, RestartInventory
  PROVE  Ledger!Restart
<1>1. /\ stock' = [sku \in {OneSku} |-> InitialStock]
      /\ \A c \in C : pc'[c] = IF pc[c] = "idle" THEN "idle" ELSE "replied"
      /\ UNCHANGED <<item, reply>>
  BY DEF RestartInventory, TInv, SystemTypeOK, C
<1>2. ASSUME NEW c \in C
      PROVE  Verdict'[c] = IF Ledger!Undecided(c) THEN "lost" ELSE Verdict[c]
  <2>1. Ledger!Undecided(c) <=> pc[c] \in {"load", "loop"}
    BY RunningIsUndecided
  <2>2. pc[c] # "replied" => reply[c].status = "none"
    BY DEF SInv, ThreadInv, Inventory!NoReply
  <2>3. pc[c] \in {"idle", "load", "loop", "replied"}
    BY DEF TInv, SystemTypeOK
  <2> QED
    BY <1>1, <2>1, <2>2, <2>3 DEF Verdict
<1>3. Verdict' = [c \in C |-> IF Ledger!Undecided(c) THEN "lost" ELSE Verdict[c]]
  BY <1>2 DEF Verdict
<1> QED
  BY <1>1, <1>3 DEF Ledger!Restart, Verdict, C

\* Behind its gRPC calls inventoryservice is a ledger whose table a restart fills again:
\* every reservation is atomic within one incarnation, whatever stale values the
\* loops saw, and no restart decides, revives or takes back one.
THEOREM SystemImplementsVolatileLedger == Spec => ImplementsVolatileLedger
<1>1. ASSUME Pipeline!IInv, TInv, SInv, LInv, [Next]_vars
      PROVE  [Ledger!Next \/ Ledger!Restart]_(Ledger!vars)
  <2>1. CASE UNCHANGED inventoryVars
    BY <1>1, <2>1 DEF inventoryVars, Ledger!vars
  <2> QED
    BY <1>1, <2>1, OtherStep, ReceiveCallInLedger, InventoryStepInLedger, RestartInLedger
<1> QED
  BY <1>1, VolatileLedgerInit, PipelineInvHolds, TInvHolds, SInvHolds, LInvHolds, PTL
  DEF Spec, ImplementsVolatileLedger, Ledger!VolatileSpec
=============================================================================
