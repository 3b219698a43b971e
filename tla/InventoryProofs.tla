--------------------------- MODULE InventoryProofs ---------------------------
(***************************************************************************)
(* Theorems about Inventory, for any orders, products, scopes and bounds:  *)
(* first about the allocation of ReservationQueue, for every queue, every  *)
(* demand and every stock, then about the invariants, about who is served  *)
(* first and what is on order for those that wait, about the refinement of *)
(* WorkshopJob, about what is promised beyond the shelf, and about the     *)
(* parts an OS in execution keeps and asks for.                            *)
(***************************************************************************)
EXTENDS Inventory, Integers, FiniteSetTheorems, WellFoundedInduction, TLAPS

\* A demand f of the finite set S of orders.
Demand(f, S) == IsFiniteSet(S) /\ \A q \in S : f[q] \in Nat

-----------------------------------------------------------------------------
(***************************************************************************)
(* Sums of quantities.                                                     *)
(***************************************************************************)

\* The units a demand counts are finitely many, so that its total is a number.
LEMMA TotalType ==
  ASSUME NEW S, NEW f, Demand(f, S)
  PROVE  IsFiniteSet(Units(f, S)) /\ Total(f, S) \in Nat
<1> DEFINE block == [q \in S |-> {q} \X (1 .. f[q])]
           T == {block[q] : q \in S}
<1>1. block \in Surjection(S, T)
  BY DEF Surjection
<1>2. IsFiniteSet(T)
  BY <1>1, FS_Surjection DEF Demand
<1>3. \A B \in T : IsFiniteSet(B)
  <2> SUFFICES ASSUME NEW q \in S PROVE IsFiniteSet({q} \X (1 .. f[q]))
    OBVIOUS
  <2>1. 1 \in Int /\ f[q] \in Int
    BY DEF Demand
  <2>2. IsFiniteSet(1 .. f[q])
    BY <2>1, FS_Interval
  <2>3. IsFiniteSet({q})
    BY FS_Singleton
  <2> QED
    BY <2>2, <2>3, FS_Product
<1>4. IsFiniteSet(UNION T)
  BY <1>2, <1>3, FS_UNION
<1>5. UNION T = Units(f, S)
  BY DEF Units
<1> QED
  BY <1>4, <1>5, FS_CardinalityType DEF Total

\* A demand of a set of orders is one of each of its subsets.
LEMMA DemandOfSubset ==
  ASSUME NEW S, NEW f, Demand(f, S), NEW A \in SUBSET S
  PROVE  Demand(f, A)
BY FS_Subset DEF Demand

\* The total of one order is its quantity.
LEMMA TotalOfOne ==
  ASSUME NEW f, NEW q, f[q] \in Nat
  PROVE  Demand(f, {q}) /\ Total(f, {q}) = f[q]
<1>1. Units(f, {q}) = {q} \X (1 .. f[q])
  BY DEF Units
<1>2. IsFiniteSet({q}) /\ Cardinality({q}) = 1
  BY FS_Singleton
<1>3. IsFiniteSet(1 .. f[q]) /\ Cardinality(1 .. f[q]) = f[q]
  <2>1. 1 \in Int /\ f[q] \in Int
    OBVIOUS
  <2> QED
    BY <2>1, FS_Interval
<1>4. Cardinality({q} \X (1 .. f[q])) = Cardinality({q}) * Cardinality(1 .. f[q])
  BY <1>2, <1>3, FS_Product
<1>5. Total(f, {q}) = f[q]
  <2>1. Total(f, {q}) = Cardinality({q} \X (1 .. f[q]))
    BY <1>1 DEF Total
  <2>2. Total(f, {q}) = 1 * f[q]
    BY <1>2, <1>3, <1>4, <2>1
  <2> QED
    BY <2>2
<1> QED
  BY <1>2, <1>5 DEF Demand

\* Totals of disjoint sets of orders add up.
LEMMA TotalOfUnion ==
  ASSUME NEW A, NEW B, NEW f, Demand(f, A), Demand(f, B), A \cap B = {}
  PROVE  Total(f, A \cup B) = Total(f, A) + Total(f, B)
<1>1. Units(f, A \cup B) = Units(f, A) \cup Units(f, B)
  BY DEF Units
<1>2. Units(f, A) \cap Units(f, B) = {}
  BY DEF Units
<1>3. /\ IsFiniteSet(Units(f, A)) /\ Total(f, A) \in Nat
      /\ IsFiniteSet(Units(f, B)) /\ Total(f, B) \in Nat
  BY TotalType
<1>4. Cardinality(Units(f, A) \cup Units(f, B))
        = Total(f, A) + Total(f, B) - Cardinality(Units(f, A) \cap Units(f, B))
  BY <1>3, FS_Union DEF Total
<1>5. Cardinality(Units(f, A) \cap Units(f, B)) = 0
  BY <1>2, FS_EmptySet
<1>6. Total(f, A \cup B) = Cardinality(Units(f, A) \cup Units(f, B))
  BY <1>1 DEF Total
<1> QED
  BY <1>3, <1>4, <1>5, <1>6

\* A larger demand of more orders has a larger total.
LEMMA TotalMonotone ==
  ASSUME NEW S, NEW f, NEW g, NEW A \in SUBSET S, Demand(g, S),
         \A q \in A : f[q] \in Nat /\ f[q] <= g[q]
  PROVE  Total(f, A) <= Total(g, S)
<1>1. Units(f, A) \in SUBSET Units(g, S)
  BY DEF Units, Demand
<1> QED
  BY <1>1, TotalType, FS_Subset DEF Total

-----------------------------------------------------------------------------
(***************************************************************************)
(* The allocation.                                                         *)
(***************************************************************************)

\* A queue of orders with their demands, and what there is to hand out.
Waiting(wanted, queue, available) ==
  /\ queue \in SUBSET Nat
  /\ Demand(wanted, queue)
  /\ available \in Nat

\* What is ahead of an order is part of the queue.
LEMMA AheadType ==
  ASSUME NEW wanted, NEW queue, NEW available,
         Waiting(wanted, queue, available), NEW q \in queue
  PROVE  /\ Demand(wanted, Ahead(queue, q))
         /\ Total(wanted, Ahead(queue, q)) \in Nat
<1>1. Ahead(queue, q) \in SUBSET queue
  BY DEF Ahead
<1>2. Demand(wanted, Ahead(queue, q))
  BY <1>1, DemandOfSubset DEF Waiting
<1> QED
  BY <1>2, TotalType

\* No order is granted more than it requires or than there is.
LEMMA GrantedType ==
  ASSUME NEW wanted, NEW queue, NEW available,
         Waiting(wanted, queue, available), NEW q \in queue
  PROVE  /\ Granted(wanted, queue, available, q) \in Nat
         /\ Granted(wanted, queue, available, q) <= wanted[q]
         /\ Granted(wanted, queue, available, q) <= available
<1>1. /\ wanted[q] \in Nat
      /\ available \in Nat
      /\ Total(wanted, Ahead(queue, q)) \in Nat
  BY AheadType DEF Waiting, Demand
<1> QED
  BY <1>1 DEF Granted, LeftFor, Minimum, Less

\* Whoever is behind q has q's whole demand ahead of it.
LEMMA AheadAccumulates ==
  ASSUME NEW wanted, NEW queue, NEW available,
         Waiting(wanted, queue, available),
         NEW q \in queue, NEW o \in queue, q < o
  PROVE  Total(wanted, Ahead(queue, q)) + wanted[q]
           <= Total(wanted, Ahead(queue, o))
<1>1. /\ Demand(wanted, Ahead(queue, q))
      /\ Demand(wanted, {q}) /\ Total(wanted, {q}) = wanted[q]
      /\ Demand(wanted, Ahead(queue, o))
  BY AheadType, TotalOfOne DEF Waiting, Demand
<1>2. /\ Ahead(queue, q) \cap {q} = {}
      /\ Ahead(queue, q) \cup {q} \in SUBSET Ahead(queue, o)
  <2>1. q \in Nat /\ o \in Nat /\ \A x \in queue : x \in Nat
    BY DEF Waiting
  <2>2. \A x \in Ahead(queue, q) : x \in queue /\ x < q /\ x < o
    BY <2>1 DEF Ahead
  <2>3. q \notin Ahead(queue, q)
    BY <2>1, <2>2
  <2> QED
    BY <2>2, <2>3 DEF Ahead
<1>3. Total(wanted, Ahead(queue, q) \cup {q})
        = Total(wanted, Ahead(queue, q)) + wanted[q]
  BY <1>1, <1>2, TotalOfUnion
<1>4. \A x \in Ahead(queue, q) \cup {q} :
        wanted[x] \in Nat /\ wanted[x] <= wanted[x]
  BY <1>1 DEF Demand
<1>5. Total(wanted, Ahead(queue, q) \cup {q}) <= Total(wanted, Ahead(queue, o))
  BY <1>1, <1>2, <1>4, TotalMonotone
<1> QED
  BY <1>3, <1>5

\* First come, first served: an order is granted something only when every
\* order ahead of it in _reconcile_product_queue's loop is granted all.
THEOREM ServedInOrder ==
  ASSUME NEW wanted, NEW queue, NEW available,
         Waiting(wanted, queue, available),
         NEW q \in queue, NEW o \in queue, q < o,
         Granted(wanted, queue, available, o) > 0
  PROVE  Granted(wanted, queue, available, q) = wanted[q]
<1>1. /\ wanted[q] \in Nat /\ wanted[o] \in Nat /\ available \in Nat
      /\ Total(wanted, Ahead(queue, q)) \in Nat
      /\ Total(wanted, Ahead(queue, o)) \in Nat
  BY AheadType DEF Waiting, Demand
<1>2. Total(wanted, Ahead(queue, q)) + wanted[q]
        <= Total(wanted, Ahead(queue, o))
  BY AheadAccumulates
<1>3. Total(wanted, Ahead(queue, o)) < available
  BY <1>1 DEF Granted, LeftFor, Minimum, Less
<1> QED
  BY <1>1, <1>2, <1>3 DEF Granted, LeftFor, Minimum, Less

\* The loop hands out no more than there was: number the units in the order
\* they are handed out, the k-th unit of q after all that is ahead of q.
THEOREM GrantedWithinAvailable ==
  ASSUME NEW wanted, NEW queue, NEW available,
         Waiting(wanted, queue, available),
         NEW granted,
         \A q \in queue : granted[q] = Granted(wanted, queue, available, q)
  PROVE  /\ Demand(granted, queue)
         /\ Total(granted, queue) <= available
<1> DEFINE before(q) == Total(wanted, Ahead(queue, q))
           number == [u \in Units(granted, queue) |-> before(u[1]) + u[2]]
<1>1. Demand(granted, queue)
  BY GrantedType DEF Demand, Waiting
<1>2. \A q \in queue : /\ before(q) \in Nat
                       /\ wanted[q] \in Nat
                       /\ granted[q] \in Nat
                       /\ granted[q] <= wanted[q]
                       /\ granted[q] > 0 => before(q) + granted[q] <= available
  <2> SUFFICES ASSUME NEW q \in queue
               PROVE  /\ before(q) \in Nat
                      /\ wanted[q] \in Nat
                      /\ granted[q] \in Nat
                      /\ granted[q] <= wanted[q]
                      /\ granted[q] > 0 => before(q) + granted[q] <= available
    OBVIOUS
  <2>1. before(q) \in Nat /\ wanted[q] \in Nat /\ available \in Nat
    BY AheadType DEF Waiting, Demand
  <2>2. granted[q] = Minimum(wanted[q], Less(available, before(q)))
    BY DEF Granted, LeftFor
  <2> QED
    BY <2>1, <2>2 DEF Minimum, Less
<1>3. \A u \in Units(granted, queue) :
        /\ u = <<u[1], u[2]>>
        /\ u[1] \in queue
        /\ u[2] \in 1 .. granted[u[1]]
  BY DEF Units
<1>4. number \in [Units(granted, queue) -> 1 .. available]
  <2> SUFFICES ASSUME NEW u \in Units(granted, queue)
               PROVE  before(u[1]) + u[2] \in 1 .. available
    OBVIOUS
  <2> QED
    BY <1>2, <1>3 DEF Waiting
<1>5. \A u, v \in Units(granted, queue) :
        before(u[1]) + u[2] = before(v[1]) + v[2] => u = v
  <2> SUFFICES ASSUME NEW u \in Units(granted, queue),
                      NEW v \in Units(granted, queue),
                      before(u[1]) + u[2] = before(v[1]) + v[2]
               PROVE  u = v
    OBVIOUS
  <2>1. ~(u[1] < v[1])
    <3> SUFFICES ASSUME u[1] < v[1] PROVE FALSE
      OBVIOUS
    <3>1. before(u[1]) + wanted[u[1]] <= before(v[1])
      BY <1>3, AheadAccumulates
    <3> QED
      BY <1>2, <1>3, <3>1
  <2>2. ~(v[1] < u[1])
    <3> SUFFICES ASSUME v[1] < u[1] PROVE FALSE
      OBVIOUS
    <3>1. before(v[1]) + wanted[v[1]] <= before(u[1])
      BY <1>3, AheadAccumulates
    <3> QED
      BY <1>2, <1>3, <3>1
  <2>3. u[1] = v[1]
    BY <1>3, <2>1, <2>2 DEF Waiting
  <2>4. u[2] = v[2]
    BY <1>2, <1>3, <2>3
  <2> QED
    BY <1>3, <2>3, <2>4
<1>6. number \in Injection(Units(granted, queue), 1 .. available)
  BY <1>4, <1>5 DEF Injection, IsInjective
<1>7. IsFiniteSet(1 .. available) /\ Cardinality(1 .. available) = available
  BY FS_Interval DEF Waiting
<1>8. Cardinality(Units(granted, queue)) <= Cardinality(1 .. available)
  BY <1>6, <1>7, FS_Injection
<1> QED
  BY <1>1, <1>7, <1>8 DEF Total

-----------------------------------------------------------------------------
(***************************************************************************)
(* The loop.  Granted is the closed form of what _reconcile_product_queue  *)
(* computes turn by turn; the induction over the turns is the absence of a *)
(* least turn at which the two differ.                                     *)
(***************************************************************************)

\* Induction: of the numbers that have a property one is the least.
LEMMA LeastNumber ==
  ASSUME NEW S \in SUBSET Nat, S # {}
  PROVE  \E n \in S : \A m \in S : n <= m
<1> DEFINE R == OpToRel(<, Nat)
<1>1. IsWellFoundedOn(R, Nat)
  BY NatLessThanWellFounded
<1>2. \A m, n \in Nat : m < n => <<m, n>> \in R
  BY Zenon DEF OpToRel
<1>. HIDE DEF R
<1>3. PICK n \in S : \A m \in S : ~(<<m, n>> \in R)
  BY <1>1, WFMin
<1>4. ASSUME NEW m \in S PROVE n <= m
  <2>1. ~(m < n)
    BY <1>2, <1>3, Zenon
  <2> QED
    BY <2>1
<1> QED
  BY <1>4

\* The queue in the order the loop serves it.
Sorted(turns, queue) ==
  /\ turns \in Seq(queue)
  /\ \A q \in queue : \E i \in 1 .. Len(turns) : turns[i] = q
  /\ \A i, j \in 1 .. Len(turns) : i < j => turns[i] < turns[j]

First(turns, k) == {turns[i] : i \in 1 .. k}

LEMMA SortedType ==
  ASSUME NEW queue \in SUBSET Nat, NEW turns, Sorted(turns, queue)
  PROVE  /\ Len(turns) \in Nat
         /\ \A i \in 1 .. Len(turns) : turns[i] \in queue /\ turns[i] \in Nat
<1>1. turns \in Seq(queue)
  BY DEF Sorted
<1>2. Len(turns) \in Nat /\ \A i \in 1 .. Len(turns) : turns[i] \in queue
  BY <1>1
<1> QED
  BY <1>2

\* What is ahead of the k-th is what was served before.
LEMMA FirstAreAhead ==
  ASSUME NEW queue \in SUBSET Nat, NEW turns, Sorted(turns, queue),
         NEW k \in 1 .. Len(turns)
  PROVE  Ahead(queue, turns[k]) = First(turns, k - 1)
<1>1. /\ Len(turns) \in Nat /\ turns[k] \in Nat
      /\ \A i \in 1 .. Len(turns) : turns[i] \in queue /\ turns[i] \in Nat
  BY SortedType
<1>2. ASSUME NEW q \in Ahead(queue, turns[k]) PROVE q \in First(turns, k - 1)
  <2>1. PICK i \in 1 .. Len(turns) : turns[i] = q
    BY DEF Sorted, Ahead
  <2>2. turns[i] < turns[k]
    BY <2>1 DEF Ahead
  <2>3. i < k
    <3> SUFFICES ASSUME k < i \/ k = i PROVE FALSE
      BY <1>1
    <3>1. turns[k] < turns[i] \/ turns[k] = turns[i]
      BY DEF Sorted
    <3> QED
      BY <1>1, <2>2, <3>1
  <2> QED
    BY <1>1, <2>1, <2>3 DEF First
<1>3. ASSUME NEW q \in First(turns, k - 1) PROVE q \in Ahead(queue, turns[k])
  <2>1. PICK i \in 1 .. k - 1 : turns[i] = q
    BY DEF First
  <2>2. i \in 1 .. Len(turns) /\ i < k
    BY <1>1
  <2> QED
    BY <1>1, <2>1, <2>2 DEF Sorted, Ahead
<1> QED
  BY <1>2, <1>3

\* The total of the first k orders, order by order.
LEMMA TotalOfFirst ==
  ASSUME NEW wanted, NEW queue, NEW available, Waiting(wanted, queue, available),
         NEW turns, Sorted(turns, queue)
  PROVE  /\ Total(wanted, First(turns, 0)) = 0
         /\ \A k \in 0 .. Len(turns) :
              Demand(wanted, First(turns, k)) /\ Total(wanted, First(turns, k)) \in Nat
         /\ \A k \in 1 .. Len(turns) :
              /\ wanted[turns[k]] \in Nat
              /\ Total(wanted, First(turns, k))
                   = Total(wanted, First(turns, k - 1)) + wanted[turns[k]]
<1>1. /\ Len(turns) \in Nat /\ queue \in SUBSET Nat
      /\ \A i \in 1 .. Len(turns) : turns[i] \in queue /\ turns[i] \in Nat
  BY SortedType DEF Waiting
<1>2. Total(wanted, First(turns, 0)) = 0
  <2>1. First(turns, 0) = {}
    BY DEF First
  <2>2. Units(wanted, {}) = {}
    BY DEF Units
  <2> QED
    BY <2>1, <2>2, FS_EmptySet DEF Total
<1>3. ASSUME NEW k \in 0 .. Len(turns)
      PROVE  Demand(wanted, First(turns, k)) /\ Total(wanted, First(turns, k)) \in Nat
  <2>1. First(turns, k) \in SUBSET queue
    BY <1>1 DEF First
  <2> QED
    BY <2>1, DemandOfSubset, TotalType DEF Waiting
<1>4. ASSUME NEW k \in 1 .. Len(turns)
      PROVE  /\ wanted[turns[k]] \in Nat
             /\ Total(wanted, First(turns, k))
                  = Total(wanted, First(turns, k - 1)) + wanted[turns[k]]
  <2>1. wanted[turns[k]] \in Nat
    BY <1>1 DEF Waiting, Demand
  <2>2. First(turns, k) = First(turns, k - 1) \cup {turns[k]}
    <3>1. 1 .. k = (1 .. k - 1) \cup {k}
      BY <1>1
    <3> QED
      BY <3>1 DEF First
  <2>3. First(turns, k - 1) \cap {turns[k]} = {}
    <3>1. ASSUME NEW i \in 1 .. k - 1 PROVE turns[i] # turns[k]
      <4>1. i \in 1 .. Len(turns) /\ i < k
        BY <1>1
      <4> QED
        BY <1>1, <4>1 DEF Sorted
    <3> QED
      BY <3>1 DEF First
  <2>4. k - 1 \in 0 .. Len(turns)
    BY <1>1
  <2>5. /\ Demand(wanted, First(turns, k - 1))
        /\ Demand(wanted, {turns[k]}) /\ Total(wanted, {turns[k]}) = wanted[turns[k]]
    BY <1>3, <2>1, <2>4, TotalOfOne
  <2> QED
    BY <2>1, <2>2, <2>3, <2>5, TotalOfUnion
<1> QED
  BY <1>2, <1>3, <1>4

\* The loop subtracts what it grants, turn by turn: what it has left is what the
\* demand of those it served leaves.
LEMMA LoopInvariant ==
  ASSUME NEW wanted, NEW queue, NEW available, Waiting(wanted, queue, available),
         NEW turns, Sorted(turns, queue)
  PROVE  \A k \in 0 .. Len(turns) :
           Remaining(wanted, turns, available)[k]
             = Less(available, Total(wanted, First(turns, k)))
<1> DEFINE Turns == 0 .. Len(turns)
           Turn(f, k) == IF k = 0 THEN available
                         ELSE f[k - 1] - Minimum(wanted[turns[k]], f[k - 1])
           closed == [k \in Turns |-> Less(available, Total(wanted, First(turns, k)))]
           loop == Remaining(wanted, turns, available)
<1>1. Len(turns) \in Nat /\ available \in Nat
  BY DEF Sorted, Waiting
<1>2. closed = [k \in Turns |-> Turn(closed, k)]
  <2> SUFFICES ASSUME NEW k \in Turns PROVE closed[k] = Turn(closed, k)
    OBVIOUS
  <2>1. CASE k = 0
    BY <1>1, <2>1, TotalOfFirst DEF Less
  <2>2. CASE k # 0
    <3>1. k \in 1 .. Len(turns) /\ k - 1 \in Turns
      BY <1>1, <2>2
    <3>2. /\ wanted[turns[k]] \in Nat
          /\ Total(wanted, First(turns, k - 1)) \in Nat
          /\ Total(wanted, First(turns, k))
               = Total(wanted, First(turns, k - 1)) + wanted[turns[k]]
      BY <3>1, TotalOfFirst
    <3> QED
      BY <1>1, <2>2, <3>1, <3>2 DEF Less, Minimum
  <2> QED
    BY <2>1, <2>2
<1>3. loop = [k \in Turns |-> Turn(loop, k)]
  <2>1. loop = CHOOSE f : f = [k \in Turns |-> Turn(f, k)]
    BY DEF Remaining
  <2> QED
    BY <1>2, <2>1
<1>4. \A k \in Turns : loop[k] = closed[k]
  <2> DEFINE Differ == {k \in Turns : loop[k] # closed[k]}
  <2> SUFFICES ASSUME Differ # {} PROVE FALSE
    OBVIOUS
  <2>1. PICK k \in Differ : \A m \in Differ : k <= m
    <3>1. Differ \in SUBSET Nat
      BY <1>1
    <3> HIDE DEF Differ
    <3> QED
      BY <3>1, LeastNumber
  <2>2. CASE k = 0
    BY <1>2, <1>3, <2>2
  <2>3. CASE k # 0
    <3>1. k - 1 \in Turns /\ k - 1 \notin Differ
      BY <1>1, <2>1, <2>3
    <3>2. loop[k - 1] = closed[k - 1]
      BY <3>1
    <3> HIDE DEF loop, closed
    <3> QED
      BY <1>2, <1>3, <2>3, <3>2
  <2> QED
    BY <2>2, <2>3
<1> QED
  BY <1>4

\* _reconcile_product_queue: whoever waits, whatever they require and however much
\* there is, the loop over the sorted queue reserves for each order what Granted
\* says, so that what holds of the one holds of the other.
THEOREM LoopGrants ==
  ASSUME NEW wanted, NEW queue, NEW available, Waiting(wanted, queue, available),
         NEW turns, Sorted(turns, queue), NEW k \in 1 .. Len(turns)
  PROVE  Granted(wanted, queue, available, turns[k])
           = Minimum(wanted[turns[k]], Remaining(wanted, turns, available)[k - 1])
<1>1. k - 1 \in 0 .. Len(turns) /\ queue \in SUBSET Nat
  BY DEF Sorted, Waiting
<1>2. Ahead(queue, turns[k]) = First(turns, k - 1)
  BY <1>1, FirstAreAhead
<1> QED
  BY <1>1, <1>2, LoopInvariant DEF Granted, LeftFor

-----------------------------------------------------------------------------
(***************************************************************************)
(* Operators that only name a conjunct of an action or a value it writes   *)
(* are expanded in every proof below.                                      *)
(***************************************************************************)
USE DEF Exists, Removed, WaitingFor, Submitted, Approved, Rejectable, MayStart,
        MayOverride, ReleaseReservations, CancelRequests, AddStock, Received,
        ReservedInFull, Committed, MayRequest, NewRow, ConsumeReservation,
        DecrementStock, MarkFulfilled, MayFinish, Requires, HeldBy,
        WaitingStatus, Enlarged, AdjustStock, EditProduct, GotAll,
        ReturnLeftovers

\* A table with one quantity per OS and product, or one per product.
Table == [Orders -> [Products -> Nat]]
Shelf == [Products -> Nat]
StatusColumn == [Orders -> Statuses \cup {NotCreated}]

\* Withdrawals are asked for of started OSs only, and no OS goes back.
RowsOfStartedOrders == \A w \in withdrawals : status[w.os] \in Started

\* The inductive invariant.  ScopeRespected alone is not inductive: that a
\* fulfilment finds its OS started has to be known of the open withdrawals.
Inv == TypeOK /\ ScopeRespected /\ RowsOfStartedOrders

-----------------------------------------------------------------------------
(***************************************************************************)
(* Reconciliation.                                                         *)
(***************************************************************************)

\* The rows a reconciliation of o works on.
Rows(o, st, req, stk, ord) ==
  /\ o \in Orders
  /\ st \in StatusColumn
  /\ req \in Table
  /\ stk \in Shelf
  /\ ord \in Table

\* The statuses named by the guards are statuses.
LEMMA StatusFacts ==
  /\ Reservable \subseteq Statuses
  /\ BreakGlass \subseteq Statuses
  /\ Revisable \subseteq Statuses
  /\ Reservable \cap Started = {}
  /\ Revisable \cap Started = {}
  /\ BreakGlass \cap Started = {}
  /\ Closed \subseteq Started
  /\ NotCreated \notin Started
BY DEF Reservable, BreakGlass, Revisable, Started, Closed, Statuses, NotCreated

\* The queue of a product is one the allocation lemmas speak about.
LEMMA QueueType ==
  ASSUME TypeOK, NEW o, NEW st, NEW req, NEW stk, NEW ord,
         Rows(o, st, req, stk, ord), NEW p \in Products
  PROVE  Waiting(Column(req, p), Queue(st, req, p), Available(st, req, stk, p))
<1>1. Queue(st, req, p) \in SUBSET Orders
  BY DEF Queue
<1>2. Demand(Column(req, p), Orders)
  BY OrdersAssumption DEF Rows, Table, Demand, Column
<1>3. Demand(Column(req, p), Queue(st, req, p))
  BY <1>1, <1>2, DemandOfSubset
<1>4. Demand(Column(reserved, p), Orders)
  BY OrdersAssumption DEF TypeOK, Demand, Column
<1>5. Orders \ Queue(st, req, p) \in SUBSET Orders
  OBVIOUS
<1>6. Demand(Column(reserved, p), Orders \ Queue(st, req, p))
  BY <1>4, <1>5, DemandOfSubset
<1>7. Total(Column(reserved, p), Orders \ Queue(st, req, p)) \in Nat
  BY <1>6, TotalType
<1>8. stk[p] \in Nat
  BY DEF Rows, Shelf
<1>9. Available(st, req, stk, p) \in Nat
  BY <1>7, <1>8 DEF Available, Less
<1> QED
  BY <1>1, <1>3, <1>9, OrdersAssumption DEF Waiting

\* Reconciling o keeps every reservation within its scope.
LEMMA AllocationType ==
  ASSUME TypeOK, NEW o, NEW st, NEW req, NEW stk, NEW ord,
         Rows(o, st, req, stk, ord)
  PROVE  /\ Allocation(o, st, req, stk) \in Table
         /\ \A q \in Orders, p \in Products :
              \/ Allocation(o, st, req, stk)[q][p] = reserved[q][p]
                   /\ ~(q = o /\ req[q][p] = 0)
                   /\ ~(req[o][p] > 0 /\ q \in Queue(st, req, p))
              \/ Allocation(o, st, req, stk)[q][p] <= req[q][p]
                   /\ (q = o \/ q \in Queue(st, req, p))
<1>1. ASSUME NEW q \in Orders, NEW p \in Products
      PROVE  /\ Allocation(o, st, req, stk)[q][p] \in Nat
             /\ \/ Allocation(o, st, req, stk)[q][p] = reserved[q][p]
                     /\ ~(q = o /\ req[q][p] = 0)
                     /\ ~(req[o][p] > 0 /\ q \in Queue(st, req, p))
                \/ Allocation(o, st, req, stk)[q][p] <= req[q][p]
                     /\ (q = o \/ q \in Queue(st, req, p))
  <2> DEFINE amount == Granted(Column(req, p), Queue(st, req, p),
                               Available(st, req, stk, p), q)
  <2>1. /\ req[q][p] \in Nat /\ req[o][p] \in Nat /\ reserved[q][p] \in Nat
        /\ Column(req, p)[q] = req[q][p]
    BY DEF Rows, Table, TypeOK, Column
  <2>2. Allocation(o, st, req, stk)[q][p] =
          CASE req[o][p] > 0 /\ q \in Queue(st, req, p) -> amount
            [] req[o][p] = 0 /\ q = o -> 0
            [] OTHER -> reserved[q][p]
    BY DEF Allocation
  <2> HIDE DEF amount
  <2>3. CASE req[o][p] > 0 /\ q \in Queue(st, req, p)
    <3>1. amount \in Nat /\ amount <= Column(req, p)[q]
      BY <2>3, QueueType, GrantedType DEF amount
    <3>2. Allocation(o, st, req, stk)[q][p] = amount
      BY <2>1, <2>2, <2>3
    <3> QED
      BY <2>1, <2>3, <3>1, <3>2
  <2>4. CASE req[o][p] = 0 /\ q = o
    BY <2>1, <2>2, <2>4
  <2>5. CASE ~(req[o][p] > 0 /\ q \in Queue(st, req, p)) /\ ~(req[o][p] = 0 /\ q = o)
    BY <2>1, <2>2, <2>5
  <2> QED
    BY <2>3, <2>4, <2>5
<1>2. \A q \in Orders, p \in Products : Allocation(o, st, req, stk)[q][p] \in Nat
  BY <1>1
<1>3. Allocation(o, st, req, stk) \in Table
  BY <1>2 DEF Allocation, Table
<1> QED
  BY <1>1, <1>3

\* What reconciling o does to the three tables it writes.
LEMMA ReconcileStep ==
  ASSUME TypeOK, NEW o, NEW st, NEW req, NEW stk, NEW ord,
         Rows(o, st, req, stk, ord),
         Reconcile(o, st, req, stk, ord)
  PROVE  /\ status' \in StatusColumn
         /\ reserved' \in Table
         /\ ordered' \in Table
         /\ \A q \in Orders :
              \/ status'[q] = st[q]
              \/ st[q] \in Reservable /\ status'[q] \in Reservable
         /\ \A q \in Orders, p \in Products :
              \/ q # o /\ reserved'[q][p] = reserved[q][p]
              \/ st[q] \in Reservable /\ reserved'[q][p] <= req[q][p]
              \/ reserved'[q][p] = 0
<1>1. CASE st[o] \notin Reservable
  <2>1. Release(o, ord) /\ status' = st
    BY <1>1 DEF Reconcile
  <2>2. /\ \A p \in Products : Nothing[p] = 0
        /\ Nothing \in Shelf
    BY DEF Nothing, Shelf
  <2> QED
    BY <2>1, <2>2 DEF Release, Rows, Table, Shelf, TypeOK
<1>2. CASE st[o] \in Reservable
  <2>1. /\ reserved' = Allocation(o, st, req, stk)
        /\ ordered' = Backorders(o, st, req, ord, reserved')
        /\ status' = Refreshed(o, st, req, reserved')
    BY <1>2 DEF Reconcile
  <2>2. reserved' \in Table
    BY <2>1, AllocationType
  <2>3. ordered' \in Table
    <3>1. \A q \in Orders, p \in Products : Less(req[q][p], reserved'[q][p]) \in Nat
      BY <2>2 DEF Less, Rows, Table
    <3>2. \A q \in Orders, p \in Products :
            Backorders(o, st, req, ord, reserved')[q][p] \in Nat
      BY <3>1 DEF Backorders, Rows, Table
    <3> QED
      BY <2>1, <3>2 DEF Backorders, Table
  <2>4. \A q \in Orders :
          \/ status'[q] = st[q]
          \/ st[q] \in Reservable /\ status'[q] \in Reservable
    BY <1>2, <2>1 DEF Refreshed, Queue, Reservable, Rows
  <2>5. status' \in StatusColumn
    <3>1. \A q \in Orders : status'[q] \in Statuses \cup {NotCreated}
      BY <2>4, StatusFacts DEF Rows, StatusColumn
    <3> QED
      BY <2>1, <3>1 DEF Refreshed, StatusColumn
  <2>6. ASSUME NEW q \in Orders, NEW p \in Products
        PROVE  \/ q # o /\ reserved'[q][p] = reserved[q][p]
               \/ st[q] \in Reservable /\ reserved'[q][p] <= req[q][p]
    <3>1. q \in Queue(st, req, p) => st[q] \in Reservable
      BY DEF Queue
    <3>2. q = o /\ req[q][p] > 0 => q \in Queue(st, req, p)
      BY <1>2 DEF Queue
    <3>3. req[q][p] \in Nat
      BY DEF Rows, Table
    <3> QED
      BY <1>2, <2>1, <3>1, <3>2, <3>3, AllocationType
  <2> QED
    BY <2>2, <2>3, <2>4, <2>5, <2>6
<1> QED
  BY <1>1, <1>2

\* A change of statuses and scopes before a reconciliation that leaves the
\* OSs alone whose work has begun, and the scope of every OS but o.
Unstarted(o, st, req) ==
  /\ \A q \in Orders :
       \/ status[q] \in Started /\ st[q] = status[q] /\ req[q] = required[q]
       \/ status[q] \notin Started /\ st[q] \notin Started
  /\ \A q \in Orders \ {o} : req[q] = required[q]

\* A reconciliation keeps the invariant.
LEMMA ReconcileKeepsScope ==
  ASSUME Inv, NEW o, NEW st, NEW req, NEW stk, NEW ord,
         Rows(o, st, req, stk, ord), Unstarted(o, st, req),
         Reconcile(o, st, req, stk, ord),
         required' = req, UNCHANGED <<withdrawals, fulfilled>>
  PROVE  ScopeRespected' /\ RowsOfStartedOrders'
<1>1. ASSUME NEW q \in Orders
      PROVE  \/ /\ status[q] \in Started
                /\ status'[q] = status[q]
                /\ required'[q] = required[q]
             \/ status[q] \notin Started /\ status'[q] \notin Started
  <2>1. \/ status'[q] = st[q]
        \/ st[q] \in Reservable /\ status'[q] \in Reservable
    BY ReconcileStep DEF Inv
  <2> QED
    BY <2>1, StatusFacts DEF Unstarted
<1>2. ASSUME NEW q \in Orders, NEW p \in Products
      PROVE  fulfilled'[q][p] + reserved'[q][p] <= required'[q][p]
  <2>1. /\ fulfilled[q][p] \in Nat /\ reserved[q][p] \in Nat
        /\ required[q][p] \in Nat /\ req[q][p] \in Nat
        /\ fulfilled[q][p] + reserved[q][p] <= required[q][p]
        /\ status[q] \notin Started => fulfilled[q][p] = 0
    BY DEF Inv, TypeOK, ScopeRespected, Rows, Table
  <2>2. \/ q # o /\ reserved'[q][p] = reserved[q][p]
        \/ st[q] \in Reservable /\ reserved'[q][p] <= req[q][p]
        \/ reserved'[q][p] = 0
    BY ReconcileStep DEF Inv
  <2>3. reserved'[q][p] \in Nat
    BY ReconcileStep DEF Inv, Table
  <2>4. CASE q # o /\ reserved'[q][p] = reserved[q][p]
    BY <2>1, <2>4 DEF Unstarted
  <2>5. CASE st[q] \in Reservable /\ reserved'[q][p] <= req[q][p]
    <3>1. status[q] \notin Started
      BY <2>5, StatusFacts DEF Unstarted
    <3> QED
      BY <2>1, <2>3, <2>5, <3>1
  <2>6. CASE reserved'[q][p] = 0
    BY <1>1, <2>1, <2>6
  <2> QED
    BY <2>2, <2>4, <2>5, <2>6
<1>3. ScopeRespected'
  <2> SUFFICES ASSUME NEW q \in Orders, NEW p \in Products
               PROVE  /\ status'[q] \notin Started => fulfilled'[q][p] = 0
                      /\ status'[q] \in Closed => fulfilled'[q][p] = required'[q][p]
    BY <1>2 DEF ScopeRespected
  <2> QED
    BY <1>1, StatusFacts DEF Inv, ScopeRespected
<1>4. RowsOfStartedOrders'
  BY <1>1 DEF Inv, TypeOK, WithdrawalRow, RowsOfStartedOrders
<1> QED
  BY <1>3, <1>4

-----------------------------------------------------------------------------
(***************************************************************************)
(* The invariant holds initially and every action keeps it.                *)
(***************************************************************************)

LEMMA InitInv == Init => Inv
<1> SUFFICES ASSUME Init PROVE Inv
  OBVIOUS
<1>1. /\ \A o \in Orders : status[o] = NotCreated
      /\ \A o \in Orders, p \in Products : required[o][p] = 0 /\ reserved[o][p] = 0
                                           /\ fulfilled[o][p] = 0
      /\ withdrawals = {}
  BY DEF Init, Nothing
<1>2. TypeOK
  <2>1. stock \in [Products -> Nat]
    BY BoundsAssumption DEF Init
  <2>2. Nothing \in [Products -> Nat]
    BY DEF Nothing
  <2> QED
    BY <2>1, <2>2 DEF Init, TypeOK
<1>3. ScopeRespected
  BY <1>1, StatusFacts DEF ScopeRespected
<1>4. RowsOfStartedOrders
  BY <1>1 DEF RowsOfStartedOrders
<1> QED
  BY <1>2, <1>3, <1>4 DEF Inv

LEMMA ApproveBudgetInv ==
  ASSUME Inv, NEW o \in Orders, NEW lines \in Scopes, ApproveBudget(o, lines)
  PROVE  Inv'
<1> DEFINE st == [status EXCEPT ![o] = "AGUARDANDO_INICIO"]
<1>1. /\ status[o] = NotCreated
      /\ required' = [required EXCEPT ![o] = lines]
      /\ Reconcile(o, st, required', stock, ordered)
      /\ UNCHANGED <<stock, mechanic, sent, loose, withdrawals, fulfilled>>
  BY DEF ApproveBudget
<1>2. Rows(o, st, required', stock, ordered)
  BY <1>1, ScopesAssumption
  DEF Inv, TypeOK, Rows, StatusColumn, Table, Shelf, Statuses
<1>3. Unstarted(o, st, required')
  BY <1>1, StatusFacts DEF Inv, TypeOK, Unstarted, Started
<1>4. TypeOK'
  BY <1>1, <1>2, ReconcileStep DEF Inv, TypeOK, Rows, StatusColumn, Table, Shelf
<1>5. ScopeRespected' /\ RowsOfStartedOrders'
  BY <1>1, <1>2, <1>3, ReconcileKeepsScope
<1> QED
  BY <1>4, <1>5 DEF Inv

\* Dropping the reservations of an OS keeps the invariant, whatever happens to
\* statuses before the work begins.
LEMMA ReleaseInv ==
  ASSUME Inv, NEW o \in Orders, Release(o, ordered),
         status' \in StatusColumn,
         \A q \in Orders : \/ status'[q] = status[q]
                          \/ {status[q], status'[q]} \cap Started = {},
         sent' \in [Orders -> Nat],
         UNCHANGED <<stock, mechanic, required, loose, withdrawals, fulfilled>>
  PROVE  Inv'
<1>1. /\ reserved' \in Table /\ ordered' \in Table
      /\ \A q \in Orders, p \in Products :
           reserved'[q][p] = reserved[q][p] \/ reserved'[q][p] = 0
  BY DEF Release, Nothing, Inv, TypeOK, Table
<1>2. TypeOK'
  BY <1>1 DEF Inv, TypeOK, StatusColumn, Table
<1>3. ScopeRespected'
  <2> SUFFICES ASSUME NEW q \in Orders, NEW p \in Products
               PROVE  /\ fulfilled[q][p] + reserved'[q][p] <= required[q][p]
                      /\ status'[q] \notin Started => fulfilled[q][p] = 0
                      /\ status'[q] \in Closed => fulfilled[q][p] = required[q][p]
    BY DEF ScopeRespected
  <2>1. /\ fulfilled[q][p] \in Nat /\ reserved[q][p] \in Nat /\ required[q][p] \in Nat
        /\ fulfilled[q][p] + reserved[q][p] <= required[q][p]
        /\ status[q] \notin Started => fulfilled[q][p] = 0
        /\ status[q] \in Closed => fulfilled[q][p] = required[q][p]
    BY DEF Inv, TypeOK, ScopeRespected
  <2>2. reserved'[q][p] = reserved[q][p] \/ reserved'[q][p] = 0
    BY <1>1
  <2> QED
    BY <2>1, <2>2, StatusFacts
<1>4. RowsOfStartedOrders'
  BY DEF Inv, TypeOK, WithdrawalRow, RowsOfStartedOrders
<1> QED
  BY <1>2, <1>3, <1>4 DEF Inv

LEMMA SendRevisionInv ==
  ASSUME Inv, NEW o \in Orders, SendRevision(o)
  PROVE  Inv'
<1>1. /\ status' \in StatusColumn
      /\ \A q \in Orders : \/ status'[q] = status[q]
                          \/ {status[q], status'[q]} \cap Started = {}
  BY DEF SendRevision, Inv, TypeOK, StatusColumn, Statuses, Started
<1>2. sent' \in [Orders -> Nat]
  <2>1. sent[o] \in Nat /\ sent \in [Orders -> Nat]
    BY DEF Inv, TypeOK
  <2> QED
    BY <2>1 DEF SendRevision
<1>3. /\ Release(o, ordered)
      /\ UNCHANGED <<stock, mechanic, required, loose, withdrawals, fulfilled>>
  BY DEF SendRevision
<1> QED
  BY <1>1, <1>2, <1>3, ReleaseInv

LEMMA ApproveRevisionInv ==
  ASSUME Inv, NEW o \in Orders, NEW lines \in Scopes, ApproveRevision(o, lines)
  PROVE  Inv'
<1> DEFINE st == [status EXCEPT ![o] = Approved(@)]
<1>1. /\ status[o] \in Revisable
      /\ sent[o] > 0
      /\ sent' = [sent EXCEPT ![o] = @ - 1]
      /\ required' = [required EXCEPT ![o] = lines]
      /\ Reconcile(o, st, required', stock, ordered)
      /\ UNCHANGED <<stock, mechanic, loose, withdrawals, fulfilled>>
  BY DEF ApproveRevision
<1>2. Rows(o, st, required', stock, ordered)
  BY <1>1, ScopesAssumption
  DEF Inv, TypeOK, Rows, StatusColumn, Table, Shelf, Statuses
<1>3. Unstarted(o, st, required')
  BY <1>1, StatusFacts DEF Inv, TypeOK, Unstarted, Started
<1>4. sent' \in [Orders -> Nat]
  BY <1>1 DEF Inv, TypeOK
<1>5. TypeOK'
  BY <1>1, <1>2, <1>4, ReconcileStep
  DEF Inv, TypeOK, Rows, StatusColumn, Table, Shelf
<1>6. ScopeRespected' /\ RowsOfStartedOrders'
  BY <1>1, <1>2, <1>3, ReconcileKeepsScope
<1> QED
  BY <1>5, <1>6 DEF Inv

LEMMA RejectRevisionInv ==
  ASSUME Inv, NEW o \in Orders, RejectRevision(o)
  PROVE  Inv'
<1>1. /\ status' \in StatusColumn
      /\ \A q \in Orders : \/ status'[q] = status[q]
                          \/ {status[q], status'[q]} \cap Started = {}
  BY DEF RejectRevision, Inv, TypeOK, StatusColumn, Statuses, Started
<1>2. sent' \in [Orders -> Nat]
  <2>1. sent[o] \in Nat /\ sent \in [Orders -> Nat]
    BY DEF Inv, TypeOK
  <2> QED
    BY <2>1 DEF RejectRevision
<1>3. /\ Release(o, ordered)
      /\ UNCHANGED <<stock, mechanic, required, loose, withdrawals, fulfilled>>
  BY DEF RejectRevision
<1> QED
  BY <1>1, <1>2, <1>3, ReleaseInv

LEMMA ReconcileOrderInv ==
  ASSUME Inv, NEW o \in Orders, ReconcileOrder(o)
  PROVE  Inv'
<1>1. /\ Reconcile(o, status, required, stock, ordered)
      /\ UNCHANGED <<stock, mechanic, sent, required, loose, withdrawals, fulfilled>>
  BY DEF ReconcileOrder
<1>2. Rows(o, status, required, stock, ordered)
  BY DEF Inv, TypeOK, Rows, StatusColumn, Table, Shelf
<1>3. Unstarted(o, status, required)
  BY DEF Unstarted
<1>4. TypeOK'
  BY <1>1, <1>2, ReconcileStep DEF Inv, TypeOK, Rows, StatusColumn, Table, Shelf
<1>5. ScopeRespected' /\ RowsOfStartedOrders'
  BY <1>1, <1>2, <1>3, ReconcileKeepsScope
<1> QED
  BY <1>4, <1>5 DEF Inv

LEMMA RegisterReceiptInv ==
  ASSUME Inv, NEW o \in Orders, NEW p \in Products, NEW n \in Quantities,
         RegisterReceipt(o, p, n)
  PROVE  Inv'
<1> DEFINE ord == [ordered EXCEPT ![o][p] = 0]
<1>1. /\ stock' = [stock EXCEPT ![p] = @ + n]
      /\ Reconcile(o, status, required, stock', ord)
      /\ UNCHANGED <<mechanic, sent, required, loose, withdrawals, fulfilled>>
  BY DEF RegisterReceipt
<1>2. n \in Nat
  BY BoundsAssumption DEF Quantities
<1>3. Rows(o, status, required, stock', ord)
  BY <1>1, <1>2 DEF Inv, TypeOK, Rows, StatusColumn, Table, Shelf
<1>4. Unstarted(o, status, required)
  BY DEF Unstarted
<1>5. TypeOK'
  BY <1>1, <1>3, ReconcileStep DEF Inv, TypeOK, Rows, StatusColumn, Table, Shelf
<1>6. ScopeRespected' /\ RowsOfStartedOrders'
  BY <1>1, <1>3, <1>4, ReconcileKeepsScope
<1> QED
  BY <1>5, <1>6 DEF Inv

\* Actions that touch neither an OS nor a withdrawal keep the invariant: the
\* purchase requests, the receipts without OS and the stock corrections.
LEMMA ShelfInv ==
  ASSUME Inv, stock' \in Shelf, ordered' \in Table, loose' \in Shelf,
         UNCHANGED <<status, mechanic, sent, required, reserved, withdrawals,
                     fulfilled>>
  PROVE  Inv'
<1>1. TypeOK'
  BY DEF Inv, TypeOK, Shelf, Table
<1>2. ScopeRespected'
  BY DEF Inv, ScopeRespected
<1>3. RowsOfStartedOrders'
  BY DEF Inv, RowsOfStartedOrders
<1> QED
  BY <1>1, <1>2, <1>3 DEF Inv

LEMMA RequestPurchaseInv ==
  ASSUME Inv, NEW o \in Orders, NEW p \in Products, NEW n \in Quantities,
         RequestPurchase(o, p, n)
  PROVE  Inv'
<1>1. n \in Nat
  BY BoundsAssumption DEF Quantities
<1>2. ordered' \in Table
  BY <1>1 DEF RequestPurchase, Inv, TypeOK, Table
<1> QED
  BY <1>2, ShelfInv DEF RequestPurchase, Inv, TypeOK, Shelf

LEMMA RequestLoosePurchaseInv ==
  ASSUME Inv, NEW p \in Products, RequestLoosePurchase(p)
  PROVE  Inv'
<1>1. loose' \in Shelf
  BY DEF RequestLoosePurchase, Inv, TypeOK, Shelf
<1> QED
  BY <1>1, ShelfInv DEF RequestLoosePurchase, Inv, TypeOK, Shelf, Table

LEMMA RegisterLooseReceiptInv ==
  ASSUME Inv, NEW p \in Products, NEW n \in Quantities, RegisterLooseReceipt(p, n)
  PROVE  Inv'
<1>1. n \in Nat
  BY BoundsAssumption DEF Quantities
<1>2. stock' \in Shelf /\ loose' \in Shelf
  BY <1>1 DEF RegisterLooseReceipt, Inv, TypeOK, Shelf
<1> QED
  BY <1>2, ShelfInv DEF RegisterLooseReceipt, Inv, TypeOK, Table

LEMMA WriteStockInv ==
  ASSUME Inv, NEW p \in Products, NEW n \in 0 .. MaxStock, WriteStock(p, n)
  PROVE  Inv'
<1>1. stock' \in Shelf
  BY BoundsAssumption DEF WriteStock, Inv, TypeOK, Shelf
<1> QED
  BY <1>1, ShelfInv DEF WriteStock, Inv, TypeOK, Shelf, Table

\* Moving an OS between statuses before the start keeps the invariant.
LEMMA UnstartedMoveInv ==
  ASSUME Inv, status' \in StatusColumn,
         \A q \in Orders : \/ status'[q] = status[q]
                           \/ {status[q], status'[q]} \cap Started = {},
         mechanic' \in [Orders -> BOOLEAN], sent' \in [Orders -> Nat],
         UNCHANGED <<stock, required, reserved, ordered, loose, withdrawals,
                     fulfilled>>
  PROVE  Inv'
<1>1. TypeOK'
  BY DEF Inv, TypeOK, StatusColumn
<1>2. ScopeRespected'
  BY StatusFacts DEF Inv, ScopeRespected
<1>3. RowsOfStartedOrders'
  BY DEF Inv, TypeOK, WithdrawalRow, RowsOfStartedOrders
<1> QED
  BY <1>1, <1>2, <1>3 DEF Inv

LEMMA AssignMechanicInv ==
  ASSUME Inv, NEW o \in Orders, AssignMechanic(o)
  PROVE  Inv'
<1>1. /\ status' \in StatusColumn
      /\ \A q \in Orders : \/ status'[q] = status[q]
                           \/ {status[q], status'[q]} \cap Started = {}
  BY DEF AssignMechanic, Inv, TypeOK, StatusColumn, Statuses, Started
<1>2. mechanic' \in [Orders -> BOOLEAN]
  BY DEF AssignMechanic, Inv, TypeOK
<1> QED
  BY <1>1, <1>2, UnstartedMoveInv DEF AssignMechanic, Inv, TypeOK

LEMMA OverrideStatusInv ==
  ASSUME Inv, NEW o \in Orders, NEW to \in BreakGlass, OverrideStatus(o, to)
  PROVE  Inv'
<1>1. /\ status' \in StatusColumn
      /\ \A q \in Orders : \/ status'[q] = status[q]
                           \/ {status[q], status'[q]} \cap Started = {}
  BY StatusFacts DEF OverrideStatus, Inv, TypeOK, StatusColumn
<1>2. sent' \in [Orders -> Nat]
  <2>1. sent[o] \in Nat /\ sent \in [Orders -> Nat] /\ Less(sent[o], 1) \in Nat
    BY DEF Inv, TypeOK, Less
  <2> QED
    BY <2>1 DEF OverrideStatus
<1> QED
  BY <1>1, <1>2, UnstartedMoveInv DEF OverrideStatus, Inv, TypeOK

LEMMA StartServiceInv ==
  ASSUME Inv, NEW o \in Orders, StartService(o)
  PROVE  Inv'
<1>1. /\ status[o] = "AGUARDANDO_INICIO"
      /\ status' = [status EXCEPT ![o] = "EM_EXECUCAO"]
      /\ UNCHANGED <<stock, mechanic, sent, required, reserved, ordered, loose,
                     withdrawals, fulfilled>>
  BY DEF StartService
<1>2. TypeOK'
  BY <1>1 DEF Inv, TypeOK, Statuses
<1>3. ScopeRespected'
  BY <1>1 DEF Inv, TypeOK, ScopeRespected, Started, Closed
<1>4. RowsOfStartedOrders'
  BY <1>1 DEF Inv, TypeOK, WithdrawalRow, RowsOfStartedOrders, Started
<1> QED
  BY <1>2, <1>3, <1>4 DEF Inv

\* Withdrawal rows of started OSs come and go without harm.
LEMMA RowsInv ==
  ASSUME Inv, withdrawals' \subseteq WithdrawalRow,
         \A w \in withdrawals' : status[w.os] \in Started,
         UNCHANGED <<stock, status, mechanic, sent, required, reserved, ordered,
                     loose, fulfilled>>
  PROVE  Inv'
<1>1. TypeOK'
  BY DEF Inv, TypeOK
<1>2. ScopeRespected'
  BY DEF Inv, ScopeRespected
<1>3. RowsOfStartedOrders'
  BY DEF RowsOfStartedOrders
<1> QED
  BY <1>1, <1>2, <1>3 DEF Inv

LEMMA RequestWithdrawalInv ==
  ASSUME Inv, NEW o \in Orders, NEW p \in Products, NEW n \in Quantities,
         NEW id \in RowIds, RequestWithdrawal(o, p, n, id)
  PROVE  Inv'
<1> DEFINE row == [id |-> id, os |-> o, product |-> p, quantity |-> n,
                   state |-> "SENDING"]
<1>1. row \in WithdrawalRow
  BY BoundsAssumption DEF WithdrawalRow, Quantities
<1>2. /\ withdrawals' = withdrawals \cup {row}
      /\ status[row.os] \in Started
      /\ UNCHANGED <<stock, status, mechanic, sent, required, reserved, ordered,
                     loose, fulfilled>>
  BY DEF RequestWithdrawal, Started
<1> QED
  BY <1>1, <1>2, RowsInv DEF Inv, TypeOK, RowsOfStartedOrders

LEMMA CommitWithdrawalInv ==
  ASSUME Inv, NEW w \in withdrawals, CommitWithdrawal(w)
  PROVE  Inv'
<1> DEFINE row == [w EXCEPT !.state = "PENDING"]
<1>1. w \in WithdrawalRow
  BY DEF Inv, TypeOK
<1>2. row \in WithdrawalRow /\ row.os = w.os
  BY <1>1 DEF WithdrawalRow
<1>3. /\ withdrawals' = (withdrawals \ {w}) \cup {row}
      /\ UNCHANGED <<stock, status, mechanic, sent, required, reserved, ordered,
                     loose, fulfilled>>
  BY DEF CommitWithdrawal
<1> QED
  BY <1>2, <1>3, RowsInv DEF Inv, TypeOK, RowsOfStartedOrders

LEMMA RollbackWithdrawalInv ==
  ASSUME Inv, NEW w \in withdrawals, RollbackWithdrawal(w)
  PROVE  Inv'
BY RowsInv DEF RollbackWithdrawal, Inv, TypeOK, RowsOfStartedOrders

LEMMA FulfillWithdrawalInv ==
  ASSUME Inv, NEW w \in withdrawals, FulfillWithdrawal(w)
  PROVE  Inv'
<1> DEFINE o == w.os
           p == w.product
           n == w.quantity
<1>1. /\ o \in Orders /\ p \in Products /\ n \in Nat /\ n > 0
      /\ status[o] \in Started
  BY DEF Inv, TypeOK, WithdrawalRow, RowsOfStartedOrders
<1>2. /\ n <= reserved[o][p]
      /\ n <= stock[p]
      /\ reserved' = [reserved EXCEPT ![o][p] = @ - n]
      /\ stock' = [stock EXCEPT ![p] = @ - n]
      /\ fulfilled' = [fulfilled EXCEPT ![o][p] = @ + n]
      /\ withdrawals' = withdrawals \ {w}
      /\ UNCHANGED <<status, mechanic, sent, required, ordered, loose>>
  BY DEF FulfillWithdrawal
<1> HIDE DEF o, p, n
<1>3. TypeOK'
  <2>1. stock' \in [Products -> Nat]
    BY <1>1, <1>2 DEF Inv, TypeOK
  <2>2. reserved' \in Table /\ fulfilled' \in Table
    BY <1>1, <1>2 DEF Inv, TypeOK, Table
  <2> QED
    BY <1>2, <2>1, <2>2 DEF Inv, TypeOK, Table
<1>4. ScopeRespected'
  <2> SUFFICES ASSUME NEW q \in Orders, NEW r \in Products
               PROVE  /\ fulfilled'[q][r] + reserved'[q][r] <= required[q][r]
                      /\ status[q] \notin Started => fulfilled'[q][r] = 0
                      /\ status[q] \in Closed => fulfilled'[q][r] = required[q][r]
    BY <1>2 DEF ScopeRespected
  <2>1. /\ fulfilled[q][r] \in Nat /\ reserved[q][r] \in Nat /\ required[q][r] \in Nat
        /\ fulfilled[q][r] + reserved[q][r] <= required[q][r]
        /\ status[q] \notin Started => fulfilled[q][r] = 0
        /\ status[q] \in Closed => fulfilled[q][r] = required[q][r]
    BY DEF Inv, TypeOK, ScopeRespected
  <2>2. CASE q = o /\ r = p
    <3>1. /\ fulfilled'[q][r] = fulfilled[q][r] + n
          /\ reserved'[q][r] = reserved[q][r] - n
      BY <1>1, <1>2, <2>2 DEF Inv, TypeOK
    <3> QED
      BY <1>1, <1>2, <2>1, <2>2, <3>1
  <2>3. CASE ~(q = o /\ r = p)
    <3>1. fulfilled'[q][r] = fulfilled[q][r] /\ reserved'[q][r] = reserved[q][r]
      BY <1>1, <1>2, <2>3 DEF Inv, TypeOK
    <3> QED
      BY <2>1, <3>1
  <2> QED
    BY <2>2, <2>3
<1>5. RowsOfStartedOrders'
  BY <1>2 DEF Inv, RowsOfStartedOrders
<1> QED
  BY <1>3, <1>4, <1>5 DEF Inv

\* A finished OS was handed everything it required.
LEMMA FinishServiceInv ==
  ASSUME Inv, NEW o \in Orders, FinishService(o)
  PROVE  Inv' /\ fulfilled[o] = required[o]
<1>1. /\ status[o] = "EM_EXECUCAO"
      /\ status' = [status EXCEPT ![o] = "FINALIZADA"]
      /\ reserved' = [reserved EXCEPT ![o] = Nothing]
      /\ UNCHANGED <<stock, mechanic, sent, required, ordered, loose,
                     withdrawals, fulfilled>>
  BY DEF FinishService
<1>2. \A p \in Products : fulfilled[o][p] = required[o][p]
  <2>1. \A p \in Products :
          /\ fulfilled[o][p] \in Nat /\ reserved[o][p] \in Nat /\ required[o][p] \in Nat
          /\ fulfilled[o][p] + reserved[o][p] <= required[o][p]
    BY DEF Inv, TypeOK, ScopeRespected
  <2>2. \A p \in Products : ~(fulfilled[o][p] < required[o][p])
    BY DEF FinishService, Short
  <2> QED
    BY <2>1, <2>2
<1>3. reserved' \in Table /\ \A p \in Products : reserved'[o][p] = 0
  BY <1>1 DEF Inv, TypeOK, Table, Nothing
<1>4. TypeOK'
  BY <1>1, <1>3 DEF Inv, TypeOK, Table, Statuses
<1>5. ScopeRespected'
  <2> SUFFICES ASSUME NEW q \in Orders, NEW p \in Products
               PROVE  /\ fulfilled[q][p] + reserved'[q][p] <= required[q][p]
                      /\ status'[q] \notin Started => fulfilled[q][p] = 0
                      /\ status'[q] \in Closed => fulfilled[q][p] = required[q][p]
    BY <1>1 DEF ScopeRespected
  <2>1. CASE q = o
    BY <1>1, <1>2, <1>3, <2>1 DEF Inv, TypeOK, Started
  <2>2. CASE q # o
    BY <1>1, <2>2 DEF Inv, TypeOK, ScopeRespected
  <2> QED
    BY <2>1, <2>2
<1>6. RowsOfStartedOrders'
  BY <1>1 DEF Inv, TypeOK, WithdrawalRow, RowsOfStartedOrders, Started
<1>7. fulfilled[o] = required[o]
  BY <1>2 DEF Inv, TypeOK
<1> QED
  BY <1>4, <1>5, <1>6, <1>7 DEF Inv

LEMMA DeliverInv ==
  ASSUME Inv, NEW o \in Orders, Deliver(o)
  PROVE  Inv'
<1>1. /\ status[o] = "FINALIZADA"
      /\ status' = [status EXCEPT ![o] = "ENTREGUE"]
      /\ UNCHANGED <<stock, mechanic, sent, required, reserved, ordered, loose,
                     withdrawals, fulfilled>>
  BY DEF Deliver
<1>2. TypeOK'
  BY <1>1 DEF Inv, TypeOK, Statuses
<1>3. ScopeRespected'
  BY <1>1 DEF Inv, TypeOK, ScopeRespected, Started, Closed
<1>4. RowsOfStartedOrders'
  BY <1>1 DEF Inv, TypeOK, WithdrawalRow, RowsOfStartedOrders, Started
<1> QED
  BY <1>2, <1>3, <1>4 DEF Inv

LEMMA NextInv == Inv /\ [Next]_vars => Inv'
<1> SUFFICES ASSUME Inv, [Next]_vars PROVE Inv'
  OBVIOUS
<1>1. ASSUME NEW o \in Orders, OrderNext(o) PROVE Inv'
  BY <1>1, ApproveBudgetInv, SendRevisionInv, ApproveRevisionInv,
     RejectRevisionInv, ReconcileOrderInv, RequestPurchaseInv,
     RegisterReceiptInv, AssignMechanicInv, OverrideStatusInv,
     StartServiceInv, RequestWithdrawalInv, FinishServiceInv, DeliverInv
  DEF OrderNext
<1>2. ASSUME NEW p \in Products, StockNext(p) PROVE Inv'
  BY <1>2, RequestLoosePurchaseInv, RegisterLooseReceiptInv, WriteStockInv
  DEF StockNext
<1>3. ASSUME NEW w \in withdrawals, WithdrawalNext(w) PROVE Inv'
  BY <1>3, CommitWithdrawalInv, RollbackWithdrawalInv, FulfillWithdrawalInv
  DEF WithdrawalNext
<1>4. CASE UNCHANGED vars
  BY <1>4 DEF vars, Inv, TypeOK, ScopeRespected, RowsOfStartedOrders
<1>5. CASE Next
  BY <1>1, <1>2, <1>3, <1>5 DEF Next
<1> QED
  BY <1>4, <1>5

\* The inductive invariant holds in every reachable state.
THEOREM Invariance == Spec => []Inv
BY InitInv, NextInv, PTL DEF Spec

\* Every column holds values of its type.
THEOREM TypeCorrect == Spec => []TypeOK
<1>1. Inv => TypeOK
  BY DEF Inv
<1> QED
  BY <1>1, Invariance, PTL

\* What an OS holds and was handed stays within its approved scope, nothing is
\* handed over before the start, and a finished OS got exactly its parts.
THEOREM ScopeAlwaysRespected == Spec => []ScopeRespected
<1>1. Inv => ScopeRespected
  BY DEF Inv
<1> QED
  BY <1>1, Invariance, PTL

-----------------------------------------------------------------------------
(***************************************************************************)
(* First come, first served.                                               *)
(***************************************************************************)

\* What each of the orders an order may be behind is owed.
Served(o, p) ==
  \A q \in Ahead(Orders, o) :
    status'[q] \in Reservable => reserved'[q][p] >= required'[q][p]

\* A reconciliation that gives an OS more of a product serves those ahead.
LEMMA ReconcileServes ==
  ASSUME Inv, NEW k, NEW st, NEW req, NEW stk, NEW ord,
         Rows(k, st, req, stk, ord), Reconcile(k, st, req, stk, ord),
         required' = req,
         NEW o \in Orders, NEW p \in Products,
         reserved'[o][p] > reserved[o][p]
  PROVE  Served(o, p)
<1> DEFINE queue == Queue(st, req, p)
           here == Available(st, req, stk, p)
           got(q) == Granted(Column(req, p), queue, here, q)
<1>1. reserved[o][p] \in Nat /\ req[o][p] \in Nat /\ req[k][p] \in Nat
  BY DEF Inv, TypeOK, Rows, Table
<1>2. st[k] \in Reservable
  <2> SUFFICES ASSUME st[k] \notin Reservable PROVE FALSE
    OBVIOUS
  <2>1. reserved' = [reserved EXCEPT ![k] = Nothing]
    BY DEF Reconcile, Release
  <2> QED
    BY <1>1, <2>1 DEF Nothing, Inv, TypeOK
<1>3. reserved' = Allocation(k, st, req, stk)
  BY <1>2 DEF Reconcile
<1>4. req[k][p] > 0 /\ o \in queue /\ reserved'[o][p] = got(o)
  <2>1. Allocation(k, st, req, stk)[o][p] =
          CASE req[k][p] > 0 /\ o \in queue -> got(o)
            [] req[k][p] = 0 /\ o = k -> 0
            [] OTHER -> reserved[o][p]
    BY DEF Allocation
  <2> HIDE DEF queue, got
  <2>2. ~(req[k][p] = 0 /\ o = k)
    BY <1>1, <1>3, <2>1
  <2>3. req[k][p] > 0 /\ o \in queue
    BY <1>1, <1>3, <2>1, <2>2
  <2> QED
    BY <1>3, <2>1, <2>3
<1>5. Waiting(Column(req, p), queue, here)
  BY QueueType DEF Inv
<1> HIDE DEF queue, here
<1>6. SUFFICES ASSUME NEW q \in Ahead(Orders, o), status'[q] \in Reservable
               PROVE  reserved'[q][p] >= req[q][p]
  BY DEF Served
<1>7. q \in Orders /\ q < o
  BY DEF Ahead
<1>8. st[q] \in Reservable
  BY <1>6, <1>7, ReconcileStep DEF Inv
<1>9. reserved'[q][p] \in Nat /\ req[q][p] \in Nat
  BY <1>7, ReconcileStep DEF Inv, Rows, Table
<1>10. CASE req[q][p] = 0
  BY <1>9, <1>10
<1>11. CASE req[q][p] > 0
  <2>1. q \in queue
    BY <1>7, <1>8, <1>11 DEF queue, Queue
  <2>2. got(o) > 0
    <3>1. got(o) \in Nat
      BY <1>4, <1>5, GrantedType
    <3> QED
      BY <1>1, <1>4, <3>1
  <2>3. got(q) = Column(req, p)[q]
    BY <1>4, <1>5, <1>7, <2>1, <2>2, ServedInOrder
  <2>4. reserved'[q][p] = got(q)
    BY <1>3, <1>4, <1>7, <2>1 DEF Allocation, queue, here
  <2> QED
    BY <1>7, <1>9, <2>3, <2>4 DEF Column
<1> QED
  BY <1>9, <1>10, <1>11

\* Units are reserved by reconciliations only.
LEMMA OnlyReconciliationsGive ==
  ASSUME Inv, [Next]_vars, NEW o \in Orders, NEW p \in Products,
         reserved'[o][p] > reserved[o][p]
  PROVE  \E k \in Orders, st \in StatusColumn, stk \in Shelf, ord \in Table :
           Rows(k, st, required', stk, ord) /\ Reconcile(k, st, required', stk, ord)
<1> DEFINE Given == \E k \in Orders, st \in StatusColumn, stk \in Shelf, ord \in Table :
                      Rows(k, st, required', stk, ord) /\ Reconcile(k, st, required', stk, ord)
<1>0. ASSUME NEW k \in Orders, NEW st, NEW stk, NEW ord,
             Rows(k, st, required', stk, ord), Reconcile(k, st, required', stk, ord)
      PROVE  Given
  BY <1>0 DEF Rows
<1> HIDE DEF Given
<1>1. reserved[o][p] \in Nat
  BY DEF Inv, TypeOK
<1>2. ASSUME UNCHANGED reserved PROVE FALSE
  BY <1>1, <1>2
<1>3. ASSUME NEW k \in Orders, reserved' = [reserved EXCEPT ![k] = Nothing]
      PROVE  FALSE
  BY <1>1, <1>3 DEF Nothing, Inv, TypeOK
<1>4. ASSUME Next PROVE Given
  <2>1. ASSUME NEW k \in Orders, OrderNext(k) PROVE Given
    <3>1. ASSUME NEW lines \in Scopes, ApproveBudget(k, lines) PROVE Given
      <4>1. Rows(k, [status EXCEPT ![k] = "AGUARDANDO_INICIO"], required', stock, ordered)
        BY <3>1, ScopesAssumption
        DEF ApproveBudget, Inv, TypeOK, Rows, StatusColumn, Table, Shelf, Statuses
      <4> QED
        BY <3>1, <4>1, <1>0 DEF ApproveBudget
    <3>2. ASSUME NEW lines \in Scopes, ApproveRevision(k, lines) PROVE Given
      <4> DEFINE st == [status EXCEPT ![k] = Approved(@)]
      <4>1. Rows(k, st, required', stock, ordered)
        BY <3>2, ScopesAssumption
        DEF ApproveRevision, Inv, TypeOK, Rows, StatusColumn, Table, Shelf, Statuses
      <4> QED
        BY <3>2, <4>1, <1>0 DEF ApproveRevision
    <3>3. ASSUME ReconcileOrder(k) PROVE Given
      <4>1. Rows(k, status, required, stock, ordered)
        BY DEF Inv, TypeOK, Rows, StatusColumn, Table, Shelf
      <4> QED
        BY <3>3, <4>1, <1>0 DEF ReconcileOrder
    <3>4. ASSUME NEW r \in Products, NEW n \in Quantities, RegisterReceipt(k, r, n)
          PROVE  Given
      <4>1. n \in Nat
        BY BoundsAssumption DEF Quantities
      <4>2. Rows(k, status, required, stock', [ordered EXCEPT ![k][r] = 0])
        BY <3>4, <4>1
        DEF RegisterReceipt, Inv, TypeOK, Rows, StatusColumn, Table, Shelf
      <4> QED
        BY <3>4, <4>2, <1>0 DEF RegisterReceipt
    <3>5. ASSUME SendRevision(k) \/ RejectRevision(k) \/ FinishService(k) PROVE FALSE
      BY <1>3, <3>5 DEF SendRevision, RejectRevision, FinishService, Release
    <3>6. ASSUME NEW r \in Products, NEW n \in Quantities,
                 \/ RequestPurchase(k, r, n)
                 \/ \E id \in RowIds : RequestWithdrawal(k, r, n, id)
          PROVE  FALSE
      BY <1>2, <3>6 DEF RequestPurchase, RequestWithdrawal
    <3>7. ASSUME \/ AssignMechanic(k)
                 \/ \E to \in BreakGlass : OverrideStatus(k, to)
                 \/ StartService(k)
                 \/ Deliver(k)
          PROVE  FALSE
      BY <1>2, <3>7 DEF AssignMechanic, OverrideStatus, StartService, Deliver
    <3> QED
      BY <2>1, <3>1, <3>2, <3>3, <3>4, <3>5, <3>6, <3>7 DEF OrderNext
  <2>2. ASSUME NEW r \in Products, StockNext(r) PROVE FALSE
    BY <1>2, <2>2
    DEF StockNext, RequestLoosePurchase, RegisterLooseReceipt, WriteStock
  <2>3. ASSUME NEW w \in withdrawals, WithdrawalNext(w) PROVE FALSE
    <3>1. CASE CommitWithdrawal(w) \/ RollbackWithdrawal(w)
      BY <1>2, <3>1 DEF CommitWithdrawal, RollbackWithdrawal
    <3>2. CASE FulfillWithdrawal(w)
      <4>1. /\ w.os \in Orders /\ w.product \in Products /\ w.quantity \in Nat
            /\ reserved \in [Orders -> [Products -> Nat]]
        BY DEF Inv, TypeOK, WithdrawalRow
      <4>2. reserved' = [reserved EXCEPT ![w.os][w.product] = @ - w.quantity]
        BY <3>2 DEF FulfillWithdrawal
      <4>3. reserved'[o][p] <= reserved[o][p]
        BY <4>1, <4>2
      <4>4. reserved'[o][p] \in Int
        BY <4>1, <4>2
      <4> QED
        BY <1>1, <4>3, <4>4
    <3> QED
      BY <2>3, <3>1, <3>2 DEF WithdrawalNext
  <2> QED
    BY <1>4, <2>1, <2>2, <2>3 DEF Next
<1>5. ASSUME UNCHANGED vars PROVE Given
  BY <1>2, <1>5 DEF vars
<1>6. Given
  BY <1>4, <1>5
<1> QED
  BY <1>6 DEF Given

\* Whoever is given units of a product competes with no older OS that lacks
\* some: only reconciliations give units, and they serve the queue in order.
THEOREM ServesFirstComeFirst == Spec => FirstComeFirstServed
<1>1. ASSUME Inv, [Next]_vars, NEW o \in Orders, NEW p \in Products,
             reserved'[o][p] > reserved[o][p]
      PROVE  Served(o, p)
  <2>1. PICK k \in Orders, st \in StatusColumn, stk \in Shelf, ord \in Table :
          Rows(k, st, required', stk, ord) /\ Reconcile(k, st, required', stk, ord)
    BY <1>1, OnlyReconciliationsGive
  <2> QED
    BY <1>1, <2>1, ReconcileServes
<1>2. Inv /\ [Next]_vars
        => [\A o \in Orders, p \in Products :
              reserved'[o][p] > reserved[o][p] =>
                \A q \in Ahead(Orders, o) :
                  status'[q] \in Reservable => reserved'[q][p] >= required'[q][p]]_vars
  BY <1>1 DEF Served
<1> QED
  BY <1>2, Invariance, PTL DEF Spec, FirstComeFirstServed

-----------------------------------------------------------------------------
(***************************************************************************)
(* Who loses units to another OS.                                          *)
(***************************************************************************)

\* What the loser of a reconciliation is left with.
LEMMA ReconcilePreempts ==
  ASSUME Inv, NEW k, NEW st, NEW req, NEW stk, NEW ord,
         Rows(k, st, req, stk, ord), Reconcile(k, st, req, stk, ord),
         NEW o \in Orders, NEW q \in Orders, NEW p \in Products,
         reserved'[o][p] < reserved[o][p], reserved'[q][p] > reserved[q][p]
  PROVE  \/ reserved'[o][p] = req[o][p]
         \/ /\ q < o
            /\ status'[o] = "AGUARDANDO_COMPRA"
            /\ ordered'[o][p] + reserved'[o][p] = req[o][p]
<1> DEFINE queue == Queue(st, req, p)
           here == Available(st, req, stk, p)
           got(x) == Granted(Column(req, p), queue, here, x)
<1>1. /\ \A x \in Orders : reserved[x][p] \in Nat /\ req[x][p] \in Nat
      /\ k \in Orders
  BY DEF Inv, TypeOK, Rows, Table
<1>2. st[k] \in Reservable
  <2> SUFFICES ASSUME st[k] \notin Reservable PROVE FALSE
    OBVIOUS
  <2>1. reserved' = [reserved EXCEPT ![k] = Nothing]
    BY DEF Reconcile, Release
  <2> QED
    BY <1>1, <2>1 DEF Nothing, Inv, TypeOK
<1>3. /\ reserved' = Allocation(k, st, req, stk)
      /\ ordered' = Backorders(k, st, req, ord, reserved')
      /\ status' = Refreshed(k, st, req, reserved')
  BY <1>2 DEF Reconcile
<1>4. \A x \in Orders :
        reserved'[x][p] = CASE req[k][p] > 0 /\ x \in queue -> got(x)
                            [] req[k][p] = 0 /\ x = k -> 0
                            [] OTHER -> reserved[x][p]
  BY <1>3 DEF Allocation
<1>5. Waiting(Column(req, p), queue, here)
  BY QueueType DEF Inv
<1>6. o # q
  BY <1>1, ReconcileStep DEF Inv, Table
<1> HIDE DEF queue, here, got
<1>7. req[k][p] > 0 /\ q \in queue
  BY <1>1, <1>4
<1>8. o \in queue
  BY <1>1, <1>4, <1>7
<1>9. reserved'[o][p] = got(o) /\ reserved'[q][p] = got(q)
  BY <1>4, <1>7, <1>8
<1>10. got(o) \in Nat /\ got(o) <= req[o][p] /\ got(q) \in Nat
  BY <1>5, <1>7, <1>8, GrantedType DEF got, Column
<1>11. got(q) > 0
  BY <1>1, <1>9, <1>10
<1>12. CASE got(o) < req[o][p]
  <2>1. ~(o < q)
    <3> SUFFICES ASSUME o < q PROVE FALSE
      OBVIOUS
    <3>1. got(o) = Column(req, p)[o]
      BY <1>5, <1>7, <1>8, <1>11, ServedInOrder DEF got
    <3> QED
      BY <1>10, <1>12, <3>1, <1>1 DEF Column
  <2>2. q < o
    BY <1>6, <2>1, OrdersAssumption
  <2>3. Short(o, req, reserved')
    BY <1>9, <1>12 DEF Short
  <2>4. status'[o] = "AGUARDANDO_COMPRA"
    BY <1>3, <1>7, <1>8, <2>3 DEF Refreshed, queue
  <2>5. ordered'[o][p] = Less(req[o][p], reserved'[o][p])
    BY <1>3, <1>7, <1>8 DEF Backorders, queue
  <2>6. ordered'[o][p] + reserved'[o][p] = req[o][p]
    BY <1>1, <1>9, <1>10, <2>5 DEF Less
  <2> QED
    BY <2>2, <2>4, <2>6
<1> QED
  BY <1>1, <1>9, <1>10, <1>12

\* _reconcile_product_queue: whoever loses units of a product to another OS has
\* all it needs, or is behind it, waits, and has what it lacks back on order.
THEOREM LosersAreBackordered == Spec => PreemptionLeavesBackorder
<1>1. ASSUME Inv, [Next]_vars, NEW o \in Orders, NEW q \in Orders, NEW p \in Products,
             reserved'[o][p] < reserved[o][p], reserved'[q][p] > reserved[q][p]
      PROVE  \/ reserved'[o][p] = required'[o][p]
             \/ /\ q < o
                /\ status'[o] = "AGUARDANDO_COMPRA"
                /\ ordered'[o][p] + reserved'[o][p] = required'[o][p]
  <2>1. PICK k \in Orders, st \in StatusColumn, stk \in Shelf, ord \in Table :
          Rows(k, st, required', stk, ord) /\ Reconcile(k, st, required', stk, ord)
    BY <1>1, OnlyReconciliationsGive
  <2> QED
    BY <1>1, <2>1, ReconcilePreempts
<1>2. Inv /\ [Next]_vars =>
        [\A o, q \in Orders, p \in Products :
           reserved'[o][p] < reserved[o][p] /\ reserved'[q][p] > reserved[q][p] =>
             \/ reserved'[o][p] = required'[o][p]
             \/ /\ q < o
                /\ status'[o] = "AGUARDANDO_COMPRA"
                /\ ordered'[o][p] + reserved'[o][p] = required'[o][p]]_vars
  BY <1>1
<1> QED
  BY <1>2, Invariance, PTL DEF Spec, PreemptionLeavesBackorder

-----------------------------------------------------------------------------
(***************************************************************************)
(* Statuses and purchase requests of the OSs that wait.                    *)
(***************************************************************************)

\* Settled, of the rows a reconciliation works on.
SettledIn(q, st, req, held, ord) ==
  /\ st[q] = "AGUARDANDO_COMPRA" <=> Short(q, req, held)
  /\ \A p \in Products : ord[q][p] >= Less(req[q][p], held[q][p])

\* An OS that is reconciled is settled, and so is whoever competes with it; the
\* others stay as they were.
LEMMA ReconcileSettles ==
  ASSUME Inv, NEW k, NEW st, NEW req, NEW stk, NEW ord,
         Rows(k, st, req, stk, ord), Reconcile(k, st, req, stk, ord),
         required' = req,
         \A q \in Orders \ {k} : st[q] \in Reservable => SettledIn(q, st, req, reserved, ord)
  PROVE  WaitingOrdersSettled'
<1>1. /\ k \in Orders /\ reserved' \in Table /\ ordered' \in Table /\ req \in Table
      /\ reserved \in Table /\ ord \in Table /\ st \in StatusColumn
  BY ReconcileStep DEF Inv, TypeOK, Rows, Table
<1>2. SUFFICES ASSUME NEW q \in Orders, status'[q] \in Reservable
               PROVE  SettledIn(q, status', req, reserved', ordered')
  BY DEF WaitingOrdersSettled, Settled, SettledIn, Short
<1>3. st[q] \in Reservable
  BY <1>2, ReconcileStep DEF Inv
<1>4. CASE st[k] \notin Reservable
  <2>1. q # k
    BY <1>3, <1>4
  <2>2. /\ status' = st
        /\ reserved' = [reserved EXCEPT ![k] = Nothing]
        /\ ordered' = [ord EXCEPT ![k] = Nothing]
    BY <1>4 DEF Reconcile, Release
  <2>3. reserved'[q] = reserved[q] /\ ordered'[q] = ord[q]
    BY <1>1, <2>1, <2>2 DEF Table
  <2> QED
    BY <1>3, <2>1, <2>2, <2>3 DEF SettledIn, Short
<1>5. CASE st[k] \in Reservable
  <2>1. /\ reserved' = Allocation(k, st, req, stk)
        /\ ordered' = Backorders(k, st, req, ord, reserved')
        /\ status' = Refreshed(k, st, req, reserved')
    BY <1>5 DEF Reconcile
  <2>2. ASSUME NEW p \in Products, req[k][p] > 0, q \in Queue(st, req, p)
        PROVE  ordered'[q][p] = Less(req[q][p], reserved'[q][p])
    BY <2>1, <2>2 DEF Backorders
  <2>3. ASSUME NEW p \in Products, ~(req[k][p] > 0 /\ q \in Queue(st, req, p))
        PROVE  ordered'[q][p] = ord[q][p]
    BY <2>1, <2>3 DEF Backorders
  <2>4. ASSUME NEW p \in Products, ~(req[k][p] > 0 /\ q \in Queue(st, req, p)), q # k
        PROVE  reserved'[q][p] = reserved[q][p]
    BY <2>1, <2>4, <1>1 DEF Allocation
  <2>5. CASE q = k
    <3>1. status'[q] = WaitingFor(Short(q, req, reserved'))
      BY <2>1, <2>5 DEF Refreshed
    <3>2. ASSUME NEW p \in Products
          PROVE  ordered'[q][p] >= Less(req[q][p], reserved'[q][p])
      <4>1. /\ req[q][p] \in Nat /\ reserved'[q][p] \in Nat /\ ordered'[q][p] \in Nat
        BY <1>1 DEF Table
      <4>2. CASE req[q][p] > 0
        <5>1. q \in Queue(st, req, p)
          BY <1>3, <4>2 DEF Queue
        <5> QED
          BY <2>2, <2>5, <4>1, <4>2, <5>1 DEF Less
      <4>3. CASE req[q][p] = 0
        BY <4>1, <4>3 DEF Less
      <4> QED
        BY <4>1, <4>2, <4>3
    <3> QED
      BY <3>1, <3>2 DEF SettledIn
  <2>6. CASE q # k
    <3>1. SettledIn(q, st, req, reserved, ord)
      BY <1>3, <2>6
    <3>2. ASSUME NEW p \in Products
          PROVE  ordered'[q][p] >= Less(req[q][p], reserved'[q][p])
      <4>1. /\ req[q][p] \in Nat /\ reserved'[q][p] \in Nat /\ ordered'[q][p] \in Nat
        BY <1>1 DEF Table
      <4>2. CASE req[k][p] > 0 /\ q \in Queue(st, req, p)
        BY <2>2, <4>1, <4>2 DEF Less
      <4>3. CASE ~(req[k][p] > 0 /\ q \in Queue(st, req, p))
        BY <2>3, <2>4, <2>6, <3>1, <4>3 DEF SettledIn
      <4> QED
        BY <4>2, <4>3
    <3>3. CASE \E p \in Products : req[k][p] > 0 /\ q \in Queue(st, req, p)
      <4>1. status'[q] = WaitingFor(Short(q, req, reserved'))
        BY <2>1, <3>3 DEF Refreshed
      <4> QED
        BY <3>2, <4>1 DEF SettledIn
    <3>4. CASE ~\E p \in Products : req[k][p] > 0 /\ q \in Queue(st, req, p)
      <4>1. status'[q] = st[q]
        BY <2>1, <2>6, <3>4 DEF Refreshed
      <4>2. Short(q, req, reserved') <=> Short(q, req, reserved)
        BY <2>4, <2>6, <3>4 DEF Short
      <4> QED
        BY <3>1, <3>2, <4>1, <4>2 DEF SettledIn
    <3> QED
      BY <3>3, <3>4
  <2> QED
    BY <2>5, <2>6
<1> QED
  BY <1>4, <1>5

\* A step that leaves the waiting OSs, what they hold and require, and at least
\* what they have on order.
LEMMA SettledKept ==
  ASSUME WaitingOrdersSettled,
         \A q \in Orders : status'[q] \in Reservable =>
           /\ status'[q] = status[q] /\ required'[q] = required[q]
           /\ reserved'[q] = reserved[q]
           /\ \A p \in Products :
                /\ ordered[q][p] \in Nat /\ ordered'[q][p] \in Nat
                /\ ordered'[q][p] >= ordered[q][p]
                /\ Less(required[q][p], reserved[q][p]) \in Nat
  PROVE  WaitingOrdersSettled'
<1> SUFFICES ASSUME NEW q \in Orders, status'[q] \in Reservable
             PROVE  Settled(q)'
  BY DEF WaitingOrdersSettled
<1>1. Settled(q)
  BY DEF WaitingOrdersSettled
<1>2. status'[q] = "AGUARDANDO_COMPRA" <=> Short(q, required', reserved')
  BY <1>1 DEF Settled, Short
<1>3. \A p \in Products : ordered'[q][p] >= Less(required'[q][p], reserved'[q][p])
  <2> SUFFICES ASSUME NEW p \in Products
               PROVE  ordered'[q][p] >= Less(required'[q][p], reserved'[q][p])
    OBVIOUS
  <2>1. ordered[q][p] >= Less(required[q][p], reserved[q][p])
    BY <1>1 DEF Settled
  <2>2. Less(required'[q][p], reserved'[q][p]) = Less(required[q][p], reserved[q][p])
    OBVIOUS
  <2> QED
    BY <2>1, <2>2
<1> QED
  BY <1>2, <1>3 DEF Settled

\* The office sends no revision and overrides no status.
Undisturbed == Interventions \cap {"OVERRIDE", "REVISION"} = {}

LEMMA SettledStep ==
  ASSUME Undisturbed, Inv, Inv', WaitingOrdersSettled, [Next]_vars
  PROVE  WaitingOrdersSettled'
<1>1. /\ \A q \in Orders, p \in Products :
           /\ required[q][p] \in Nat /\ reserved[q][p] \in Nat
           /\ ordered[q][p] \in Nat /\ ordered'[q][p] \in Nat
           /\ Less(required[q][p], reserved[q][p]) \in Nat
      /\ status \in StatusColumn /\ required \in Table /\ ordered \in Table
      /\ reserved \in Table /\ stock \in Shelf
  BY DEF Inv, TypeOK, StatusColumn, Table, Shelf, Less
<1>2. \A q \in Orders : status[q] \in Reservable => SettledIn(q, status, required, reserved, ordered)
  BY DEF WaitingOrdersSettled, Settled, SettledIn, Short
<1>3. CASE UNCHANGED <<status, required, reserved, ordered>>
  BY <1>1, <1>3, SettledKept
<1>4. ASSUME NEW k \in Orders, NEW lines \in Scopes, ApproveBudget(k, lines)
      PROVE  WaitingOrdersSettled'
  <2> DEFINE st == [status EXCEPT ![k] = "AGUARDANDO_INICIO"]
  <2>1. required' = [required EXCEPT ![k] = lines] /\ Reconcile(k, st, required', stock, ordered)
    BY <1>4 DEF ApproveBudget
  <2>2. Rows(k, st, required', stock, ordered)
    BY <1>1, <2>1, ScopesAssumption DEF Rows, StatusColumn, Table, Statuses
  <2>3. \A q \in Orders \ {k} : st[q] = status[q] /\ required'[q] = required[q]
    BY <1>1, <2>1 DEF StatusColumn, Table
  <2> HIDE DEF st
  <2>4. \A q \in Orders \ {k} : st[q] \in Reservable =>
          SettledIn(q, st, required', reserved, ordered)
    BY <1>2, <2>3 DEF SettledIn, Short
  <2> QED
    BY <2>1, <2>2, <2>4, ReconcileSettles
<1>5. ASSUME NEW k \in Orders, ReconcileOrder(k)
      PROVE  WaitingOrdersSettled'
  <2>1. Reconcile(k, status, required, stock, ordered) /\ required' = required
    BY <1>5 DEF ReconcileOrder
  <2>2. Rows(k, status, required, stock, ordered)
    BY <1>1 DEF Rows
  <2> QED
    BY <1>2, <2>1, <2>2, ReconcileSettles
<1>6. ASSUME NEW k \in Orders, NEW r \in Products, NEW n \in Quantities, RegisterReceipt(k, r, n)
      PROVE  WaitingOrdersSettled'
  <2> DEFINE ord == [ordered EXCEPT ![k][r] = 0]
  <2>1. /\ stock' = [stock EXCEPT ![r] = @ + n] /\ required' = required /\ n \in Nat
        /\ Reconcile(k, status, required, stock', ord)
    BY <1>6, BoundsAssumption DEF RegisterReceipt, Quantities
  <2>2. Rows(k, status, required, stock', ord)
    BY <1>1, <2>1 DEF Rows, Table, Shelf
  <2>3. \A q \in Orders \ {k} : ord[q] = ordered[q]
    BY <1>1 DEF Table
  <2> HIDE DEF ord
  <2>4. \A q \in Orders \ {k} : status[q] \in Reservable =>
          SettledIn(q, status, required, reserved, ord)
    BY <1>2, <2>3 DEF SettledIn
  <2> QED
    BY <2>1, <2>2, <2>4, ReconcileSettles
<1>7. ASSUME NEW k \in Orders, NEW r \in Products, NEW n \in Quantities, RequestPurchase(k, r, n)
      PROVE  WaitingOrdersSettled'
  <2>1. /\ ordered' = [ordered EXCEPT ![k][r] = @ + n] /\ n \in Nat
        /\ UNCHANGED <<status, required, reserved>>
    BY <1>7, BoundsAssumption DEF RequestPurchase, Quantities
  <2>2. \A q \in Orders, p \in Products : ordered'[q][p] >= ordered[q][p]
    BY <1>1, <2>1 DEF Table
  <2> QED
    BY <1>1, <2>1, <2>2, SettledKept
<1>8. ASSUME NEW k \in Orders, AssignMechanic(k)
      PROVE  WaitingOrdersSettled'
  <2>1. /\ UNCHANGED <<required, reserved, ordered>>
        /\ \A q \in Orders : status'[q] \in Reservable => status'[q] = status[q]
    BY <1>1, <1>8 DEF AssignMechanic, StatusColumn, Reservable
  <2> QED
    BY <1>1, <2>1, SettledKept
<1>9. ASSUME NEW k \in Orders, StartService(k) \/ FinishService(k) \/ Deliver(k)
      PROVE  WaitingOrdersSettled'
  <2>1. /\ UNCHANGED <<required, ordered>>
        /\ \A q \in Orders : status'[q] \in Reservable =>
             status'[q] = status[q] /\ reserved'[q] = reserved[q]
    BY <1>1, <1>9 DEF StartService, FinishService, Deliver, StatusColumn, Table, Reservable
  <2> QED
    BY <1>1, <2>1, SettledKept
<1>10. ASSUME NEW w \in withdrawals, FulfillWithdrawal(w)
       PROVE  WaitingOrdersSettled'
  <2>1. w.os \in Orders /\ status[w.os] \in Started
    BY DEF Inv, TypeOK, WithdrawalRow, RowsOfStartedOrders
  <2>2. /\ UNCHANGED <<status, required, ordered>>
        /\ \A q \in Orders \ {w.os} : reserved'[q] = reserved[q]
    BY <1>1, <1>10, <2>1 DEF FulfillWithdrawal, Table
  <2>3. \A q \in Orders : status'[q] \in Reservable => reserved'[q] = reserved[q]
    BY <2>1, <2>2, StatusFacts
  <2> QED
    BY <1>1, <2>2, <2>3, SettledKept
<1>11. ASSUME NEW k \in Orders, OrderNext(k)
       PROVE  WaitingOrdersSettled'
  <2>1. ASSUME \/ SendRevision(k)
               \/ \E lines \in Scopes : ApproveRevision(k, lines)
               \/ RejectRevision(k)
               \/ \E to \in BreakGlass : OverrideStatus(k, to)
        PROVE  FALSE
    BY <2>1 DEF SendRevision, ApproveRevision, RejectRevision, OverrideStatus, Undisturbed
  <2>2. ASSUME NEW p \in Products, NEW n \in Quantities, NEW id \in RowIds,
               RequestWithdrawal(k, p, n, id)
        PROVE  WaitingOrdersSettled'
    BY <1>3, <2>2 DEF RequestWithdrawal
  <2> QED
    BY <1>4, <1>5, <1>6, <1>7, <1>8, <1>9, <1>11, <2>1, <2>2 DEF OrderNext
<1>12. ASSUME NEW r \in Products, StockNext(r)
       PROVE  WaitingOrdersSettled'
  BY <1>3, <1>12 DEF StockNext, RequestLoosePurchase, RegisterLooseReceipt, WriteStock
<1>13. ASSUME NEW w \in withdrawals, WithdrawalNext(w)
       PROVE  WaitingOrdersSettled'
  BY <1>3, <1>10, <1>13 DEF WithdrawalNext, CommitWithdrawal, RollbackWithdrawal
<1>14. CASE UNCHANGED vars
  BY <1>3, <1>14 DEF vars
<1> QED
  BY <1>11, <1>12, <1>13, <1>14 DEF Next

\* _refresh_queue_statuses and _reconcile_backorder: unless a revision is sent or a
\* status overridden, and whatever else the office does, of an OS that waits
\* every part it lacks is on order in full, and its status tells.
THEOREM WaitingAreSettled ==
  ASSUME Interventions \cap {"OVERRIDE", "REVISION"} = {}
  PROVE  Spec => []WaitingOrdersSettled
<1>1. Init => WaitingOrdersSettled
  BY DEF Init, WaitingOrdersSettled, Reservable, NotCreated
<1>2. Inv /\ Inv' /\ WaitingOrdersSettled /\ [Next]_vars => WaitingOrdersSettled'
  BY SettledStep DEF Undisturbed
<1> QED
  BY <1>1, <1>2, Invariance, PTL DEF Spec

-----------------------------------------------------------------------------
(***************************************************************************)
(* Inventory implements WorkshopJob: every step of the detailed system is  *)
(* a step of the job or leaves it alone.                                   *)
(***************************************************************************)

\* Steps of the job before the start: reconciliations and other moves.
LEMMA PrepareStep ==
  ASSUME Inv, NEW o \in Orders,
         status' \in StatusColumn,
         \A q \in Orders :
           \/ status'[q] = status[q]
           \/ /\ status[q] \in BreakGlass \cup {NotCreated}
              /\ status'[q] \in BreakGlass,
         \/ UNCHANGED required
         \/ \E lines \in Scopes : /\ status'[o] \in BreakGlass
                                  /\ required' = [required EXCEPT ![o] = lines],
         UNCHANGED fulfilled
  PROVE  Job!Prepare
<1>1. status' \in [Orders -> BreakGlass \cup Started \cup {NotCreated}]
  BY DEF StatusColumn, Statuses, BreakGlass, Started
<1> QED
  BY <1>1 DEF Job!Prepare, Job!NotStarted, Job!BreakGlass, Job!Started,
              Job!NotCreated, BreakGlass, Started, NotCreated

\* A reconciliation moves OSs between the two waiting statuses only.
LEMMA ReconcileMoves ==
  ASSUME Inv, NEW o \in Orders, NEW st, NEW req, NEW stk, NEW ord,
         Rows(o, st, req, stk, ord), Reconcile(o, st, req, stk, ord),
         \A q \in Orders : \/ st[q] = status[q]
                           \/ /\ status[q] \in BreakGlass \cup {NotCreated}
                              /\ st[q] \in BreakGlass
  PROVE  /\ status' \in StatusColumn
         /\ \A q \in Orders : \/ status'[q] = status[q]
                              \/ /\ status[q] \in BreakGlass \cup {NotCreated}
                                 /\ status'[q] \in BreakGlass
         /\ st[o] \in Reservable => status'[o] \in Reservable
<1>1. status' \in StatusColumn
  BY ReconcileStep DEF Inv
<1>2. \A q \in Orders : \/ status'[q] = st[q]
                        \/ st[q] \in Reservable /\ status'[q] \in Reservable
  BY ReconcileStep DEF Inv
<1>3. Reservable \subseteq BreakGlass
  BY DEF Reservable, BreakGlass
<1> QED
  BY <1>1, <1>2, <1>3

LEMMA OrderStepImplementsJob ==
  ASSUME Inv, NEW o \in Orders, OrderNext(o)
  PROVE  [Job!JobNext]_Job!jobVars
<1> USE DEF Job!JobNext
<1>1. ASSUME NEW lines \in Scopes, ApproveBudget(o, lines) PROVE Job!Prepare
  <2> DEFINE st == [status EXCEPT ![o] = "AGUARDANDO_INICIO"]
  <2>1. Rows(o, st, required', stock, ordered)
    BY <1>1, ScopesAssumption
    DEF ApproveBudget, Inv, TypeOK, Rows, StatusColumn, Table, Shelf, Statuses
  <2>2. /\ st[o] \in Reservable
        /\ \A q \in Orders : \/ st[q] = status[q]
                             \/ /\ status[q] \in BreakGlass \cup {NotCreated}
                                /\ st[q] \in BreakGlass
    BY <1>1 DEF ApproveBudget, Inv, TypeOK, BreakGlass, Reservable
  <2>3. /\ status' \in StatusColumn
        /\ \A q \in Orders : \/ status'[q] = status[q]
                             \/ /\ status[q] \in BreakGlass \cup {NotCreated}
                                /\ status'[q] \in BreakGlass
        /\ status'[o] \in BreakGlass
    BY <1>1, <2>1, <2>2, ReconcileMoves DEF ApproveBudget, Reservable, BreakGlass
  <2> QED
    BY <1>1, <2>3, PrepareStep DEF ApproveBudget
<1>2. ASSUME SendRevision(o) PROVE Job!Prepare
  <2>1. /\ status' \in StatusColumn
        /\ \A q \in Orders : \/ status'[q] = status[q]
                             \/ /\ status[q] \in BreakGlass \cup {NotCreated}
                                /\ status'[q] \in BreakGlass
    BY <1>2 DEF SendRevision, Inv, TypeOK, StatusColumn, Statuses, BreakGlass
  <2> QED
    BY <1>2, <2>1, PrepareStep DEF SendRevision
<1>3. ASSUME NEW lines \in Scopes, ApproveRevision(o, lines) PROVE Job!Prepare
  <2> DEFINE st == [status EXCEPT ![o] = Approved(@)]
  <2>1. Rows(o, st, required', stock, ordered)
    BY <1>3, ScopesAssumption
    DEF ApproveRevision, Inv, TypeOK, Rows, StatusColumn, Table, Shelf, Statuses
  <2>2. /\ st[o] \in Reservable
        /\ \A q \in Orders : \/ st[q] = status[q]
                             \/ /\ status[q] \in BreakGlass \cup {NotCreated}
                                /\ st[q] \in BreakGlass
    BY <1>3 DEF ApproveRevision, Inv, TypeOK, BreakGlass, Reservable, Revisable
  <2>3. /\ status' \in StatusColumn
        /\ \A q \in Orders : \/ status'[q] = status[q]
                             \/ /\ status[q] \in BreakGlass \cup {NotCreated}
                                /\ status'[q] \in BreakGlass
        /\ status'[o] \in BreakGlass
    BY <1>3, <2>1, <2>2, ReconcileMoves DEF ApproveRevision, Reservable, BreakGlass
  <2> QED
    BY <1>3, <2>3, PrepareStep DEF ApproveRevision
<1>4. ASSUME RejectRevision(o) PROVE Job!Prepare
  <2>1. /\ status' \in StatusColumn
        /\ \A q \in Orders : \/ status'[q] = status[q]
                             \/ /\ status[q] \in BreakGlass \cup {NotCreated}
                                /\ status'[q] \in BreakGlass
    BY <1>4 DEF RejectRevision, Inv, TypeOK, StatusColumn, Statuses, BreakGlass
  <2> QED
    BY <1>4, <2>1, PrepareStep DEF RejectRevision
<1>5. ASSUME ReconcileOrder(o) PROVE Job!Prepare
  <2>1. Rows(o, status, required, stock, ordered)
    BY DEF Inv, TypeOK, Rows, StatusColumn, Table, Shelf
  <2>2. /\ status' \in StatusColumn
        /\ \A q \in Orders : \/ status'[q] = status[q]
                             \/ /\ status[q] \in BreakGlass \cup {NotCreated}
                                /\ status'[q] \in BreakGlass
    BY <1>5, <2>1, ReconcileMoves DEF ReconcileOrder
  <2> QED
    BY <1>5, <2>2, PrepareStep DEF ReconcileOrder
<1>6. ASSUME NEW p \in Products, NEW n \in Quantities, RegisterReceipt(o, p, n)
      PROVE  Job!Prepare
  <2>1. n \in Nat
    BY BoundsAssumption DEF Quantities
  <2>2. Rows(o, status, required, stock', [ordered EXCEPT ![o][p] = 0])
    BY <1>6, <2>1 DEF RegisterReceipt, Inv, TypeOK, Rows, StatusColumn, Table, Shelf
  <2>3. /\ status' \in StatusColumn
        /\ \A q \in Orders : \/ status'[q] = status[q]
                             \/ /\ status[q] \in BreakGlass \cup {NotCreated}
                                /\ status'[q] \in BreakGlass
    BY <1>6, <2>2, ReconcileMoves DEF RegisterReceipt
  <2> QED
    BY <1>6, <2>3, PrepareStep DEF RegisterReceipt
<1>7. ASSUME AssignMechanic(o) PROVE Job!Prepare
  <2>1. /\ status' \in StatusColumn
        /\ \A q \in Orders : \/ status'[q] = status[q]
                             \/ /\ status[q] \in BreakGlass \cup {NotCreated}
                                /\ status'[q] \in BreakGlass
    BY <1>7 DEF AssignMechanic, Inv, TypeOK, StatusColumn, Statuses, BreakGlass
  <2> QED
    BY <1>7, <2>1, PrepareStep DEF AssignMechanic
<1>8. ASSUME NEW to \in BreakGlass, OverrideStatus(o, to) PROVE Job!Prepare
  <2>1. /\ status' \in StatusColumn
        /\ \A q \in Orders : \/ status'[q] = status[q]
                             \/ /\ status[q] \in BreakGlass \cup {NotCreated}
                                /\ status'[q] \in BreakGlass
    BY <1>8, StatusFacts DEF OverrideStatus, Inv, TypeOK, StatusColumn
  <2> QED
    BY <1>8, <2>1, PrepareStep DEF OverrideStatus
<1>9. ASSUME StartService(o) PROVE Job!StartJob(o)
  BY <1>9 DEF StartService, Job!StartJob
<1>10. ASSUME FinishService(o) PROVE Job!FinishJob(o)
  BY <1>10, FinishServiceInv DEF FinishService, Job!FinishJob
<1>11. ASSUME Deliver(o) PROVE Job!DeliverJob(o)
  BY <1>11 DEF Deliver, Job!DeliverJob
<1>12. ASSUME NEW p \in Products, NEW n \in Quantities,
              \/ RequestPurchase(o, p, n)
              \/ \E id \in RowIds : RequestWithdrawal(o, p, n, id)
       PROVE  UNCHANGED Job!jobVars
  BY <1>12 DEF RequestPurchase, RequestWithdrawal, Job!jobVars
<1> QED
  BY <1>1, <1>2, <1>3, <1>4, <1>5, <1>6, <1>7, <1>8, <1>9, <1>10, <1>11, <1>12
  DEF OrderNext, Job!JobStep

\* The stock room hands over within the scope, and to started OSs only.
LEMMA FulfillImplementsJob ==
  ASSUME Inv, NEW w \in withdrawals, FulfillWithdrawal(w)
  PROVE  Job!JobNext
<1> DEFINE o == w.os
           p == w.product
           n == w.quantity
<1>1. /\ o \in Orders /\ p \in Products /\ n \in Nat /\ n > 0
      /\ status[o] \in Started
  BY DEF Inv, TypeOK, WithdrawalRow, RowsOfStartedOrders
<1>2. /\ n <= reserved[o][p]
      /\ fulfilled' = [fulfilled EXCEPT ![o][p] = @ + n]
      /\ UNCHANGED <<status, required>>
  BY DEF FulfillWithdrawal
<1> HIDE DEF o, p, n
<1>3. /\ fulfilled[o][p] \in Nat /\ reserved[o][p] \in Nat /\ required[o][p] \in Nat
      /\ fulfilled[o][p] + reserved[o][p] <= required[o][p]
      /\ status[o] \in Closed => fulfilled[o][p] = required[o][p]
  BY <1>1 DEF Inv, TypeOK, ScopeRespected
<1>4. status[o] \notin Closed
  BY <1>1, <1>2, <1>3
<1>5. status[o] = "EM_EXECUCAO"
  BY <1>1, <1>4 DEF Started, Closed
<1>6. fulfilled[o][p] + n <= required[o][p] /\ n \in 1 .. required[o][p]
  BY <1>1, <1>2, <1>3
<1>7. Job!HandOver(o, p, n)
  BY <1>2, <1>5, <1>6 DEF Job!HandOver
<1> QED
  BY <1>1, <1>6, <1>7 DEF Job!JobNext, Job!JobStep

LEMMA StepImplementsJob ==
  ASSUME Inv, [Next]_vars
  PROVE  [Job!JobNext]_Job!jobVars
<1>1. ASSUME NEW p \in Products, StockNext(p) PROVE UNCHANGED Job!jobVars
  BY <1>1 DEF StockNext, RequestLoosePurchase, RegisterLooseReceipt, WriteStock,
              Job!jobVars
<1>2. ASSUME NEW w \in withdrawals, WithdrawalNext(w)
      PROVE  [Job!JobNext]_Job!jobVars
  <2>1. ASSUME CommitWithdrawal(w) \/ RollbackWithdrawal(w)
        PROVE  UNCHANGED Job!jobVars
    BY <2>1 DEF CommitWithdrawal, RollbackWithdrawal, Job!jobVars
  <2> QED
    BY <1>2, <2>1, FulfillImplementsJob DEF WithdrawalNext
<1>3. CASE UNCHANGED vars
  BY <1>3 DEF vars, Job!jobVars
<1>4. CASE Next
  BY <1>1, <1>2, <1>4, OrderStepImplementsJob DEF Next
<1> QED
  BY <1>3, <1>4

\* The workshop's promise to the customer is kept by the reservations,
\* purchases, receipts and withdrawals behind it.
THEOREM ImplementsWorkshopJob == Spec => KeepsTheJob
<1>1. Init => Job!JobInit
  BY DEF Init, Nothing, Job!JobInit, Job!NotCreated, NotCreated
<1>2. Inv /\ [Next]_vars => [Job!JobNext]_Job!jobVars
  BY StepImplementsJob
<1> QED
  BY <1>1, <1>2, Invariance, PTL DEF Spec, KeepsTheJob, Job!JobSpec

-----------------------------------------------------------------------------
(***************************************************************************)
(* Only a stock correction promises more of a product than the shelf       *)
(* holds.                                                                  *)
(***************************************************************************)

\* What the orders of S hold of product p in the table t.
Held(t, p, S) == Total(Column(t, p), S)

LEMMA HeldType ==
  ASSUME NEW t \in Table, NEW p \in Products, NEW S \in SUBSET Orders
  PROVE  /\ Demand(Column(t, p), S)
         /\ Held(t, p, S) \in Nat
<1>1. Demand(Column(t, p), Orders)
  BY OrdersAssumption DEF Table, Demand, Column
<1>2. Demand(Column(t, p), S)
  BY <1>1, DemandOfSubset
<1> QED
  BY <1>2, TotalType DEF Held

\* Orders of S that hold no more than before hold no more in total.
LEMMA HeldMonotone ==
  ASSUME NEW t \in Table, NEW u \in Table, NEW p \in Products,
         NEW S \in SUBSET Orders, NEW R \in SUBSET S,
         \A q \in R : t[q][p] <= u[q][p]
  PROVE  Held(t, p, R) <= Held(u, p, S)
<1>1. Demand(Column(u, p), S)
  BY HeldType
<1>2. \A q \in R : Column(t, p)[q] \in Nat /\ Column(t, p)[q] <= Column(u, p)[q]
  BY DEF Column, Table
<1> QED
  BY <1>1, <1>2, TotalMonotone DEF Held

\* The total is that of a part and that of the rest.
LEMMA HeldSplit ==
  ASSUME NEW t \in Table, NEW p \in Products, NEW S \in SUBSET Orders
  PROVE  Held(t, p, Orders) = Held(t, p, S) + Held(t, p, Orders \ S)
<1>1. Demand(Column(t, p), S) /\ Demand(Column(t, p), Orders \ S)
  BY HeldType
<1>2. S \cap (Orders \ S) = {} /\ S \cup (Orders \ S) = Orders
  OBVIOUS
<1> QED
  BY <1>1, <1>2, TotalOfUnion DEF Held

-----------------------------------------------------------------------------
\* A reconciliation that finds enough on the shelf for what is reserved leaves
\* enough on the shelf for what is reserved.
LEMMA ReconcileWithinStock ==
  ASSUME TypeOK, NEW o, NEW st, NEW req, NEW stk, NEW ord,
         Rows(o, st, req, stk, ord), Reconcile(o, st, req, stk, ord),
         NEW p \in Products, Held(reserved, p, Orders) <= stk[p]
  PROVE  Held(reserved', p, Orders) <= stk[p]
<1>1. reserved \in Table /\ reserved' \in Table /\ stk[p] \in Nat /\ o \in Orders
  BY ReconcileStep DEF TypeOK, Table, Rows, Shelf
<1>2. CASE \A q \in Orders : reserved'[q][p] <= reserved[q][p]
  <2>1. Held(reserved', p, Orders) <= Held(reserved, p, Orders)
    BY <1>1, <1>2, HeldMonotone
  <2>2. Held(reserved', p, Orders) \in Nat /\ Held(reserved, p, Orders) \in Nat
    BY <1>1, HeldType
  <2> QED
    BY <1>1, <2>1, <2>2
<1>3. CASE st[o] \notin Reservable
  <2>1. reserved' = [reserved EXCEPT ![o] = Nothing]
    BY <1>3 DEF Reconcile, Release
  <2>2. Nothing[p] = 0
    BY DEF Nothing
  <2>3. \A q \in Orders : reserved'[q][p] <= reserved[q][p]
    BY <1>1, <2>1, <2>2 DEF Table
  <2> QED
    BY <1>2, <2>3
<1>4. CASE st[o] \in Reservable /\ req[o][p] = 0
  <2>1. reserved' = Allocation(o, st, req, stk)
    BY <1>4 DEF Reconcile
  <2>2. \A q \in Orders : reserved'[q][p] = IF q = o THEN 0 ELSE reserved[q][p]
    BY <1>4, <2>1 DEF Allocation
  <2>3. \A q \in Orders : reserved'[q][p] <= reserved[q][p]
    BY <1>1, <2>2 DEF Table
  <2> QED
    BY <1>2, <2>3
<1>5. CASE st[o] \in Reservable /\ req[o][p] > 0
  <2> DEFINE queue == Queue(st, req, p)
             outside == Orders \ queue
  <2>1. reserved' = Allocation(o, st, req, stk)
    BY <1>5 DEF Reconcile
  <2>2. queue \in SUBSET Orders
    BY DEF Queue
  <2>3. Waiting(Column(req, p), queue, Available(st, req, stk, p))
    BY QueueType
  <2>4. \A q \in queue :
          Column(reserved', p)[q] =
            Granted(Column(req, p), queue, Available(st, req, stk, p), q)
    BY <1>5, <2>1, <2>2 DEF Allocation, Column
  <2>5. \A q \in outside : reserved'[q][p] = reserved[q][p]
    BY <1>5, <2>1, <2>2 DEF Allocation
  <2> HIDE DEF queue
  <2>6. Held(reserved', p, queue) <= Available(st, req, stk, p)
    BY <2>3, <2>4, GrantedWithinAvailable DEF Held
  <2>7. Available(st, req, stk, p) = Less(stk[p], Held(reserved, p, outside))
    BY DEF Available, Held, queue
  <2>8. /\ Held(reserved', p, outside) <= Held(reserved, p, outside)
        /\ Held(reserved, p, outside) <= Held(reserved, p, Orders)
    <3>1. \A q \in outside : /\ reserved'[q][p] <= reserved[q][p]
                             /\ reserved[q][p] <= reserved[q][p]
      BY <1>1, <2>5 DEF Table
    <3> QED
      BY <1>1, <3>1, HeldMonotone
  <2>9. /\ Held(reserved, p, outside) \in Nat
        /\ Held(reserved', p, outside) \in Nat
        /\ Held(reserved', p, queue) \in Nat
        /\ Held(reserved, p, Orders) \in Nat
    BY <1>1, <2>2, HeldType
  <2>10. Held(reserved', p, Orders)
           = Held(reserved', p, queue) + Held(reserved', p, outside)
    BY <1>1, <2>2, HeldSplit
  <2>11. Less(stk[p], Held(reserved, p, outside))
           = stk[p] - Held(reserved, p, outside)
    BY <1>1, <2>8, <2>9 DEF Less
  <2> QED
    BY <1>1, <2>6, <2>7, <2>8, <2>9, <2>10, <2>11
<1>6. req[o][p] \in Nat
  BY <1>1 DEF Rows, Table
<1> QED
  BY <1>3, <1>4, <1>5, <1>6

\* A hand-over takes as much off the shelf as off the reservations.
LEMMA FulfillWithinStock ==
  ASSUME Inv, NEW w \in withdrawals, FulfillWithdrawal(w),
         NEW p \in Products, Held(reserved, p, Orders) <= stock[p]
  PROVE  Held(reserved', p, Orders) <= stock'[p]
<1> DEFINE o == w.os
           r == w.product
           n == w.quantity
<1>1. /\ o \in Orders /\ r \in Products /\ n \in Nat
  BY DEF Inv, TypeOK, WithdrawalRow
<1>2. /\ n <= reserved[o][r]
      /\ n <= stock[r]
      /\ reserved' = [reserved EXCEPT ![o][r] = @ - n]
      /\ stock' = [stock EXCEPT ![r] = @ - n]
  BY DEF FulfillWithdrawal
<1> HIDE DEF o, r, n
<1>3. /\ reserved \in Table /\ reserved' \in Table
      /\ stock[p] \in Nat /\ stock[r] \in Nat /\ stock \in Shelf
  <2>1. Inv'
    BY FulfillWithdrawalInv
  <2> QED
    BY <1>1, <2>1 DEF Inv, TypeOK, Table, Shelf
<1>4. CASE p # r
  <2>1. \A q \in Orders : reserved'[q][p] <= reserved[q][p]
    BY <1>2, <1>3, <1>4 DEF Table
  <2>2. Held(reserved', p, Orders) <= Held(reserved, p, Orders)
    BY <1>3, <2>1, HeldMonotone
  <2>3. stock'[p] = stock[p]
    BY <1>2, <1>3, <1>4 DEF Shelf
  <2>4. Held(reserved', p, Orders) \in Nat /\ Held(reserved, p, Orders) \in Nat
    BY <1>3, HeldType
  <2> QED
    BY <1>3, <2>2, <2>3, <2>4
<1>5. CASE p = r
  <2>1. {o} \in SUBSET Orders /\ Orders \ {o} \in SUBSET Orders
    BY <1>1
  <2>2. /\ reserved'[o][p] = reserved[o][p] - n
        /\ \A q \in Orders \ {o} : reserved'[q][p] <= reserved[q][p]
    BY <1>1, <1>2, <1>3, <1>5 DEF Table
  <2>3. Held(reserved', p, Orders \ {o}) <= Held(reserved, p, Orders \ {o})
    BY <1>3, <2>1, <2>2, HeldMonotone
  <2>4. \A t \in Table : Held(t, p, {o}) = t[o][p]
    BY <1>1, TotalOfOne DEF Held, Column, Table
  <2>5. \A t \in Table : Held(t, p, Orders) = Held(t, p, {o}) + Held(t, p, Orders \ {o})
    BY <2>1, HeldSplit
  <2>6. /\ Held(reserved, p, Orders \ {o}) \in Nat
        /\ Held(reserved', p, Orders \ {o}) \in Nat
        /\ reserved[o][p] \in Nat
    BY <1>1, <1>3, <2>1, HeldType DEF Table
  <2>7. stock'[p] = stock[p] - n
    BY <1>2, <1>3, <1>5 DEF Shelf
  <2>8. Held(reserved, p, Orders) = reserved[o][p] + Held(reserved, p, Orders \ {o})
    BY <1>3, <2>4, <2>5
  <2>9. Held(reserved', p, Orders)
          = reserved[o][p] - n + Held(reserved', p, Orders \ {o})
    BY <1>3, <2>2, <2>4, <2>5
  <2> QED
    BY <1>1, <1>3, <2>3, <2>6, <2>7, <2>8, <2>9
<1> QED
  BY <1>4, <1>5

-----------------------------------------------------------------------------
\* The steps on the parts of one OS.
LEMMA OrderStepWithinStock ==
  ASSUME Inv, Inv', NEW o \in Orders, OrderNext(o),
         NEW p \in Products, Held(reserved, p, Orders) <= stock[p]
  PROVE  Held(reserved', p, Orders) <= stock'[p]
<1>1. /\ reserved \in Table /\ reserved' \in Table
      /\ stock \in Shelf /\ stock' \in Shelf
      /\ stock[p] \in Nat /\ \A q \in Orders : reserved[q][p] \in Nat
  BY DEF Inv, TypeOK, Table, Shelf
<1>2. CASE UNCHANGED <<stock, reserved>>
  BY <1>2
<1>3. CASE /\ reserved' = [reserved EXCEPT ![o] = Nothing]
           /\ UNCHANGED stock
  <2>1. Nothing[p] = 0
    BY DEF Nothing
  <2>2. \A q \in Orders : reserved'[q][p] <= reserved[q][p]
    BY <1>1, <1>3, <2>1 DEF Table
  <2>3. stock'[p] = stock[p]
    BY <1>3
  <2>4. Held(reserved', p, Orders) <= Held(reserved, p, Orders)
    BY <1>1, <2>2, HeldMonotone
  <2>5. Held(reserved', p, Orders) \in Nat /\ Held(reserved, p, Orders) \in Nat
    BY <1>1, HeldType
  <2> QED
    BY <1>1, <2>3, <2>4, <2>5
<1>4. ASSUME NEW lines \in Scopes, ApproveBudget(o, lines)
      PROVE  Held(reserved', p, Orders) <= stock'[p]
  <2> DEFINE st == [status EXCEPT ![o] = "AGUARDANDO_INICIO"]
  <2>1. Reconcile(o, st, required', stock, ordered) /\ UNCHANGED stock
    BY <1>4 DEF ApproveBudget
  <2>2. Rows(o, st, required', stock, ordered)
    BY DEF Inv, TypeOK, Rows, StatusColumn, Table, Shelf, Statuses
  <2> HIDE DEF st
  <2> QED
    BY <2>1, <2>2, ReconcileWithinStock DEF Inv
<1>5. ASSUME NEW lines \in Scopes, ApproveRevision(o, lines)
      PROVE  Held(reserved', p, Orders) <= stock'[p]
  <2> DEFINE st == [status EXCEPT ![o] = Approved(@)]
  <2>1. Reconcile(o, st, required', stock, ordered) /\ UNCHANGED stock
    BY <1>5 DEF ApproveRevision
  <2>2. Rows(o, st, required', stock, ordered)
    BY DEF Inv, TypeOK, Rows, StatusColumn, Table, Shelf, Statuses
  <2> HIDE DEF st
  <2> QED
    BY <2>1, <2>2, ReconcileWithinStock DEF Inv
<1>6. ASSUME ReconcileOrder(o)
      PROVE  Held(reserved', p, Orders) <= stock'[p]
  <2>1. Reconcile(o, status, required, stock, ordered) /\ UNCHANGED stock
    BY <1>6 DEF ReconcileOrder
  <2>2. Rows(o, status, required, stock, ordered)
    BY DEF Inv, TypeOK, Rows, StatusColumn, Table, Shelf
  <2> QED
    BY <2>1, <2>2, ReconcileWithinStock DEF Inv
<1>7. ASSUME NEW r \in Products, NEW n \in Quantities, RegisterReceipt(o, r, n)
      PROVE  Held(reserved', p, Orders) <= stock'[p]
  <2> DEFINE ord == [ordered EXCEPT ![o][r] = 0]
  <2>1. /\ Reconcile(o, status, required, stock', ord)
        /\ stock' = [stock EXCEPT ![r] = @ + n]
    BY <1>7 DEF RegisterReceipt
  <2>2. ord \in Table
    BY DEF Inv, TypeOK, Table
  <2>3. Rows(o, status, required, stock', ord)
    BY <1>1, <2>2 DEF Inv, TypeOK, Rows, StatusColumn, Table
  <2>4. Held(reserved, p, Orders) <= stock'[p]
    <3>1. n \in Nat
      BY BoundsAssumption DEF Quantities
    <3>2. stock[p] <= stock'[p] /\ stock'[p] \in Nat
      BY <1>1, <2>1, <3>1 DEF Shelf
    <3>3. Held(reserved, p, Orders) \in Nat
      BY <1>1, HeldType
    <3> QED
      BY <1>1, <3>2, <3>3
  <2> HIDE DEF ord
  <2> QED
    BY <2>1, <2>3, <2>4, ReconcileWithinStock DEF Inv
<1>8. CASE SendRevision(o) \/ RejectRevision(o) \/ FinishService(o)
  BY <1>3, <1>8 DEF SendRevision, RejectRevision, FinishService, Release
<1>9. CASE \/ \E r \in Products, n \in Quantities : RequestPurchase(o, r, n)
           \/ AssignMechanic(o)
           \/ \E to \in BreakGlass : OverrideStatus(o, to)
           \/ StartService(o)
           \/ \E r \in Products, n \in Quantities, id \in RowIds :
                RequestWithdrawal(o, r, n, id)
           \/ Deliver(o)
  BY <1>2, <1>9 DEF RequestPurchase, AssignMechanic, OverrideStatus, StartService,
                    RequestWithdrawal, Deliver
<1> QED
  BY <1>4, <1>5, <1>6, <1>7, <1>8, <1>9 DEF OrderNext

\* Of all the steps, only a correction of the stock over-reserves a product.
LEMMA StepWithinStock ==
  ASSUME Inv, Inv', [Next]_vars, NEW p \in Products,
         Held(reserved, p, Orders) <= stock[p]
  PROVE  \/ Held(reserved', p, Orders) <= stock'[p]
         \/ stock'[p] < stock[p] /\ UNCHANGED reserved
<1>1. /\ reserved \in Table /\ reserved' \in Table
      /\ stock \in Shelf /\ stock' \in Shelf
      /\ stock[p] \in Nat /\ \A q \in Orders : reserved[q][p] \in Nat
      /\ stock'[p] \in Nat /\ Held(reserved, p, Orders) \in Nat
  BY HeldType DEF Inv, TypeOK, Table, Shelf
<1>2. CASE UNCHANGED <<stock, reserved>>
  BY <1>2
<1>3. ASSUME NEW r \in Products, NEW n \in Quantities, RegisterLooseReceipt(r, n)
      PROVE  Held(reserved', p, Orders) <= stock'[p]
  <2>1. stock' = [stock EXCEPT ![r] = @ + n] /\ UNCHANGED reserved /\ n \in Nat
    BY <1>3, BoundsAssumption DEF RegisterLooseReceipt, Quantities
  <2>2. stock[p] <= stock'[p]
    BY <1>1, <2>1 DEF Shelf
  <2> QED
    BY <1>1, <2>1, <2>2
<1>4. ASSUME NEW r \in Products, NEW n \in 0 .. MaxStock, WriteStock(r, n)
      PROVE  \/ Held(reserved', p, Orders) <= stock'[p]
             \/ stock'[p] < stock[p] /\ UNCHANGED reserved
  <2>1. UNCHANGED reserved
    BY <1>4 DEF WriteStock
  <2> QED
    BY <1>1, <2>1
<1>5. ASSUME NEW r \in Products, StockNext(r)
      PROVE  \/ Held(reserved', p, Orders) <= stock'[p]
             \/ stock'[p] < stock[p] /\ UNCHANGED reserved
  BY <1>2, <1>3, <1>4, <1>5 DEF StockNext, RequestLoosePurchase
<1>6. ASSUME NEW w \in withdrawals, WithdrawalNext(w)
      PROVE  Held(reserved', p, Orders) <= stock'[p]
  BY <1>2, <1>6, FulfillWithinStock DEF WithdrawalNext, CommitWithdrawal, RollbackWithdrawal
<1>7. CASE UNCHANGED vars
  BY <1>2, <1>7 DEF vars
<1>8. CASE Next
  BY <1>5, <1>6, <1>8, OrderStepWithinStock DEF Next
<1> QED
  BY <1>7, <1>8

\* Reconciliations, receipts, revisions and withdrawals never promise more of
\* a product than the shelf holds; only a stock correction can.
THEOREM OnlyCorrectionsOverReserve == Spec => OnlyCorrectionOverReserves
<1>1. Inv /\ Inv' /\ [Next]_vars =>
        [\A p \in Products :
           ~OverReserved(p) /\ OverReserved(p)' =>
             stock'[p] < stock[p] /\ UNCHANGED reserved]_vars
  <2> SUFFICES ASSUME Inv, Inv', [Next]_vars, NEW p \in Products,
                      ~OverReserved(p), OverReserved(p)'
               PROVE  stock'[p] < stock[p] /\ UNCHANGED reserved
    OBVIOUS
  <2>1. /\ reserved \in Table /\ reserved' \in Table
        /\ stock[p] \in Nat /\ stock'[p] \in Nat
    BY DEF Inv, TypeOK, Table
  <2>2. Held(reserved, p, Orders) \in Nat /\ Held(reserved', p, Orders) \in Nat
    BY <2>1, HeldType
  <2>3. /\ Held(reserved, p, Orders) <= stock[p]
        /\ ~(Held(reserved', p, Orders) <= stock'[p])
    BY <2>1, <2>2 DEF OverReserved, Held, Column
  <2> QED
    BY <2>3, StepWithinStock
<1> QED
  BY <1>1, Invariance, PTL DEF Spec, OnlyCorrectionOverReserves

-----------------------------------------------------------------------------
(***************************************************************************)
(* The parts of an OS in execution.                                        *)
(***************************************************************************)

\* Of an OS and the rows it is reconciled from: before the start it has no more on
\* order than it lacks; from then on it has nothing on order, so that no receipt can
\* release it, and while the work is done it holds what it was not handed yet.
HoldsItsParts(q, st, req, held, ord, got) ==
  /\ st[q] \notin Started =>
       \A p \in Products : ord[q][p] <= Less(req[q][p], held[q][p])
  /\ st[q] \in Started \cup {NotCreated} => \A p \in Products : ord[q][p] = 0
  /\ st[q] = "EM_EXECUCAO" =>
       \A p \in Products : got[q][p] + held[q][p] = req[q][p]

\* Of what an OS does not require nothing is on order for it.
OrdersWhatItRequires(k, req, ord) ==
  \A p \in Products : req[k][p] = 0 => ord[k][p] = 0

PartsHeld ==
  \A q \in Orders : HoldsItsParts(q, status, required, reserved, ordered, fulfilled)

\* A reconciliation of an OS that was not started keeps the parts of every OS.
LEMMA ReconcileKeepsParts ==
  ASSUME Inv, NEW k, NEW st, NEW req, NEW stk, NEW ord,
         Rows(k, st, req, stk, ord), Reconcile(k, st, req, stk, ord),
         required' = req, fulfilled' = fulfilled,
         st[k] \notin Started \cup {NotCreated},
         \A q \in Orders \ {k} : HoldsItsParts(q, st, req, reserved, ord, fulfilled),
         OrdersWhatItRequires(k, req, ord)
  PROVE  PartsHeld'
<1>1. /\ k \in Orders /\ reserved' \in Table /\ ordered' \in Table /\ req \in Table
      /\ reserved \in Table /\ ord \in Table /\ st \in StatusColumn
      /\ \A q \in Orders :
           \/ status'[q] = st[q]
           \/ st[q] \in Reservable /\ status'[q] \in Reservable
  BY ReconcileStep DEF Inv, TypeOK, Rows, Table
<1>2. SUFFICES ASSUME NEW q \in Orders
               PROVE  /\ status'[q] \notin Started =>
                           \A p \in Products : ordered'[q][p] <= Less(req[q][p], reserved'[q][p])
                      /\ status'[q] \in Started \cup {NotCreated} =>
                           \A p \in Products : ordered'[q][p] = 0
                      /\ status'[q] = "EM_EXECUCAO" =>
                           \A p \in Products : fulfilled[q][p] + reserved'[q][p] = req[q][p]
  BY DEF PartsHeld, HoldsItsParts
<1>3. /\ status'[q] \in Started <=> st[q] \in Started
      /\ status'[q] = NotCreated <=> st[q] = NotCreated
      /\ status'[q] = "EM_EXECUCAO" <=> st[q] = "EM_EXECUCAO"
      /\ "EM_EXECUCAO" \in Started
      /\ Reservable \cap (Started \cup {NotCreated}) = {}
  BY <1>1 DEF Reservable, Started, NotCreated
<1>4. CASE st[k] \notin Reservable
  <2>1. /\ reserved' = [reserved EXCEPT ![k] = Nothing]
        /\ ordered' = [ord EXCEPT ![k] = Nothing]
    BY <1>4 DEF Reconcile, Release
  <2>2. CASE q = k
    <3>1. \A p \in Products : ordered'[q][p] = 0 /\ reserved'[q][p] = 0
      BY <1>1, <2>1, <2>2 DEF Table, Nothing
    <3>2. \A p \in Products : req[q][p] \in Nat
      BY <1>1 DEF Table
    <3> QED
      BY <1>3, <2>2, <3>1, <3>2 DEF Less
  <2>3. CASE q # k
    <3>1. ordered'[q] = ord[q] /\ reserved'[q] = reserved[q]
      BY <1>1, <2>1, <2>3 DEF Table
    <3>2. HoldsItsParts(q, st, req, reserved, ord, fulfilled)
      BY <2>3
    <3> QED
      BY <1>3, <3>1, <3>2 DEF HoldsItsParts
  <2> QED
    BY <2>2, <2>3
<1>5. CASE st[k] \in Reservable
  <2>1. /\ reserved' = Allocation(k, st, req, stk)
        /\ ordered' = Backorders(k, st, req, ord, reserved')
    BY <1>5 DEF Reconcile
  <2>2. ASSUME NEW p \in Products, req[k][p] > 0, q \in Queue(st, req, p)
        PROVE  ordered'[q][p] = Less(req[q][p], reserved'[q][p])
    BY <2>1, <2>2 DEF Backorders
  <2>3. ASSUME NEW p \in Products, ~(req[k][p] > 0 /\ q \in Queue(st, req, p))
        PROVE  /\ ordered'[q][p] = ord[q][p]
               /\ q # k => reserved'[q][p] = reserved[q][p]
    BY <2>1, <2>3, <1>1 DEF Backorders, Allocation
  <2>4. CASE st[q] \in Reservable
    <3> SUFFICES ASSUME NEW p \in Products
                 PROVE  ordered'[q][p] <= Less(req[q][p], reserved'[q][p])
      BY <1>3, <2>4
    <3>1. /\ req[q][p] \in Nat /\ reserved'[q][p] \in Nat /\ ordered'[q][p] \in Nat
          /\ Less(req[q][p], reserved'[q][p]) \in Nat
      BY <1>1 DEF Table, Less
    <3>2. CASE req[k][p] > 0 /\ q \in Queue(st, req, p)
      BY <2>2, <3>1, <3>2
    <3>3. CASE ~(req[k][p] > 0 /\ q \in Queue(st, req, p))
      <4>1. CASE q # k
        <5>1. HoldsItsParts(q, st, req, reserved, ord, fulfilled)
          BY <4>1
        <5> QED
          BY <1>3, <2>3, <2>4, <3>3, <4>1, <5>1 DEF HoldsItsParts
      <4>2. CASE q = k
        <5>1. req[q][p] = 0
          BY <2>4, <3>1, <3>3, <4>2 DEF Queue
        <5>2. ord[q][p] = 0
          BY <4>2, <5>1 DEF OrdersWhatItRequires
        <5> QED
          BY <2>3, <3>1, <3>3, <5>2
      <4> QED
        BY <4>1, <4>2
    <3> QED
      BY <3>2, <3>3
  <2>5. CASE st[q] \notin Reservable
    <3>1. q # k
      BY <1>5, <2>5
    <3>2. \A p \in Products : q \notin Queue(st, req, p)
      BY <2>5 DEF Queue
    <3>3. \A p \in Products : ordered'[q][p] = ord[q][p] /\ reserved'[q][p] = reserved[q][p]
      BY <2>3, <3>1, <3>2
    <3>4. HoldsItsParts(q, st, req, reserved, ord, fulfilled)
      BY <3>1
    <3> QED
      BY <1>3, <3>3, <3>4 DEF HoldsItsParts
  <2> QED
    BY <2>4, <2>5
<1> QED
  BY <1>4, <1>5

\* A step that leaves an OS, its scope, its reservations and purchase requests alone,
\* or moves it about before its work begins.
LEMMA PartsKept ==
  ASSUME PartsHeld,
         \A q \in Orders :
           /\ required'[q] = required[q] /\ reserved'[q] = reserved[q]
           /\ ordered'[q] = ordered[q] /\ fulfilled'[q] = fulfilled[q]
           /\ \/ status'[q] = status[q]
              \/ {status[q], status'[q]} \cap (Started \cup {NotCreated}) = {}
  PROVE  PartsHeld'
<1> SUFFICES ASSUME NEW q \in Orders
             PROVE  HoldsItsParts(q, status, required, reserved, ordered, fulfilled)'
  BY DEF PartsHeld
<1>1. HoldsItsParts(q, status, required, reserved, ordered, fulfilled)
  BY DEF PartsHeld
<1>2. "EM_EXECUCAO" \in Started
  BY DEF Started
<1>3. CASE status'[q] = status[q]
  BY <1>1, <1>3 DEF HoldsItsParts
<1>4. CASE {status[q], status'[q]} \cap (Started \cup {NotCreated}) = {}
  BY <1>1, <1>2, <1>4 DEF HoldsItsParts
<1> QED
  BY <1>3, <1>4

\* The office revises no OS, orders no parts by hand and asks for no reconciliation.
PartsLeftAlone == Interventions \cap {"PURCHASE", "RECONCILE", "REVISION"} = {}

LEMMA PartsStep ==
  ASSUME PartsLeftAlone, Inv, Inv', PartsHeld, [Next]_vars
  PROVE  PartsHeld'
<1>1. /\ \A q \in Orders, p \in Products :
           /\ required[q][p] \in Nat /\ reserved[q][p] \in Nat
           /\ ordered[q][p] \in Nat /\ fulfilled[q][p] \in Nat
      /\ status \in StatusColumn /\ required \in Table /\ ordered \in Table
      /\ reserved \in Table /\ stock \in Shelf /\ fulfilled \in Table
  BY DEF Inv, TypeOK, StatusColumn, Table, Shelf
<1>2. \A q \in Orders : HoldsItsParts(q, status, required, reserved, ordered, fulfilled)
  BY DEF PartsHeld
<1>3. CASE UNCHANGED <<status, required, reserved, ordered, fulfilled>>
  BY <1>3, PartsKept
<1>4. ASSUME NEW k \in Orders, NEW lines \in Scopes, ApproveBudget(k, lines)
      PROVE  PartsHeld'
  <2> DEFINE st == [status EXCEPT ![k] = "AGUARDANDO_INICIO"]
  <2>1. /\ required' = [required EXCEPT ![k] = lines] /\ fulfilled' = fulfilled
        /\ Reconcile(k, st, required', stock, ordered) /\ status[k] = NotCreated
    BY <1>4 DEF ApproveBudget
  <2>2. Rows(k, st, required', stock, ordered)
    BY <1>1, <2>1, ScopesAssumption DEF Rows, StatusColumn, Table, Statuses
  <2>3. /\ \A q \in Orders \ {k} : st[q] = status[q] /\ required'[q] = required[q]
        /\ st[k] \notin Started \cup {NotCreated}
    BY <1>1, <2>1 DEF StatusColumn, Table, Started, NotCreated
  <2> HIDE DEF st
  <2>4. OrdersWhatItRequires(k, required', ordered)
    BY <1>2, <2>1 DEF HoldsItsParts, OrdersWhatItRequires
  <2>5. \A q \in Orders \ {k} : HoldsItsParts(q, st, required', reserved, ordered, fulfilled)
    BY <1>2, <2>3 DEF HoldsItsParts
  <2>6. st[k] \notin Started \cup {NotCreated}
    BY <2>3
  <2> QED
    BY <2>1, <2>2, <2>4, <2>5, <2>6, ReconcileKeepsParts
<1>5. ASSUME NEW k \in Orders, NEW r \in Products, NEW n \in Quantities, RegisterReceipt(k, r, n)
      PROVE  PartsHeld'
  <2> DEFINE ord == [ordered EXCEPT ![k][r] = 0]
  <2>1. /\ stock' = [stock EXCEPT ![r] = @ + n] /\ required' = required /\ n \in Nat
        /\ Reconcile(k, status, required, stock', ord) /\ ordered[k][r] > 0
        /\ fulfilled' = fulfilled
    BY <1>5, BoundsAssumption DEF RegisterReceipt, Quantities
  <2>2. Rows(k, status, required, stock', ord)
    BY <1>1, <2>1 DEF Rows, Table, Shelf
  <2>3. \A q \in Orders, p \in Products : ord[q][p] = ordered[q][p] \/ ord[q][p] = 0
    BY <1>1 DEF Table
  <2> HIDE DEF ord
  <2>4. status[k] \notin Started \cup {NotCreated}
    <3>1. ordered[k][r] # 0
      BY <1>1, <2>1
    <3> QED
      BY <1>2, <3>1 DEF HoldsItsParts
  <2>5. ASSUME NEW q \in Orders PROVE HoldsItsParts(q, status, required, reserved, ord, fulfilled)
    <3>1. \A p \in Products : Less(required[q][p], reserved[q][p]) \in Nat
      BY <1>1 DEF Less
    <3>2. HoldsItsParts(q, status, required, reserved, ordered, fulfilled)
      BY <1>2
    <3> QED
      BY <2>3, <3>1, <3>2 DEF HoldsItsParts
  <2>6. OrdersWhatItRequires(k, required, ord)
    <3> SUFFICES ASSUME NEW p \in Products, required[k][p] = 0 PROVE ord[k][p] = 0
      BY DEF OrdersWhatItRequires
    <3>1. ordered[k][p] <= Less(required[k][p], reserved[k][p])
      BY <1>2, <2>4 DEF HoldsItsParts
    <3>2. Less(required[k][p], reserved[k][p]) = 0
      BY <1>1 DEF Less
    <3> QED
      BY <1>1, <2>3, <3>1, <3>2
  <2>7. \A q \in Orders \ {k} : HoldsItsParts(q, status, required, reserved, ord, fulfilled)
    BY <2>5
  <2> QED
    BY <2>1, <2>2, <2>4, <2>6, <2>7, ReconcileKeepsParts
<1>6. ASSUME NEW k \in Orders, AssignMechanic(k) \/ \E to \in BreakGlass : OverrideStatus(k, to)
      PROVE  PartsHeld'
  <2>1. /\ UNCHANGED <<required, reserved, ordered, fulfilled>>
        /\ \A q \in Orders :
             \/ status'[q] = status[q]
             \/ {status[q], status'[q]} \cap (Started \cup {NotCreated}) = {}
    BY <1>1, <1>6 DEF AssignMechanic, OverrideStatus, StatusColumn, Started, NotCreated, BreakGlass
  <2> QED
    BY <2>1, PartsKept
<1>7. ASSUME NEW k \in Orders, StartService(k)
      PROVE  PartsHeld'
  <2>1. /\ UNCHANGED <<required, reserved, ordered, fulfilled>>
        /\ \A q \in Orders \ {k} : status'[q] = status[q]
        /\ status[k] = "AGUARDANDO_INICIO" /\ status'[k] = "EM_EXECUCAO"
        /\ ~Short(k, required, reserved)
    BY <1>1, <1>7 DEF StartService, StatusColumn
  <2>2. ASSUME NEW p \in Products
        PROVE  ordered[k][p] = 0 /\ fulfilled[k][p] + reserved[k][p] = required[k][p]
    <3>1. status[k] \notin Started
      BY <2>1 DEF Started
    <3>2. fulfilled[k][p] = 0 /\ fulfilled[k][p] + reserved[k][p] <= required[k][p]
      BY <3>1 DEF Inv, ScopeRespected
    <3>3. ~(reserved[k][p] < required[k][p])
      BY <2>1 DEF Short
    <3>4. ordered[k][p] <= Less(required[k][p], reserved[k][p])
      BY <1>2, <3>1 DEF HoldsItsParts
    <3>5. reserved[k][p] = required[k][p]
      BY <1>1, <3>2, <3>3
    <3>6. Less(required[k][p], reserved[k][p]) = 0
      BY <1>1, <3>5 DEF Less
    <3> QED
      BY <1>1, <3>2, <3>4, <3>5, <3>6
  <2>3. ASSUME NEW q \in Orders
        PROVE  HoldsItsParts(q, status, required, reserved, ordered, fulfilled)'
    <3>1. CASE q = k
      BY <2>1, <2>2, <3>1 DEF HoldsItsParts, Started, NotCreated
    <3>2. CASE q # k
      BY <1>2, <2>1, <3>2 DEF HoldsItsParts
    <3> QED
      BY <3>1, <3>2
  <2> QED
    BY <2>3 DEF PartsHeld
<1>8. ASSUME NEW k \in Orders, FinishService(k) \/ Deliver(k)
      PROVE  PartsHeld'
  <2>1. /\ UNCHANGED <<required, ordered, fulfilled>>
        /\ \A q \in Orders \ {k} : status'[q] = status[q] /\ reserved'[q] = reserved[q]
        /\ status[k] \in Started /\ status'[k] \in Closed
    BY <1>1, <1>8 DEF FinishService, Deliver, StatusColumn, Table, Started, Closed
  <2>2. ASSUME NEW q \in Orders
        PROVE  HoldsItsParts(q, status, required, reserved, ordered, fulfilled)'
    <3>1. CASE q = k
      <4>1. \A p \in Products : ordered'[k][p] = 0
        BY <1>2, <2>1 DEF HoldsItsParts
      <4> QED
        BY <2>1, <3>1, <4>1 DEF HoldsItsParts, Started, Closed
    <3>2. CASE q # k
      BY <1>2, <2>1, <3>2 DEF HoldsItsParts
    <3> QED
      BY <3>1, <3>2
  <2> QED
    BY <2>2 DEF PartsHeld
<1>9. ASSUME NEW w \in withdrawals, FulfillWithdrawal(w)
      PROVE  PartsHeld'
  <2> DEFINE o == w.os
             r == w.product
             n == w.quantity
  <2>1. /\ o \in Orders /\ r \in Products /\ n \in Nat /\ status[o] \in Started
        /\ n <= reserved[o][r]
        /\ reserved' = [reserved EXCEPT ![o][r] = @ - n]
        /\ fulfilled' = [fulfilled EXCEPT ![o][r] = @ + n]
        /\ UNCHANGED <<status, required, ordered>>
    BY <1>9 DEF Inv, TypeOK, WithdrawalRow, RowsOfStartedOrders, FulfillWithdrawal
  <2> HIDE DEF o, r, n
  <2>2. \A q \in Orders, p \in Products :
          fulfilled'[q][p] + reserved'[q][p] = fulfilled[q][p] + reserved[q][p]
    BY <1>1, <2>1 DEF Table
  <2>3. \A q \in Orders : status[q] \notin Started => reserved'[q] = reserved[q]
    BY <1>1, <2>1 DEF Table
  <2>4. ASSUME NEW q \in Orders
        PROVE  HoldsItsParts(q, status, required, reserved, ordered, fulfilled)'
    BY <1>2, <2>1, <2>2, <2>3 DEF HoldsItsParts
  <2> QED
    BY <2>4 DEF PartsHeld
<1>10. ASSUME NEW k \in Orders, OrderNext(k) PROVE PartsHeld'
  <2>1. ASSUME \/ SendRevision(k)
               \/ \E lines \in Scopes : ApproveRevision(k, lines)
               \/ ReconcileOrder(k)
               \/ \E p \in Products, n \in Quantities : RequestPurchase(k, p, n)
        PROVE  FALSE
    BY <2>1 DEF PartsLeftAlone, SendRevision, ApproveRevision, ReconcileOrder, RequestPurchase
  <2>2. ASSUME RejectRevision(k) PROVE FALSE
    BY <2>2 DEF PartsLeftAlone, RejectRevision
  <2>3. ASSUME NEW p \in Products, NEW n \in Quantities, NEW id \in RowIds,
               RequestWithdrawal(k, p, n, id)
        PROVE  PartsHeld'
    BY <1>3, <2>3 DEF RequestWithdrawal
  <2> QED
    BY <1>4, <1>5, <1>6, <1>7, <1>8, <1>10, <2>1, <2>2, <2>3 DEF OrderNext
<1>11. ASSUME NEW p \in Products, StockNext(p) PROVE PartsHeld'
  BY <1>3, <1>11 DEF StockNext, RequestLoosePurchase, RegisterLooseReceipt, WriteStock
<1>12. ASSUME NEW w \in withdrawals, WithdrawalNext(w) PROVE PartsHeld'
  BY <1>3, <1>9, <1>12 DEF WithdrawalNext, CommitWithdrawal, RollbackWithdrawal
<1>13. CASE UNCHANGED vars
  BY <1>3, <1>13 DEF vars
<1>14. CASE Next
  BY <1>10, <1>11, <1>12, <1>14 DEF Next
<1> QED
  BY <1>13, <1>14

LEMMA InitPartsHeld == Init => PartsHeld
<1> SUFFICES ASSUME Init, NEW q \in Orders, NEW p \in Products
             PROVE  /\ status[q] = NotCreated
                    /\ ordered[q][p] = 0 /\ required[q][p] = 0 /\ reserved[q][p] = 0
  BY DEF PartsHeld, HoldsItsParts, Started, NotCreated, Less
<1> QED
  BY DEF Init, Nothing

\* Unless the office revises the OS, orders parts for it by hand or asks for its
\* reconciliation, an OS in execution keeps the parts it started with, whatever is
\* received, corrected on the shelf or overridden, and whoever else is reconciled:
\* the three requests a loss of parts can come from are all there are.
THEOREM KeepsItsParts ==
  ASSUME PartsLeftAlone
  PROVE  Spec => []ExecutionKeepsItsParts
<1>1. Inv /\ PartsHeld /\ [Next]_vars => (Inv /\ PartsHeld)'
  BY NextInv, PartsStep
<1>2. PartsHeld => ExecutionKeepsItsParts
  BY DEF PartsHeld, HoldsItsParts, ExecutionKeepsItsParts
<1>3. Init => Inv /\ PartsHeld
  BY InitInv, InitPartsHeld
<1> QED
  BY <1>1, <1>2, <1>3, PTL DEF Spec

-----------------------------------------------------------------------------
(***************************************************************************)
(* What is asked for of the stock room.                                    *)
(***************************************************************************)

\* A total depends on the quantities it adds up.
LEMMA TotalOfSame ==
  ASSUME NEW S, NEW f, NEW g, \A q \in S : f[q] = g[q]
  PROVE  Total(f, S) = Total(g, S)
<1>1. Units(f, S) = Units(g, S)
  BY DEF Units
<1> QED
  BY <1>1 DEF Total

\* A total, of one order and of the rest.
LEMMA TotalWithout ==
  ASSUME NEW S, NEW f, Demand(f, S), NEW q \in S
  PROVE  /\ Demand(f, S \ {q}) /\ Total(f, S \ {q}) \in Nat
         /\ Total(f, S) = Total(f, S \ {q}) + f[q]
<1>1. S \ {q} \in SUBSET S /\ (S \ {q}) \cap {q} = {} /\ S = (S \ {q}) \cup {q}
  OBVIOUS
<1>2. Demand(f, S \ {q}) /\ Total(f, S \ {q}) \in Nat
  BY <1>1, DemandOfSubset, TotalType
<1>3. Demand(f, {q}) /\ Total(f, {q}) = f[q]
  BY TotalOfOne DEF Demand
<1>4. Total(f, (S \ {q}) \cup {q}) = Total(f, S \ {q}) + Total(f, {q})
  BY <1>1, <1>2, <1>3, TotalOfUnion
<1> QED
  BY <1>1, <1>2, <1>3, <1>4

\* The open withdrawals of an OS and a product, committed or not, among rows.
RowsOf(rows, o, p) == {w \in rows : w.os = o /\ w.product = p}

Amounts(rows) == [w \in rows |-> w.quantity]

\* How much they ask for.
Asked(rows, o, p) == Total(Amounts(rows), RowsOf(rows, o, p))

\* What a row asks for of the product p for the OS o.
Share(w, o, p) == IF w.os = o /\ w.product = p THEN w.quantity ELSE 0

\* Requests for the same parts follow each other: the next one is made when the
\* e-mail of the one before was sent or has failed.
OneRequestAtATime ==
  \A v, w \in withdrawals :
    /\ v.os = w.os /\ v.product = w.product
    /\ ~Committed(v) /\ ~Committed(w)
    => v = w

\* The inductive invariant: the rows another transaction cannot see count too.
AllAskedWithinScope ==
  /\ IsFiniteSet(withdrawals)
  /\ \A v, w \in withdrawals : v.id = w.id => v = w
  /\ \A o \in Orders, p \in Products :
       fulfilled[o][p] + Asked(withdrawals, o, p) <= required[o][p]

\* Finitely many rows are a demand.
LEMMA RowsDemand ==
  ASSUME NEW rows \in SUBSET WithdrawalRow, IsFiniteSet(rows), NEW o, NEW p
  PROVE  /\ Demand(Amounts(rows), RowsOf(rows, o, p))
         /\ Asked(rows, o, p) \in Nat
<1>1. RowsOf(rows, o, p) \in SUBSET rows
  BY DEF RowsOf
<1>2. \A w \in rows : w.quantity \in Nat
  BY DEF WithdrawalRow
<1>3. Demand(Amounts(rows), rows)
  BY <1>2 DEF Demand, Amounts
<1> QED
  BY <1>1, <1>3, DemandOfSubset, TotalType DEF Asked

\* A row that leaves a set of rows takes its quantity with it.
LEMMA AskedWithout ==
  ASSUME NEW rows \in SUBSET WithdrawalRow, IsFiniteSet(rows), NEW w \in rows,
         NEW rest, rest = rows \ {w}, NEW o, NEW p
  PROVE  /\ IsFiniteSet(rest) /\ rest \in SUBSET WithdrawalRow
         /\ Asked(rest, o, p) \in Nat
         /\ Asked(rows, o, p) = Asked(rest, o, p) + Share(w, o, p)
<1>1. IsFiniteSet(rest) /\ rest \in SUBSET WithdrawalRow
  BY FS_RemoveElement
<1>2. Asked(rest, o, p) \in Nat /\ Demand(Amounts(rows), RowsOf(rows, o, p))
  BY <1>1, RowsDemand
<1>3. Asked(rest, o, p) = Total(Amounts(rows), RowsOf(rest, o, p))
  <2>1. \A v \in RowsOf(rest, o, p) : Amounts(rest)[v] = Amounts(rows)[v]
    BY DEF RowsOf, Amounts
  <2> QED
    BY <2>1, TotalOfSame DEF Asked
<1>4. CASE w.os = o /\ w.product = p
  <2>1. RowsOf(rest, o, p) = RowsOf(rows, o, p) \ {w} /\ w \in RowsOf(rows, o, p)
    BY <1>4 DEF RowsOf
  <2>2. Amounts(rows)[w] = w.quantity
    BY DEF Amounts
  <2> HIDE DEF Amounts, RowsOf
  <2>3. Total(Amounts(rows), RowsOf(rows, o, p))
          = Total(Amounts(rows), RowsOf(rows, o, p) \ {w}) + Amounts(rows)[w]
    BY <1>2, <2>1, TotalWithout
  <2> QED
    BY <1>1, <1>2, <1>3, <1>4, <2>1, <2>2, <2>3 DEF Asked, Share
<1>5. CASE ~(w.os = o /\ w.product = p)
  <2>1. RowsOf(rest, o, p) = RowsOf(rows, o, p)
    BY <1>5 DEF RowsOf
  <2> QED
    BY <1>1, <1>2, <1>3, <1>5, <2>1 DEF Asked, Share
<1> QED
  BY <1>4, <1>5

\* A row that joins a set of rows brings its quantity along.
LEMMA AskedWith ==
  ASSUME NEW rows \in SUBSET WithdrawalRow, IsFiniteSet(rows),
         NEW w \in WithdrawalRow, w \notin rows,
         NEW more, more = rows \cup {w}, NEW o, NEW p
  PROVE  /\ IsFiniteSet(more) /\ more \in SUBSET WithdrawalRow
         /\ Asked(rows, o, p) \in Nat
         /\ Asked(more, o, p) = Asked(rows, o, p) + Share(w, o, p)
<1>1. IsFiniteSet(more) /\ more \in SUBSET WithdrawalRow /\ w \in more
  BY FS_AddElement
<1>2. rows = more \ {w}
  OBVIOUS
<1> QED
  BY <1>1, <1>2, AskedWithout

\* Where no row is touched, nor the scope of an OS that was started, nothing changes.
LEMMA AskedKept ==
  ASSUME Inv, AllAskedWithinScope, UNCHANGED <<withdrawals, fulfilled>>,
         \A q \in Orders : \/ required'[q] = required[q]
                           \/ status[q] \notin Started /\ required'[q] \in Shelf
  PROVE  AllAskedWithinScope'
<1> SUFFICES ASSUME NEW o \in Orders, NEW p \in Products
             PROVE  fulfilled[o][p] + Asked(withdrawals, o, p) <= required'[o][p]
  BY DEF AllAskedWithinScope
<1>1. CASE required'[o] = required[o]
  BY <1>1 DEF AllAskedWithinScope
<1>2. CASE status[o] \notin Started /\ required'[o] \in Shelf
  <2>1. fulfilled[o][p] = 0 /\ required'[o][p] \in Nat
    BY <1>2 DEF Inv, ScopeRespected, Shelf
  <2>2. RowsOf(withdrawals, o, p) = {}
    BY <1>2 DEF Inv, RowsOfStartedOrders, RowsOf
  <2>3. Units(Amounts(withdrawals), {}) = {}
    BY DEF Units
  <2>4. Asked(withdrawals, o, p) = 0
    BY <2>2, <2>3, FS_EmptySet DEF Asked, Total
  <2> QED
    BY <2>1, <2>4
<1> QED
  BY <1>1, <1>2

LEMMA RequestWithdrawalAsked ==
  ASSUME Inv, AllAskedWithinScope, OneRequestAtATime',
         NEW k \in Orders, NEW r \in Products, NEW n \in Quantities, NEW id \in RowIds,
         RequestWithdrawal(k, r, n, id)
  PROVE  AllAskedWithinScope'
<1> DEFINE row == [id |-> id, os |-> k, product |-> r, quantity |-> n, state |-> "SENDING"]
<1>1. /\ row \in WithdrawalRow /\ row \notin withdrawals
      /\ row.id = id /\ row.os = k /\ row.product = r /\ row.quantity = n
      /\ row.state = "SENDING" /\ n \in Nat
      /\ \A w \in withdrawals : w.id # id
      /\ withdrawals' = withdrawals \cup {row}
      /\ UNCHANGED <<required, fulfilled>>
      /\ AlreadyRequested(k, r) + n <= required[k][r]
  BY BoundsAssumption DEF RequestWithdrawal, WithdrawalRow, Quantities
<1> HIDE DEF row
<1>2. withdrawals \in SUBSET WithdrawalRow /\ IsFiniteSet(withdrawals)
  BY DEF Inv, TypeOK, AllAskedWithinScope
<1>3. PendingRows(k, r) = RowsOf(withdrawals, k, r)
  <2> SUFFICES ASSUME NEW w \in withdrawals, w.os = k, w.product = r
               PROVE  w.state = "PENDING"
    BY DEF PendingRows, RowsOf
  <2>1. w \in withdrawals' /\ row \in withdrawals'
    BY <1>1
  <2>2. w # row
    BY <1>1
  <2>3. w.state \in {"SENDING", "PENDING"}
    BY <1>2 DEF WithdrawalRow
  <2> QED
    BY <1>1, <2>1, <2>2, <2>3 DEF OneRequestAtATime
<1>4. AlreadyRequested(k, r) = fulfilled[k][r] + Asked(withdrawals, k, r)
  BY <1>3 DEF AlreadyRequested, Asked, Amounts
<1>5. IsFiniteSet(withdrawals')
  BY <1>1, <1>2, AskedWith
<1>6. \A v, w \in withdrawals' : v.id = w.id => v = w
  BY <1>1 DEF AllAskedWithinScope
<1>7. ASSUME NEW o \in Orders, NEW p \in Products
      PROVE  fulfilled'[o][p] + Asked(withdrawals', o, p) <= required'[o][p]
  <2>1. /\ Asked(withdrawals, o, p) \in Nat
        /\ Asked(withdrawals', o, p) =
             Asked(withdrawals, o, p)
               + Share(row, o, p)
    <3>1. row \in WithdrawalRow /\ row \notin withdrawals /\ withdrawals' = withdrawals \cup {row}
      BY <1>1
    <3> QED
      BY <1>2, <3>1, AskedWith
  <2>2. /\ fulfilled[o][p] \in Nat /\ required[o][p] \in Nat
        /\ fulfilled[o][p] + Asked(withdrawals, o, p) <= required[o][p]
    BY DEF Inv, TypeOK, AllAskedWithinScope
  <2>3. CASE k = o /\ r = p
    BY <1>1, <1>4, <2>1, <2>2, <2>3 DEF Share
  <2>4. CASE ~(k = o /\ r = p)
    BY <1>1, <2>1, <2>2, <2>4 DEF Share
  <2> QED
    BY <2>3, <2>4
<1> QED
  BY <1>5, <1>6, <1>7 DEF AllAskedWithinScope

LEMMA CommitWithdrawalAsked ==
  ASSUME Inv, AllAskedWithinScope, NEW w \in withdrawals, CommitWithdrawal(w)
  PROVE  AllAskedWithinScope'
<1> DEFINE row == [w EXCEPT !.state = "PENDING"]
           others == withdrawals \ {w}
<1>1. withdrawals \in SUBSET WithdrawalRow /\ IsFiniteSet(withdrawals) /\ w \in WithdrawalRow
  BY DEF Inv, TypeOK, AllAskedWithinScope
<1>2. /\ row \in WithdrawalRow /\ row.id = w.id /\ row.os = w.os
      /\ row.product = w.product /\ row.quantity = w.quantity
      /\ withdrawals' = others \cup {row}
      /\ UNCHANGED <<required, fulfilled>>
  BY <1>1 DEF CommitWithdrawal, WithdrawalRow
<1>3. row \notin others
  BY <1>2 DEF AllAskedWithinScope
<1> HIDE DEF row
<1>4. IsFiniteSet(others) /\ others \in SUBSET WithdrawalRow
  BY <1>1, AskedWithout
<1>5. \A v \in others : v.id # row.id
  BY <1>2 DEF AllAskedWithinScope
<1>6. \A u, v \in withdrawals' : u.id = v.id => u = v
  BY <1>2, <1>5 DEF AllAskedWithinScope
<1>7. IsFiniteSet(withdrawals')
  <2> HIDE DEF others
  <2> QED
    BY <1>2, <1>3, <1>4, AskedWith
<1>8. ASSUME NEW o \in Orders, NEW p \in Products
      PROVE  fulfilled'[o][p] + Asked(withdrawals', o, p) <= required'[o][p]
  <2>1. Asked(withdrawals, o, p) =
          Asked(others, o, p) + Share(w, o, p)
    BY <1>1, AskedWithout
  <2> HIDE DEF others
  <2>2. Asked(withdrawals', o, p) =
          Asked(others, o, p) + Share(row, o, p)
    BY <1>2, <1>3, <1>4, AskedWith
  <2> QED
    BY <1>2, <2>1, <2>2 DEF AllAskedWithinScope, Share
<1> QED
  BY <1>6, <1>7, <1>8 DEF AllAskedWithinScope

\* A row that goes away, its quantity handed over or not.
LEMMA RowGone ==
  ASSUME Inv, AllAskedWithinScope, NEW w \in withdrawals,
         withdrawals' = withdrawals \ {w}, required' = required,
         \/ fulfilled' = fulfilled
         \/ fulfilled' = [fulfilled EXCEPT ![w.os][w.product] = @ + w.quantity]
  PROVE  AllAskedWithinScope'
<1>1. /\ withdrawals \in SUBSET WithdrawalRow /\ IsFiniteSet(withdrawals)
      /\ w.os \in Orders /\ w.product \in Products /\ w.quantity \in Nat
  BY DEF Inv, TypeOK, AllAskedWithinScope, WithdrawalRow
<1>2. IsFiniteSet(withdrawals')
  BY <1>1, AskedWithout
<1>3. ASSUME NEW o \in Orders, NEW p \in Products
      PROVE  fulfilled'[o][p] + Asked(withdrawals', o, p) <= required'[o][p]
  <2>1. /\ Asked(withdrawals', o, p) \in Nat
        /\ Asked(withdrawals, o, p) =
             Asked(withdrawals', o, p)
               + Share(w, o, p)
    BY <1>1, AskedWithout
  <2>2. /\ fulfilled[o][p] \in Nat /\ required[o][p] \in Nat
        /\ fulfilled[o][p] + Asked(withdrawals, o, p) <= required[o][p]
    BY DEF Inv, TypeOK, AllAskedWithinScope
  <2>3. CASE w.os = o /\ w.product = p
    <3>1. fulfilled'[o][p] \in {fulfilled[o][p], fulfilled[o][p] + w.quantity}
      BY <1>1, <2>3 DEF Inv, TypeOK
    <3> QED
      BY <1>1, <2>1, <2>2, <2>3, <3>1 DEF Share
  <2>4. CASE ~(w.os = o /\ w.product = p)
    <3>1. fulfilled'[o][p] = fulfilled[o][p]
      <4>1. fulfilled \in Table
        BY DEF Inv, TypeOK, Table
      <4>2. CASE fulfilled' = fulfilled
        BY <4>2
      <4>3. CASE fulfilled' = [fulfilled EXCEPT ![w.os][w.product] = @ + w.quantity]
        BY <1>1, <2>4, <4>1, <4>3 DEF Table
      <4> QED
        BY <4>2, <4>3
    <3> QED
      BY <2>1, <2>2, <2>4, <3>1 DEF Share
  <2> QED
    BY <2>3, <2>4
<1> QED
  BY <1>2, <1>3 DEF AllAskedWithinScope

LEMMA AskedStep ==
  ASSUME Inv, AllAskedWithinScope, OneRequestAtATime', [Next]_vars
  PROVE  AllAskedWithinScope'
<1>1. CASE UNCHANGED <<withdrawals, fulfilled, required>>
  BY <1>1, AskedKept
<1>2. ASSUME NEW k \in Orders, OrderNext(k) PROVE AllAskedWithinScope'
  <2>1. ASSUME NEW lines \in Scopes, ApproveBudget(k, lines) \/ ApproveRevision(k, lines)
        PROVE  AllAskedWithinScope'
    <3>1. /\ required' = [required EXCEPT ![k] = lines]
          /\ UNCHANGED <<withdrawals, fulfilled>> /\ status[k] \notin Started
      BY <2>1, StatusFacts DEF ApproveBudget, ApproveRevision
    <3>2. lines \in Shelf /\ required \in Table
      BY ScopesAssumption DEF Shelf, Inv, TypeOK, Table
    <3>3. \A q \in Orders : \/ required'[q] = required[q]
                            \/ status[q] \notin Started /\ required'[q] \in Shelf
      BY <3>1, <3>2 DEF Table
    <3> QED
      BY <3>1, <3>3, AskedKept
  <2>2. ASSUME NEW p \in Products, NEW n \in Quantities, NEW id \in RowIds,
               RequestWithdrawal(k, p, n, id)
        PROVE  AllAskedWithinScope'
    BY <2>2, RequestWithdrawalAsked
  <2>3. ASSUME \/ SendRevision(k)
               \/ RejectRevision(k)
               \/ ReconcileOrder(k)
               \/ \E p \in Products, n \in Quantities : RequestPurchase(k, p, n)
               \/ \E p \in Products, n \in Quantities : RegisterReceipt(k, p, n)
               \/ AssignMechanic(k)
               \/ \E to \in BreakGlass : OverrideStatus(k, to)
               \/ StartService(k)
               \/ FinishService(k)
               \/ Deliver(k)
        PROVE  AllAskedWithinScope'
    BY <1>1, <2>3 DEF SendRevision, RejectRevision, ReconcileOrder, RequestPurchase,
       RegisterReceipt, AssignMechanic, OverrideStatus, StartService, FinishService, Deliver
  <2> QED
    BY <1>2, <2>1, <2>2, <2>3 DEF OrderNext
<1>3. ASSUME NEW p \in Products, StockNext(p) PROVE AllAskedWithinScope'
  BY <1>1, <1>3 DEF StockNext, RequestLoosePurchase, RegisterLooseReceipt, WriteStock
<1>4. ASSUME NEW w \in withdrawals, WithdrawalNext(w) PROVE AllAskedWithinScope'
  <2>1. CASE CommitWithdrawal(w)
    BY <2>1, CommitWithdrawalAsked
  <2>2. CASE RollbackWithdrawal(w) \/ FulfillWithdrawal(w)
    BY <2>2, RowGone DEF RollbackWithdrawal, FulfillWithdrawal
  <2> QED
    BY <1>4, <2>1, <2>2 DEF WithdrawalNext
<1>5. CASE UNCHANGED vars
  BY <1>1, <1>5 DEF vars
<1>6. CASE Next
  BY <1>2, <1>3, <1>4, <1>6 DEF Next
<1> QED
  BY <1>5, <1>6

LEMMA InitAsked == Init => AllAskedWithinScope
<1> SUFFICES ASSUME Init PROVE AllAskedWithinScope
  OBVIOUS
<1>1. withdrawals = {} /\ IsFiniteSet({})
  BY FS_EmptySet DEF Init
<1>2. ASSUME NEW o \in Orders, NEW p \in Products
      PROVE  fulfilled[o][p] + Asked(withdrawals, o, p) <= required[o][p]
  <2>1. RowsOf({}, o, p) = {} /\ Units(Amounts({}), {}) = {}
    BY DEF RowsOf, Units
  <2>2. Asked(withdrawals, o, p) = 0
    BY <1>1, <2>1, FS_EmptySet DEF Asked, Total
  <2> QED
    BY <2>2 DEF Init, Nothing
<1> QED
  BY <1>1, <1>2 DEF AllAskedWithinScope

\* As long as requests for the same parts follow each other, however fulfilments,
\* revisions and stock corrections interleave with them, withdrawals asked for stay
\* within the scope: what two requests ask for too much they ask for at a time.
THEOREM RequestsStayWithinScope ==
  Spec /\ []OneRequestAtATime => []RequestsWithinScope
<1>1. Inv /\ AllAskedWithinScope => RequestsWithinScope
  <2> SUFFICES ASSUME Inv, AllAskedWithinScope, NEW o \in Orders, NEW p \in Products
               PROVE  AlreadyRequested(o, p) <= required[o][p]
    BY DEF RequestsWithinScope
  <2> DEFINE all == RowsOf(withdrawals, o, p)
             seen == PendingRows(o, p)
  <2>1. Demand(Amounts(withdrawals), all) /\ Asked(withdrawals, o, p) \in Nat
    BY RowsDemand DEF Inv, TypeOK, AllAskedWithinScope
  <2>2. seen \in SUBSET all
    BY DEF PendingRows, RowsOf
  <2> HIDE DEF all, seen
  <2>3. \A w \in seen : /\ Amounts(withdrawals)[w] \in Nat
                        /\ Amounts(withdrawals)[w] <= Amounts(withdrawals)[w]
    BY <2>1, <2>2 DEF Demand
  <2>4. Total(Amounts(withdrawals), seen) <= Total(Amounts(withdrawals), all)
    BY <2>1, <2>2, <2>3, TotalMonotone
  <2>5. Total(Amounts(withdrawals), seen) \in Nat
    BY <2>1, <2>2, DemandOfSubset, TotalType
  <2>6. /\ AlreadyRequested(o, p) = fulfilled[o][p] + Total(Amounts(withdrawals), seen)
        /\ Asked(withdrawals, o, p) = Total(Amounts(withdrawals), all)
    BY DEF AlreadyRequested, Amounts, Asked, seen, all
  <2>7. /\ fulfilled[o][p] \in Nat /\ required[o][p] \in Nat
        /\ fulfilled[o][p] + Asked(withdrawals, o, p) <= required[o][p]
    BY DEF Inv, TypeOK, AllAskedWithinScope
  <2> QED
    BY <2>1, <2>4, <2>5, <2>6, <2>7
<1>2. Inv /\ AllAskedWithinScope /\ OneRequestAtATime' /\ [Next]_vars
        => (Inv /\ AllAskedWithinScope)'
  BY NextInv, AskedStep
<1>3. Init => Inv /\ AllAskedWithinScope
  BY InitInv, InitAsked
<1> QED
  BY <1>1, <1>2, <1>3, PTL DEF Spec

\* Where both hold, the reservation covers whatever is asked for: consume_for_withdrawal
\* never refuses an OS its own parts, so that only a stock written too low by hand can
\* keep the stock room from handing them over.
THEOREM WithdrawalsAreCovered ==
  ASSUME PartsLeftAlone
  PROVE  Spec /\ []OneRequestAtATime =>
           [](\A w \in withdrawals : w.quantity <= reserved[w.os][w.product])
<1> DEFINE Covered == \A w \in withdrawals : w.quantity <= reserved[w.os][w.product]
<1>1. Inv /\ AllAskedWithinScope /\ ExecutionKeepsItsParts => Covered
  <2> SUFFICES ASSUME Inv, AllAskedWithinScope, ExecutionKeepsItsParts, NEW w \in withdrawals
               PROVE  w.quantity <= reserved[w.os][w.product]
    OBVIOUS
  <2> DEFINE o == w.os
             p == w.product
  <2>1. /\ o \in Orders /\ p \in Products /\ w.quantity \in Nat /\ w.quantity > 0
        /\ status[o] \in Started
    BY DEF Inv, TypeOK, WithdrawalRow, RowsOfStartedOrders
  <2> DEFINE rest == withdrawals \ {w}
  <2>2. Asked(rest, o, p) \in Nat /\ Asked(withdrawals, o, p) = Asked(rest, o, p) + w.quantity
    <3>1. withdrawals \in SUBSET WithdrawalRow /\ IsFiniteSet(withdrawals)
      BY DEF Inv, TypeOK, AllAskedWithinScope
    <3>2. Share(w, o, p) = w.quantity
      BY DEF Share
    <3> HIDE DEF o, p
    <3> QED
      BY <3>1, <3>2, AskedWithout
  <2> HIDE DEF o, p, rest
  <2>3. /\ fulfilled[o][p] \in Nat /\ required[o][p] \in Nat /\ reserved[o][p] \in Nat
        /\ fulfilled[o][p] + Asked(withdrawals, o, p) <= required[o][p]
        /\ status[o] \in Closed => fulfilled[o][p] = required[o][p]
        /\ status[o] = "EM_EXECUCAO" => fulfilled[o][p] + reserved[o][p] = required[o][p]
    BY <2>1 DEF Inv, TypeOK, AllAskedWithinScope, ScopeRespected, ExecutionKeepsItsParts
  <2>4. status[o] = "EM_EXECUCAO"
    <3>1. status[o] \notin Closed
      BY <2>1, <2>2, <2>3
    <3> QED
      BY <2>1, <3>1 DEF Started, Closed
  <2>5. w.quantity <= reserved[o][p]
    BY <2>1, <2>2, <2>3, <2>4
  <2> QED
    BY <2>5 DEF o, p
<1>2. Inv /\ AllAskedWithinScope /\ OneRequestAtATime' /\ [Next]_vars
        => (Inv /\ AllAskedWithinScope)'
  BY NextInv, AskedStep
<1>3. Init => Inv /\ AllAskedWithinScope
  BY InitInv, InitAsked
<1> QED
  BY <1>1, <1>2, <1>3, KeepsItsParts, PTL DEF Spec

=============================================================================
