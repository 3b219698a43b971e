-------------------------- MODULE ReservationQueue --------------------------
(***************************************************************************)
(* First-come first-served allocation of the stock of one product to the   *)
(* service orders that wait for it.                                        *)
(*                                                                         *)
(* Orders are numbered by their place in the (created_at, id) order the    *)
(* queue is sorted by.  A sum of quantities is written as the number of    *)
(* units it counts: the unit k of order q is the pair <<q, k>>.            *)
(***************************************************************************)
EXTENDS Naturals, Sequences, FiniteSets

\* The units f[q] counts, for every q in S.
Units(f, S) == UNION {{q} \X (1 .. f[q]) : q \in S}

\* The sum of f[q] over q in S.
Total(f, S) == Cardinality(Units(f, S))

Minimum(a, b) == IF a <= b THEN a ELSE b

\* a - b, or 0 when there is less than b: Python's max(a - b, 0).
Less(a, b) == IF b <= a THEN a - b ELSE 0

\* The members of the queue that are served before q.
Ahead(queue, q) == {x \in queue : x < q}

\* What is left for q when the loop over the queue reaches it.
LeftFor(required, queue, available, q) ==
  Less(available, Total(required, Ahead(queue, q)))

\* The quantity the loop reserves for q: all it requires, or what is left.
Granted(required, queue, available, q) ==
  Minimum(required[q], LeftFor(required, queue, available, q))

\* The loop itself: what remains when it has served the first k orders, turns
\* being the sorted queue.
Remaining(required, turns, available) ==
  LET left[k \in 0 .. Len(turns)] ==
        IF k = 0 THEN available
        ELSE left[k - 1] - Minimum(required[turns[k]], left[k - 1])
  IN left

=============================================================================
