--------------------------- MODULE TeardownLease ---------------------------
(***************************************************************************)
(* What the ledger promises those who close a session: one of them holds   *)
(* the teardown at a time.  Another may take it only when the lease of the *)
(* holder is over, and nobody once it was released.                        *)
(***************************************************************************)
EXTENDS Integers

CONSTANTS
  Closers,  \* those who may close
  Nobody,   \* none of them
  MaxLease  \* the longest lease

VARIABLES
  holder,   \* who took the teardown last
  left,     \* how long the lease is still good for; none from 0 on
  released  \* the holder said that the teardown is done

vars == <<holder, left, released>>

Init == holder = Nobody /\ left = -1 /\ released = FALSE

Free == holder = Nobody \/ left <= 0

Acquire(c) ==
  /\ ~ released
  /\ Free \/ holder = c
  /\ holder' = c
  /\ left' \in 0 .. MaxLease
  /\ UNCHANGED released

Pass ==
  /\ left > 0
  /\ left' = left - 1
  /\ UNCHANGED <<holder, released>>

Release ==
  /\ holder # Nobody
  /\ left' = -1
  /\ released' = TRUE
  /\ UNCHANGED holder

Next == Pass \/ Release \/ \E c \in Closers : Acquire(c)

Spec == Init /\ [][Next]_vars
=============================================================================
