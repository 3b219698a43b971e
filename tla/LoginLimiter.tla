---------------------------- MODULE LoginLimiter ----------------------------
(***************************************************************************)
(* How often a name may be tried at the login (src/api/rate_limit.py).     *)
(*                                                                         *)
(* MaxAttempts failures within Window lock a name for Lockout.  Production *)
(* counts in Redis, one counter per name that lives for Window from its    *)
(* first failure on.  Elsewhere the process keeps buckets of its own, at   *)
(* most MaxBuckets of them, with the moment of each failure.               *)
(*                                                                         *)
(* Time is in ticks and a moment is kept as its age, so what is too old to *)
(* count is dropped when it becomes so, and not when it is next looked at. *)
(***************************************************************************)
EXTENDS Naturals, Sequences, FiniteSets

CONSTANTS
  Names,       \* names that are tried at the login
  MaxAttempts, \* login_max_attempts
  Window,      \* login_attempt_window_seconds
  Lockout,     \* login_lockout_seconds
  MaxBuckets   \* login_rate_limit_max_buckets

ASSUME LimitsAssumption ==
  {MaxAttempts, Window, Lockout, MaxBuckets} \subseteq Nat \ {0}

VARIABLES
  backend,  \* where the failures are counted: chosen when the process starts
  buckets,  \* the buckets of the process, by name
  counters, \* the counters and locks in Redis, by name
  counted   \* ages of the failures of a name since it was last locked, let in or
            \* forgotten; for the properties

limiterVars == <<backend, buckets, counters, counted>>

NoBucket == [kept |-> FALSE, attempts |-> <<>>, lock |-> 0, idle |-> 0]
NewBucket == [NoBucket EXCEPT !.kept = TRUE]

\* What is left of the life of the counter and of the lock; none at 0.
NoCounter == [failures |-> 0, left |-> 0, lock |-> 0]

Buckets ==
  [kept : BOOLEAN, attempts : Seq(0 .. Window - 1), lock : 0 .. Lockout,
   idle : 0 .. Window + 1]
Counters == [failures : 0 .. MaxAttempts, left : 0 .. Window, lock : 0 .. Lockout]

LimiterTypeOK ==
  /\ backend \in {"memory", "redis"}
  /\ buckets \in [Names -> Buckets]
  /\ counters \in [Names -> Counters]
  /\ counted \in [Names -> Seq(0 .. Window - 1)]
  /\ Cardinality({n \in Names : buckets[n].kept}) <= MaxBuckets
  /\ \A n \in Names : Len(buckets[n].attempts) < MaxAttempts

LimiterInit ==
  /\ backend \in {"memory", "redis"}
  /\ buckets = [n \in Names |-> NoBucket]
  /\ counters = [n \in Names |-> NoCounter]
  /\ counted = [n \in Names |-> <<>>]

\* retry_after is not 0.
Locked(n) == buckets[n].lock > 0 \/ counters[n].lock > 0

-----------------------------------------------------------------------------
(***************************************************************************)
(* The buckets of the process.                                             *)
(***************************************************************************)

Idle(bucket) ==
  bucket.lock = 0 /\ bucket.attempts = <<>> /\ bucket.idle > Window

\* _cleanup.
Cleaned == [n \in Names |-> IF Idle(buckets[n]) THEN NoBucket ELSE buckets[n]]

Full(store) == Cardinality({n \in Names : store[n].kept}) >= MaxBuckets

\* Mutant: the oldest is evicted, locked or not.
MakeRoomAnyhow(store) ==
  LET Candidates == {n \in Names : store[n].kept}
      Oldest == {n \in Candidates : \A o \in Candidates : store[o].idle <= store[n].idle}
  IN  IF Full(store) /\ Candidates # {}
      THEN {[store EXCEPT ![n] = NoBucket] : n \in Oldest}
      ELSE {store}

\* The stores that are left when the oldest of the unlocked buckets is evicted,
\* if there has to be room: one of them, when several are equally old.
MakeRoom(store) ==
  LET Candidates == {n \in Names : store[n].kept /\ store[n].lock = 0}
      Oldest == {n \in Candidates : \A o \in Candidates : store[o].idle <= store[n].idle}
  IN  IF Full(store) /\ Candidates # {}
      THEN {[store EXCEPT ![n] = NoBucket] : n \in Oldest}
      ELSE {store}

\* Mutant: a bucket is locked one failure early.
FailedEarly(bucket) ==
  LET attempts == Append(bucket.attempts, 0)
  IN  IF Len(attempts) + 1 >= MaxAttempts
      THEN [NewBucket EXCEPT !.lock = Lockout]
      ELSE [bucket EXCEPT !.attempts = attempts, !.idle = 0]

\* The failure is added; the one that makes MaxAttempts locks.
Failed(bucket) ==
  LET attempts == Append(bucket.attempts, 0)
  IN  IF Len(attempts) >= MaxAttempts
      THEN [NewBucket EXCEPT !.lock = Lockout]
      ELSE [bucket EXCEPT !.attempts = attempts, !.idle = 0]

\* Mutant: a bucket is added to a full store.
WithBucketAlways(n) ==
  IF buckets[n].kept
  THEN {buckets}
  ELSE {[store EXCEPT ![n] = NewBucket] : store \in MakeRoom(Cleaned)}

\* The stores in which a name has its bucket, or none when there is no room.
WithBucket(n) ==
  IF buckets[n].kept
  THEN {buckets}
  ELSE {IF Full(store) THEN store ELSE [store EXCEPT ![n] = NewBucket] :
          store \in MakeRoom(Cleaned)}

BucketFailure(n) ==
  \E store \in WithBucket(n) :
    /\ buckets' = IF store[n].kept THEN [store EXCEPT ![n] = Failed(@)] ELSE store
    /\ counted' = [m \in Names |->
         IF ~store[m].kept \/ (m = n /\ Len(store[m].attempts) + 1 >= MaxAttempts)
         THEN <<>>
         ELSE IF m = n THEN Append(counted[m], 0) ELSE counted[m]]

-----------------------------------------------------------------------------
(***************************************************************************)
(* The counters in Redis, each script one step.                            *)
(***************************************************************************)

\* Mutant: it takes one failure too many to lock.
CountedLate(counter) ==
  IF counter.failures + 1 > MaxAttempts
  THEN [NoCounter EXCEPT !.lock = Lockout]
  ELSE [counter EXCEPT !.failures = @ + 1, !.left = IF @ = 0 THEN Window ELSE @]

\* INCR, EXPIRE with the first one, and SET and DEL with the last one.
Counted(counter) ==
  IF counter.failures + 1 >= MaxAttempts
  THEN [NoCounter EXCEPT !.lock = Lockout]
  ELSE [counter EXCEPT !.failures = @ + 1, !.left = IF @ = 0 THEN Window ELSE @]

\* A failure that comes while the name is locked is not counted.
CounterFailure(n) ==
  IF counters[n].lock > 0
  THEN UNCHANGED <<counters, counted>>
  ELSE /\ counters' = [counters EXCEPT ![n] = Counted(@)]
       /\ counted' = [counted EXCEPT ![n] =
            IF counters'[n].lock > 0 THEN <<>> ELSE Append(@, 0)]

-----------------------------------------------------------------------------
(***************************************************************************)
(* What the login calls.                                                   *)
(***************************************************************************)

\* enforce_login_rate_limit.
Enforce(n) ==
  /\ ~Locked(n)
  /\ buckets' = Cleaned
  /\ UNCHANGED <<backend, counters, counted>>

RegisterFailure(n) ==
  /\ \/ backend = "memory" /\ BucketFailure(n) /\ UNCHANGED counters
     \/ backend = "redis" /\ CounterFailure(n) /\ UNCHANGED buckets
  /\ UNCHANGED backend

RegisterSuccess(n) ==
  /\ buckets' = [buckets EXCEPT ![n] = NoBucket]
  /\ counters' = [counters EXCEPT ![n] = NoCounter]
  /\ counted' = [counted EXCEPT ![n] = <<>>]
  /\ UNCHANGED backend

\* Ages grow, and what is as old as Window is no longer counted.  They were added
\* in their order, so what is too old comes first.
Aged(ages) ==
  LET old == Cardinality({i \in DOMAIN ages : ages[i] + 1 >= Window})
  IN  [i \in 1 .. Len(ages) - old |-> ages[old + i] + 1]

Less(n) == IF n = 0 THEN 0 ELSE n - 1

Tick ==
  /\ buckets' = [n \in Names |->
       IF buckets[n].kept
       THEN [buckets[n] EXCEPT
               !.attempts = Aged(@),
               !.lock = Less(@),
               !.idle = IF @ > Window THEN @ ELSE @ + 1]
       ELSE NoBucket]
  /\ counters' = [n \in Names |->
       LET counter == counters[n]
       IN  [failures |-> IF counter.left <= 1 THEN 0 ELSE counter.failures,
            left |-> Less(counter.left), lock |-> Less(counter.lock)]]
  /\ counted' = [n \in Names |-> Aged(counted[n])]
  /\ UNCHANGED backend

-----------------------------------------------------------------------------
(***************************************************************************)
(* Correctness.                                                            *)
(***************************************************************************)

\* register_failure of Redis counts by fixed windows: of the failures of two
\* counters that follow each other, neither of which locked, at most these are
\* within Window of each other, however late they are registered.
TriesBounded ==
  backend = "redis" =>
    \A n \in Names :
      Len(counted[n]) <= IF MaxAttempts = 1 THEN 0 ELSE 2 * MaxAttempts - 3

\* _bucket_for_failure: neither a failure of the same name nor the cleaning and
\* evicting for another one ends a lock: it lasts until its time is over or the
\* name is let in.
LockLasts ==
  \A n \in Names :
    Locked(n) /\ ~Locked(n)' => Tick \/ RegisterSuccess(n)

\* register_failure: a name is locked only for MaxAttempts failures within Window;
\* those before register_success do not count, nor do those of another name.
LockDeserved ==
  \A n \in Names :
    ~Locked(n) /\ Locked(n)' => Len(counted[n]) + 1 >= MaxAttempts
=============================================================================
