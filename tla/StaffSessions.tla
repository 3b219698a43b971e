---------------------------- MODULE StaffSessions ----------------------------
(***************************************************************************)
(* The sessions of the staff: the login behind its limiter, the refresh    *)
(* that replaces a token by a new one, and the logout.                     *)
(*                                                                         *)
(* Each session is a row; those that came from one login are a family.     *)
(* The requests run concurrently, each in a READ COMMITTED transaction.  A *)
(* refresh locks the row it is shown; a revocation updates, in one         *)
(* statement, the rows that statement could see when it began, and waits   *)
(* for those that another transaction has locked.                          *)
(***************************************************************************)
EXTENDS LoginLimiter

CONSTANTS
  Requests, \* workers of the API, each with a transaction of its own
  Staff,    \* the names of users
  MaxRow    \* bound on the rows of sessions

ASSUME StaffAssumption == Staff \subseteq Names
ASSUME RowsAssumption == MaxRow \in Nat \ {0}

VARIABLES
  rows,   \* the sessions, and those that are not committed yet
  active, \* the users that are active
  req     \* what each worker is at

vars == <<backend, buckets, counters, counted, rows, active, req>>

Rows == 1 .. MaxRow

\* A pending row is not committed; one that is expired is not revoked.
Statuses == {"none", "pending", "live", "expired", "revoked"}

NoRow == [user |-> "none", family |-> 0, status |-> "none"]
NoRequest == [op |-> "none"]

\* The name a family was logged in with stands in for user_id; its first row for
\* family_id.
RowRecords == [user : Staff, family : Rows, status : Statuses \ {"none"}] \cup {NoRow}

RequestRecords ==
  {NoRequest}
    \cup [op : {"login"}, name : Names]
    \cup [op : {"rotate"}, row : Rows, minted : Rows]
    \cup [op : {"replay"}, row : Rows, seen : SUBSET Rows]
    \cup [op : {"logout"}, seen : SUBSET Rows]

TypeOK ==
  /\ LimiterTypeOK
  /\ rows \in [Rows -> RowRecords]
  /\ active \subseteq Staff
  /\ req \in [Requests -> RequestRecords]

Init ==
  /\ LimiterInit
  /\ rows = [r \in Rows |-> NoRow]
  /\ active = Staff
  /\ req = [q \in Requests |-> NoRequest]

\* revoked_at is null, in what is committed.
Unrevoked(r) == rows[r].status \in {"live", "expired"}
Committed(r) == Unrevoked(r) \/ rows[r].status = "revoked"

\* is_active and belongs_to_user.
IsActive(r) == rows[r].status = "live"

Family(f) == {r \in Rows : rows[r].status # "none" /\ rows[r].family = f}

\* Rows a request has locked.
LockedRows(q) == IF req[q].op \in {"rotate", "replay"} THEN {req[q].row} ELSE {}
LockedByAnother(q, r) == \E p \in Requests \ {q} : r \in LockedRows(p)

IsFree(r) == rows[r].status = "none" /\ \A s \in 1 .. r - 1 : rows[s].status # "none"

Answer(q) == req' = [req EXCEPT ![q] = NoRequest]

Revoked(R) ==
  [r \in Rows |->
     IF r \in R /\ rows[r].status # "none" THEN [rows[r] EXCEPT !.status = "revoked"] ELSE rows[r]]

-----------------------------------------------------------------------------
(***************************************************************************)
(* Login: the limiter is asked before the password is verified, and told   *)
(* afterwards.                                                             *)
(***************************************************************************)

BeginLogin(q, n) ==
  /\ req[q] = NoRequest
  /\ Enforce(n)
  /\ req' = [req EXCEPT ![q] = [op |-> "login", name |-> n]]
  /\ UNCHANGED <<rows, active>>

\* The password is wrong, or there is no such user, or the user is inactive.
LoginFails(q) ==
  /\ req[q].op = "login"
  /\ RegisterFailure(req[q].name)
  /\ Answer(q)
  /\ UNCHANGED <<rows, active>>

\* The session begins a family of its own, unless it cannot be committed.
LoginSucceeds(q) ==
  /\ req[q].op = "login"
  /\ req[q].name \in active
  /\ RegisterSuccess(req[q].name)
  /\ \/ UNCHANGED rows
     \/ \E r \in Rows :
          /\ IsFree(r)
          /\ rows' = [rows EXCEPT ![r] =
               [user |-> req[q].name, family |-> r, status |-> "live"]]
  /\ Answer(q)
  /\ UNCHANGED active

-----------------------------------------------------------------------------
(***************************************************************************)
(* Refresh.                                                                *)
(***************************************************************************)

Mint(q, r) ==
  \E minted \in Rows :
    /\ IsFree(minted)
    /\ rows' = [rows EXCEPT ![minted] =
         [user |-> rows[r].user, family |-> rows[r].family, status |-> "pending"]]
    /\ req' = [req EXCEPT ![q] = [op |-> "rotate", row |-> r, minted |-> minted]]

\* Mutant: the row is read without a lock.
RotateUnlocked(q, r) ==
  /\ req[q] = NoRequest
  /\ IsActive(r)
  /\ Mint(q, r)
  /\ UNCHANGED <<limiterVars, active>>

\* Mutant: a token that was spent is good for another one.
RotateSpent(q, r) ==
  /\ req[q] = NoRequest
  /\ Committed(r)
  /\ ~LockedByAnother(q, r)
  /\ Mint(q, r)
  /\ UNCHANGED <<limiterVars, active>>

\* rotate, of a session that is live: the row is locked and replaced.
Rotate(q, r) ==
  /\ req[q] = NoRequest
  /\ IsActive(r)
  /\ ~LockedByAnother(q, r)
  /\ Mint(q, r)
  /\ UNCHANGED <<limiterVars, active>>

\* rotate, of one that is over: that alone is recorded.
RotateExpired(q, r) ==
  /\ req[q] = NoRequest
  /\ rows[r].status = "expired"
  /\ ~LockedByAnother(q, r)
  /\ rows' = Revoked({r})
  /\ UNCHANGED <<limiterVars, active, req>>

Snapshot(f) == {r \in Family(f) : Unrevoked(r)}

\* rotate, of one that was spent: its family is to be revoked.
BeginReplay(q, r) ==
  /\ req[q] = NoRequest
  /\ rows[r].status = "revoked"
  /\ ~LockedByAnother(q, r)
  /\ req' = [req EXCEPT ![q] =
       [op |-> "replay", row |-> r, seen |-> Snapshot(rows[r].family)]]
  /\ UNCHANGED <<limiterVars, rows, active>>

\* The new session is committed, and the one it replaces is revoked.
EndRotate(q) ==
  /\ req[q].op = "rotate"
  /\ rows[req[q].row].user \in active
  /\ rows' = [Revoked({req[q].row}) EXCEPT ![req[q].minted].status = "live"]
  /\ Answer(q)
  /\ UNCHANGED <<limiterVars, active>>

\* The user is no longer active: the family is revoked, the new session included.
\* The statement sees what is committed and what its own transaction did.
RefuseRotate(q) ==
  /\ req[q].op = "rotate"
  /\ rows[req[q].row].user \notin active
  /\ LET seen == Snapshot(rows[req[q].row].family)
     IN  /\ \A s \in seen : ~LockedByAnother(q, s)
         /\ rows' = Revoked(seen \cup {req[q].minted})
  /\ Answer(q)
  /\ UNCHANGED <<limiterVars, active>>

\* The worker is lost, and its transaction with it.
LoseRotate(q) ==
  /\ req[q].op = "rotate"
  /\ rows' = [rows EXCEPT ![req[q].minted] = NoRow]
  /\ Answer(q)
  /\ UNCHANGED <<limiterVars, active>>

-----------------------------------------------------------------------------
(***************************************************************************)
(* Revocation.                                                             *)
(***************************************************************************)

\* revoke_family_for_token, up to the statement.
BeginLogout(q, r) ==
  /\ req[q] = NoRequest
  /\ Committed(r)
  /\ req' = [req EXCEPT ![q] = [op |-> "logout", seen |-> Snapshot(rows[r].family)]]
  /\ UNCHANGED <<limiterVars, rows, active>>

\* Mutant: a replay revokes the token that was shown, and that alone.
EndRevocationOfOne(q) ==
  /\ req[q].op \in {"replay", "logout"}
  /\ \A s \in req[q].seen : ~LockedByAnother(q, s)
  /\ rows' = Revoked(IF req[q].op = "replay" THEN {req[q].row} ELSE req[q].seen)
  /\ Answer(q)
  /\ UNCHANGED <<limiterVars, active>>

\* revoke_family: no row it saw is locked any more.
EndRevocation(q) ==
  /\ req[q].op \in {"replay", "logout"}
  /\ \A s \in req[q].seen : ~LockedByAnother(q, s)
  /\ rows' = Revoked(req[q].seen)
  /\ Answer(q)
  /\ UNCHANGED <<limiterVars, active>>

-----------------------------------------------------------------------------
Expire(r) ==
  /\ IsActive(r)
  /\ rows' = [rows EXCEPT ![r].status = "expired"]
  /\ UNCHANGED <<limiterVars, active, req>>

\* No operation of the program does it: the row of the user is changed by hand.
Deactivate(n) ==
  /\ active' = active \ {n}
  /\ UNCHANGED <<limiterVars, rows, req>>

PassTime == Tick /\ UNCHANGED <<rows, active, req>>

Next ==
  \/ \E q \in Requests :
       \/ \E n \in Names : BeginLogin(q, n)
       \/ LoginFails(q)
       \/ LoginSucceeds(q)
       \/ \E r \in Rows :
            \/ Rotate(q, r)
            \/ RotateExpired(q, r)
            \/ BeginReplay(q, r)
            \/ BeginLogout(q, r)
       \/ EndRotate(q)
       \/ RefuseRotate(q)
       \/ LoseRotate(q)
       \/ EndRevocation(q)
  \/ \E r \in Rows : Expire(r)
  \/ \E n \in Staff : Deactivate(n)
  \/ PassTime

Spec == Init /\ [][Next]_vars

-----------------------------------------------------------------------------
(***************************************************************************)
(* Correctness.                                                            *)
(***************************************************************************)

\* rotate: of the sessions of one login at most one is good, however many requests show
\* its token at once.
OneLiveSession ==
  \A r, s \in Rows :
    Unrevoked(r) /\ Unrevoked(s) /\ rows[r].family = rows[s].family => r = s

\* Every session of the family is revoked, and none is about to be issued.
Ended(f) == Family(f) # {} /\ \A r \in Family(f) : rows[r].status = "revoked"

\* revoke_family: a family that has ended stays so; and once a logout or a replay is answered,
\* whatever was good when it began is not.  (Only what a refresh that was under
\* way meanwhile has issued is left.)
RevocationHolds ==
  [][/\ \A f \in Rows : Ended(f) => Ended(f)'
     /\ \A q \in Requests :
          req[q].op \in {"replay", "logout"} /\ req'[q] = NoRequest
            => \A s \in req[q].seen : rows'[s].status = "revoked"]_vars

\* The limiter keeps its word while logins that it let pass are still verifying.
LockoutHolds == [][LockLasts /\ LockDeserved]_vars
=============================================================================
