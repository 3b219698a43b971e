------------------------ MODULE StaffSessionsProofs ------------------------
(***************************************************************************)
(* Of the sessions of a login at most one is good, and a family that was   *)
(* revoked stays so, for any number of requests, users and sessions.       *)
(*                                                                         *)
(* A refresh holds the lock of the row it replaces, so no other request    *)
(* revokes or replaces that row before the refresh ends: the new row       *)
(* becomes good in the very step that revokes the one it replaces.         *)
(*                                                                         *)
(* Of the limiter: a lock ends and begins only as it should, and two       *)
(* counters that follow each other let a bounded number of tries pass, for *)
(* any limits.                                                             *)
(***************************************************************************)
EXTENDS StaffSessions, FiniteSetTheorems, SequenceTheorems, TLAPS

Shape ==
  /\ rows \in [Rows -> [user : Staff \cup {"none"}, family : Rows \cup {0}, status : Statuses]]
  /\ req \in [Requests -> RequestRecords]
  /\ active \subseteq Staff

\* What a refresh under way replaces is unrevoked, and what it minted pending.
Rotations ==
  \A q \in Requests : req[q].op = "rotate" =>
    /\ req[q].row \in Rows /\ req[q].minted \in Rows
    /\ Unrevoked(req[q].row)
    /\ rows[req[q].minted].status = "pending"
    /\ rows[req[q].minted].family = rows[req[q].row].family

\* What a revocation saw is committed.
Snapshots ==
  \A q \in Requests : req[q].op \in {"replay", "logout"} =>
    \A s \in req[q].seen : s \in Rows /\ Committed(s)

\* No two refreshes replace the same row or mint the same one.
Apart ==
  \A p, q \in Requests : req[p].op = "rotate" /\ req[q].op = "rotate" /\ p # q =>
    req[p].row # req[q].row /\ req[p].minted # req[q].minted

\* The first row of a family is one that was committed.
Rooted ==
  \A r \in Rows : rows[r].status # "none" =>
    rows[r].family \in Rows /\ Committed(rows[r].family)

IInv == Shape /\ Rotations /\ Snapshots /\ Apart /\ Rooted /\ OneLiveSession

USE DEF Statuses, NoRequest, Unrevoked, Committed

-----------------------------------------------------------------------------
LEMMA InitInv == Init => IInv
BY DEF Init, IInv, Shape, Rotations, Snapshots, Apart, Rooted, OneLiveSession, NoRow,
       RequestRecords

\* A request that replaces nothing begins, or one of those that do not is over.
LEMMA OtherRequests ==
  ASSUME IInv, UNCHANGED <<rows, active>>, NEW q \in Requests,
         NEW new \in RequestRecords, new.op # "rotate",
         new.op \in {"replay", "logout"} => \A s \in new.seen : s \in Rows /\ Committed(s),
         req' = [req EXCEPT ![q] = new]
  PROVE  IInv'
<1>1. Shape'
  BY DEF IInv, Shape
<1>2. \A p \in Requests : req'[p].op = "rotate" => req'[p] = req[p]
  BY DEF IInv, Shape
<1>3. Rotations'
  BY <1>2 DEF IInv, Rotations
<1>4. Apart'
  BY <1>2 DEF IInv, Apart
<1>5. (Rooted /\ OneLiveSession)'
  BY DEF IInv, Rooted, OneLiveSession
<1>6. Snapshots'
  BY DEF IInv, Shape, Snapshots
<1> QED
  BY <1>1, <1>3, <1>4, <1>5, <1>6 DEF IInv

\* Revoking rows is safe for those refreshes that go on.
LEMMA RevokingRows ==
  ASSUME IInv, NEW R \in SUBSET Rows, rows' = Revoked(R),
         UNCHANGED active, req' \in [Requests -> RequestRecords],
         \A p \in Requests :
           \/ req'[p] = NoRequest
           \/ /\ req'[p] = req[p]
              /\ req[p].op = "rotate" => req[p].row \notin R /\ req[p].minted \notin R
  PROVE  IInv'
<1>1. \A r \in Rows :
        /\ rows'[r].family = rows[r].family
        /\ rows'[r].status = IF r \in R /\ rows[r].status # "none" THEN "revoked" ELSE rows[r].status
  BY DEF IInv, Shape, Revoked
<1>2. Shape'
  BY DEF IInv, Shape, Revoked
<1>3. Rotations'
  BY <1>1 DEF IInv, Shape, Rotations
<1>4. Apart'
  BY DEF IInv, Apart
<1>5. Rooted'
  BY <1>1 DEF IInv, Rooted
<1>6. OneLiveSession'
  BY <1>1 DEF IInv, OneLiveSession
<1>7. Snapshots'
  BY <1>1 DEF IInv, Snapshots
<1> QED
  BY <1>2, <1>3, <1>4, <1>5, <1>6, <1>7 DEF IInv

\* A login begins a family in a free row.
LEMMA NewFamily ==
  ASSUME IInv, NEW q \in Requests, LoginSucceeds(q)
  PROVE  IInv'
<1>1. req' = [req EXCEPT ![q] = NoRequest] /\ NoRequest \in RequestRecords
  BY DEF LoginSucceeds, Answer, RequestRecords
<1>2. CASE UNCHANGED rows
  BY <1>1, <1>2, OtherRequests DEF LoginSucceeds
<1>3. ASSUME NEW r \in Rows, IsFree(r),
             rows' = [rows EXCEPT ![r] =
               [user |-> req[q].name, family |-> r, status |-> "live"]]
      PROVE  IInv'
  <2>1. \A p \in Requests : req'[p] = NoRequest \/ req'[p] = req[p]
    BY <1>1 DEF IInv, Shape
  <2>2. Shape'
    BY <1>1, <1>3 DEF IInv, Shape, LoginSucceeds
  <2>3. /\ rows[r].status = "none"
        /\ rows'[r].family = r /\ rows'[r].status = "live"
        /\ \A s \in Rows \ {r} : rows'[s] = rows[s]
    BY <1>3 DEF IInv, Shape, IsFree
  <2>4. Rotations'
    BY <2>1, <2>3 DEF IInv, Rotations
  <2>5. Apart'
    BY <2>1 DEF IInv, Apart
  <2>6. Rooted'
    BY <2>3 DEF IInv, Rooted
  <2>7. \A s \in Rows \ {r} : Unrevoked(s) => rows[s].family # r
    BY <2>3 DEF IInv, Rooted
  <2>8. OneLiveSession'
    BY <2>3, <2>7 DEF IInv, OneLiveSession
  <2>9. Snapshots'
    BY <2>1, <2>3 DEF IInv, Snapshots
  <2> QED
    BY <2>2, <2>4, <2>5, <2>6, <2>8, <2>9 DEF IInv
<1> QED
  BY <1>2, <1>3 DEF LoginSucceeds

\* A refresh locks a row that nobody else has locked, and mints in a free one.
LEMMA Minted ==
  ASSUME IInv, NEW q \in Requests, NEW r \in Rows, Rotate(q, r)
  PROVE  IInv'
<1>1. PICK minted \in Rows :
        /\ IsFree(minted)
        /\ rows' = [rows EXCEPT ![minted] =
             [user |-> rows[r].user, family |-> rows[r].family, status |-> "pending"]]
        /\ req' = [req EXCEPT ![q] = [op |-> "rotate", row |-> r, minted |-> minted]]
  BY DEF Rotate, Mint
<1>2. /\ rows[r].status = "live"
      /\ rows[minted].status = "none"
      /\ \A p \in Requests \ {q} : req[p].op = "rotate" => req[p].row # r
  BY <1>1 DEF Rotate, IsActive, IsFree, LockedByAnother, LockedRows
<1>3. /\ rows'[minted].family = rows[r].family /\ rows'[minted].status = "pending"
      /\ \A s \in Rows \ {minted} : rows'[s] = rows[s]
  BY <1>1 DEF IInv, Shape
<1>4. /\ req'[q] = [op |-> "rotate", row |-> r, minted |-> minted]
      /\ \A p \in Requests \ {q} : req'[p] = req[p]
  BY <1>1 DEF IInv, Shape
<1>5. Shape'
  BY <1>1 DEF IInv, Shape, Rotate, RequestRecords
<1>6. Rotations'
  BY <1>2, <1>3, <1>4 DEF IInv, Rotations
<1>7. Apart'
  BY <1>2, <1>4 DEF IInv, Rotations, Apart
<1>8. Rooted'
  BY <1>2, <1>3 DEF IInv, Rooted
<1>9. OneLiveSession'
  BY <1>2, <1>3 DEF IInv, OneLiveSession
<1>10. Snapshots'
  BY <1>1, <1>2, <1>3, <1>4 DEF IInv, Snapshots
<1> QED
  BY <1>5, <1>6, <1>7, <1>8, <1>9, <1>10 DEF IInv

\* The replaced row is revoked in the step that makes the minted one live.
LEMMA Replaced ==
  ASSUME IInv, NEW q \in Requests, EndRotate(q)
  PROVE  IInv'
<1> DEFINE row == req[q].row
           minted == req[q].minted
<1>1. /\ row \in Rows /\ minted \in Rows
      /\ Unrevoked(row) /\ rows[minted].status = "pending"
      /\ rows[minted].family = rows[row].family
  BY DEF EndRotate, IInv, Rotations
<1>2. /\ rows'[row].status = "revoked" /\ rows'[row].family = rows[row].family
      /\ rows'[minted].status = "live" /\ rows'[minted].family = rows[row].family
      /\ \A s \in Rows \ {row, minted} : rows'[s] = rows[s]
  BY <1>1 DEF EndRotate, Revoked, IInv, Shape
<1>3. \A p \in Requests : req'[p] = NoRequest \/ (p # q /\ req'[p] = req[p])
  BY DEF EndRotate, Answer, IInv, Shape
<1>4. \A p \in Requests \ {q} : req[p].op = "rotate" =>
        {req[p].row, req[p].minted} \cap {row, minted} = {}
  BY <1>1 DEF IInv, Rotations, Apart, EndRotate
<1>5. Shape'
  <2>1. rows' \in [Rows -> [user : Staff \cup {"none"}, family : Rows \cup {0}, status : Statuses]]
    <3>1. Revoked({row}) \in
            [Rows -> [user : Staff \cup {"none"}, family : Rows \cup {0}, status : Statuses]]
      BY DEF Revoked, IInv, Shape
    <3> QED
      BY <1>1, <3>1 DEF EndRotate
  <2> QED
    BY <2>1 DEF EndRotate, Answer, IInv, Shape, RequestRecords
<1>6. Rotations'
  <2> SUFFICES ASSUME NEW p \in Requests, req'[p].op = "rotate"
               PROVE  /\ req'[p].row \in Rows /\ req'[p].minted \in Rows
                      /\ rows'[req'[p].row].status \in {"live", "expired"}
                      /\ rows'[req'[p].minted].status = "pending"
                      /\ rows'[req'[p].minted].family = rows'[req'[p].row].family
    BY DEF Rotations
  <2>1. p # q /\ req'[p] = req[p]
    BY <1>3
  <2>2. {req[p].row, req[p].minted} \subseteq Rows \ {row, minted}
    BY <1>4, <2>1 DEF IInv, Rotations
  <2>3. rows'[req[p].row] = rows[req[p].row] /\ rows'[req[p].minted] = rows[req[p].minted]
    BY <1>2, <2>2
  <2> QED
    BY <2>1, <2>2, <2>3 DEF IInv, Rotations
<1>7. Apart'
  BY <1>3 DEF IInv, Apart
<1>8. Rooted'
  BY <1>1, <1>2 DEF IInv, Rooted
<1>9. OneLiveSession'
  BY <1>1, <1>2 DEF IInv, OneLiveSession
<1>10. Snapshots'
  BY <1>1, <1>2, <1>3, <1>4 DEF IInv, Snapshots
<1> QED
  BY <1>5, <1>6, <1>7, <1>8, <1>9, <1>10 DEF IInv

\* What a lost refresh minted is no family's first row.
LEMMA Lost ==
  ASSUME IInv, NEW q \in Requests, LoseRotate(q)
  PROVE  IInv'
<1> DEFINE minted == req[q].minted
<1>1. minted \in Rows /\ rows[minted].status = "pending"
  BY DEF LoseRotate, IInv, Rotations
<1>2. /\ rows'[minted].status = "none"
      /\ \A s \in Rows \ {minted} : rows'[s] = rows[s]
  BY <1>1 DEF LoseRotate, NoRow, IInv, Shape
<1>3. \A p \in Requests : req'[p] = NoRequest \/ (p # q /\ req'[p] = req[p])
  BY DEF LoseRotate, Answer, IInv, Shape
<1>4. \A p \in Requests \ {q} : req[p].op = "rotate" =>
        req[p].row # minted /\ req[p].minted # minted
  BY <1>1 DEF IInv, Rotations, Apart, LoseRotate
<1>5. Shape'
  BY <1>1 DEF LoseRotate, NoRow, Answer, IInv, Shape, RequestRecords
<1>6. Rotations'
  BY <1>2, <1>3, <1>4 DEF IInv, Rotations
<1>7. Apart'
  BY <1>3 DEF IInv, Apart
<1>8. Rooted'
  BY <1>1, <1>2 DEF IInv, Rooted
<1>9. OneLiveSession'
  BY <1>2 DEF IInv, OneLiveSession
<1>10. Snapshots'
  BY <1>1, <1>2, <1>3, <1>4 DEF IInv, Snapshots
<1> QED
  BY <1>5, <1>6, <1>7, <1>8, <1>9, <1>10 DEF IInv

LEMMA Expired ==
  ASSUME IInv, NEW r \in Rows, Expire(r)
  PROVE  IInv'
<1>1. /\ rows[r].status = "live" /\ rows'[r].status = "expired"
      /\ rows'[r].family = rows[r].family
      /\ \A s \in Rows \ {r} : rows'[s] = rows[s]
  BY DEF Expire, IsActive, IInv, Shape
<1>2. Shape'
  BY DEF Expire, IInv, Shape
<1>3. Rotations'
  BY <1>1 DEF Expire, IInv, Rotations
<1>4. Apart'
  BY DEF Expire, IInv, Apart
<1>5. Rooted'
  BY <1>1 DEF IInv, Rooted
<1>6. OneLiveSession'
  BY <1>1 DEF IInv, OneLiveSession
<1>7. Snapshots'
  BY <1>1 DEF Expire, IInv, Snapshots
<1> QED
  BY <1>2, <1>3, <1>4, <1>5, <1>6, <1>7 DEF IInv

-----------------------------------------------------------------------------
\* Nothing else revokes a row that a refresh replaces: it would have to wait.
LEMMA RevocationStep ==
  ASSUME IInv, NEW q \in Requests, EndRevocation(q)
  PROVE  IInv'
<1> DEFINE seen == req[q].seen
<1>1. seen \in SUBSET Rows /\ \A s \in seen : Committed(s)
  BY DEF EndRevocation, IInv, Snapshots
<1>2. ASSUME NEW p \in Requests, p # q, req[p].op = "rotate"
      PROVE  req[p].row \notin seen /\ req[p].minted \notin seen
  <2>1. req[p].row \notin seen
    BY <1>2 DEF EndRevocation, LockedByAnother, LockedRows
  <2>2. req[p].minted \notin seen
    BY <1>1, <1>2 DEF IInv, Rotations
  <2> QED
    BY <2>1, <2>2
<1>3. \A p \in Requests : req'[p] = NoRequest \/ (p # q /\ req'[p] = req[p])
  BY DEF EndRevocation, Answer, IInv, Shape
<1>4. req' \in [Requests -> RequestRecords]
  BY DEF EndRevocation, Answer, IInv, Shape, RequestRecords
<1> QED
  BY <1>1, <1>2, <1>3, <1>4, RevokingRows DEF EndRevocation

LEMMA RefusalStep ==
  ASSUME IInv, NEW q \in Requests, RefuseRotate(q)
  PROVE  IInv'
<1> DEFINE old == Snapshot(rows[req[q].row].family)
           seen == old \cup {req[q].minted}
<1>1. seen \in SUBSET Rows /\ \A s \in old : Unrevoked(s)
  BY DEF RefuseRotate, IInv, Rotations, Snapshot, Family
<1>2. ASSUME NEW p \in Requests, p # q, req[p].op = "rotate"
      PROVE  req[p].row \notin seen /\ req[p].minted \notin seen
  <2>1. req[p].row \notin old
    BY <1>2 DEF RefuseRotate, LockedByAnother, LockedRows
  <2>2. req[p].row # req[q].minted /\ req[p].minted # req[q].minted
    BY <1>2 DEF RefuseRotate, IInv, Rotations, Apart
  <2>3. req[p].minted \notin old
    BY <1>1, <1>2 DEF IInv, Rotations
  <2> QED
    BY <2>1, <2>2, <2>3
<1>3. \A p \in Requests : req'[p] = NoRequest \/ (p # q /\ req'[p] = req[p])
  BY DEF RefuseRotate, Answer, IInv, Shape
<1>4. req' \in [Requests -> RequestRecords]
  BY DEF RefuseRotate, Answer, IInv, Shape, RequestRecords
<1> HIDE DEF seen
<1>5. rows' = Revoked(seen)
  BY DEF RefuseRotate, seen
<1> QED
  BY <1>1, <1>2, <1>3, <1>4, <1>5, RevokingRows DEF RefuseRotate

LEMMA ExpiryNoticed ==
  ASSUME IInv, NEW q \in Requests, NEW r \in Rows, RotateExpired(q, r)
  PROVE  IInv'
<1>1. ASSUME NEW p \in Requests, req[p].op = "rotate"
      PROVE  req[p].row # r /\ req[p].minted # r
  <2>1. p # q
    BY <1>1 DEF RotateExpired
  <2>2. req[p].row # r
    BY <1>1, <2>1 DEF RotateExpired, LockedByAnother, LockedRows
  <2>3. req[p].minted # r
    BY <1>1 DEF RotateExpired, IInv, Rotations
  <2> QED
    BY <2>2, <2>3
<1>2. req' \in [Requests -> RequestRecords] /\ {r} \in SUBSET Rows
  BY DEF RotateExpired, IInv, Shape
<1> QED
  BY <1>1, <1>2, RevokingRows DEF RotateExpired

-----------------------------------------------------------------------------
\* Logins, replays and logouts that begin, and what leaves the sessions alone.
LEMMA BeginStep ==
  ASSUME IInv, NEW q \in Requests,
         \/ \E n \in Names : BeginLogin(q, n)
         \/ LoginFails(q)
         \/ \E r \in Rows : BeginReplay(q, r) \/ BeginLogout(q, r)
  PROVE  IInv'
<1>1. ASSUME NEW n \in Names, BeginLogin(q, n)
      PROVE  IInv'
  BY <1>1, OtherRequests, [op |-> "login", name |-> n] \in RequestRecords
  DEF BeginLogin, RequestRecords
<1>2. CASE LoginFails(q)
  BY <1>2, OtherRequests, NoRequest \in RequestRecords DEF LoginFails, Answer, RequestRecords
<1>3. ASSUME NEW r \in Rows
      PROVE  /\ Snapshot(rows[r].family) \in SUBSET Rows
             /\ \A s \in Snapshot(rows[r].family) : s \in Rows /\ Committed(s)
  BY DEF Snapshot, Family
<1>4. ASSUME NEW r \in Rows, BeginReplay(q, r)
      PROVE  IInv'
  <2> DEFINE new == [op |-> "replay", row |-> r, seen |-> Snapshot(rows[r].family)]
  <2>1. new \in RequestRecords
    BY <1>3 DEF RequestRecords
  <2> QED
    BY <1>3, <1>4, <2>1, OtherRequests DEF BeginReplay
<1>5. ASSUME NEW r \in Rows, BeginLogout(q, r)
      PROVE  IInv'
  <2> DEFINE new == [op |-> "logout", seen |-> Snapshot(rows[r].family)]
  <2>1. new \in RequestRecords
    BY <1>3 DEF RequestRecords
  <2> QED
    BY <1>3, <1>5, <2>1, OtherRequests DEF BeginLogout
<1> QED
  BY <1>1, <1>2, <1>4, <1>5

LEMMA Elsewhere ==
  ASSUME IInv, UNCHANGED <<rows, req>>, active' \subseteq Staff
  PROVE  IInv'
<1>1. Shape'
  BY DEF IInv, Shape
<1>2. (Rotations /\ Snapshots /\ Apart)'
  BY DEF IInv, Rotations, Snapshots, Apart
<1>3. (Rooted /\ OneLiveSession)'
  BY DEF IInv, Rooted, OneLiveSession
<1> QED
  BY <1>1, <1>2, <1>3 DEF IInv

LEMMA StepInv == IInv /\ [Next]_vars => IInv'
<1> SUFFICES ASSUME IInv, [Next]_vars PROVE IInv'
  OBVIOUS
<1>1. ASSUME NEW q \in Requests, NEW r \in Rows,
             Rotate(q, r) \/ RotateExpired(q, r)
      PROVE  IInv'
  BY <1>1, Minted, ExpiryNoticed
<1>2. ASSUME NEW q \in Requests,
             \/ LoginSucceeds(q) \/ EndRotate(q) \/ RefuseRotate(q) \/ LoseRotate(q)
             \/ EndRevocation(q)
      PROVE  IInv'
  BY <1>2, NewFamily, Replaced, RefusalStep, Lost, RevocationStep
<1>3. ASSUME NEW n \in Staff, Deactivate(n)
      PROVE  IInv'
  BY <1>3, Elsewhere DEF Deactivate, IInv, Shape
<1>4. CASE PassTime
  BY <1>4, Elsewhere DEF PassTime, IInv, Shape
<1>5. CASE UNCHANGED vars
  BY <1>5, Elsewhere DEF vars, IInv, Shape
<1> QED
  BY <1>1, <1>2, <1>3, <1>4, <1>5, BeginStep, Expired DEF Next

LEMMA Inductive == Spec => []IInv
BY InitInv, StepInv, PTL DEF Spec

\* rotate: whatever number of requests show the tokens of a login at once, at
\* most one of its sessions is good.
THEOREM OneIsLive == Spec => []OneLiveSession
<1>1. IInv => OneLiveSession
  BY DEF IInv
<1> QED
  BY Inductive, <1>1, PTL

-----------------------------------------------------------------------------
\* A session that is revoked stays so, and one that is not, or is about to be,
\* was so before or is a new one: of a login, or of a refresh of a live one.
Successor(r) ==
  /\ rows[r].status = "revoked" =>
       rows'[r].status = "revoked" /\ rows'[r].family = rows[r].family
  /\ rows'[r].status \notin {"none", "revoked"} =>
       \/ rows[r].status \notin {"none", "revoked"} /\ rows'[r].family = rows[r].family
       \/ /\ rows[r].status = "none"
          /\ \/ rows'[r].family = r
             \/ \E s \in Rows : IsActive(s) /\ rows[s].family = rows'[r].family

LEMMA RevokedSuccessors ==
  ASSUME IInv, NEW R \in SUBSET Rows, rows' = Revoked(R)
  PROVE  \A r \in Rows : Successor(r)
<1>1. \A r \in Rows :
        /\ rows'[r].family = rows[r].family
        /\ rows'[r].status = IF r \in R /\ rows[r].status # "none" THEN "revoked" ELSE rows[r].status
  BY DEF IInv, Shape, Revoked
<1> QED
  BY <1>1 DEF Successor

LEMMA Successors ==
  ASSUME IInv, [Next]_vars
  PROVE  \A r \in Rows : Successor(r)
<1>1. CASE UNCHANGED rows
  BY <1>1 DEF Successor
<1>2. ASSUME NEW q \in Requests, LoginSucceeds(q)
      PROVE  \A r \in Rows : Successor(r)
  <2>1. ASSUME NEW n \in Rows, IsFree(n),
               rows' = [rows EXCEPT ![n] =
                 [user |-> req[q].name, family |-> n, status |-> "live"]]
        PROVE  \A r \in Rows : Successor(r)
    BY <2>1 DEF IInv, Shape, IsFree, Successor
  <2> QED
    BY <1>1, <1>2, <2>1 DEF LoginSucceeds
<1>3. ASSUME NEW q \in Requests, NEW s \in Rows, Rotate(q, s)
      PROVE  \A r \in Rows : Successor(r)
  <2>1. PICK n \in Rows :
          /\ IsFree(n)
          /\ rows' = [rows EXCEPT ![n] =
               [user |-> rows[s].user, family |-> rows[s].family, status |-> "pending"]]
    BY <1>3 DEF Rotate, Mint
  <2>2. IsActive(s) /\ rows[n].status = "none"
    BY <1>3, <2>1 DEF Rotate, IsFree
  <2>3. /\ rows'[n].family = rows[s].family
        /\ \A r \in Rows \ {n} : rows'[r] = rows[r]
    BY <2>1 DEF IInv, Shape
  <2> QED
    BY <2>2, <2>3 DEF Successor
<1>4. ASSUME NEW q \in Requests, NEW s \in Rows, RotateExpired(q, s)
      PROVE  \A r \in Rows : Successor(r)
  BY <1>4, RevokedSuccessors DEF RotateExpired
<1>5. ASSUME NEW q \in Requests, EndRotate(q)
      PROVE  \A r \in Rows : Successor(r)
  <2>1. /\ req[q].row \in Rows /\ req[q].minted \in Rows
        /\ Unrevoked(req[q].row) /\ rows[req[q].minted].status = "pending"
    BY <1>5 DEF EndRotate, IInv, Rotations
  <2>2. /\ rows'[req[q].row].status = "revoked"
        /\ rows'[req[q].minted].family = rows[req[q].minted].family
        /\ \A r \in Rows \ {req[q].row, req[q].minted} : rows'[r] = rows[r]
    BY <1>5, <2>1 DEF EndRotate, Revoked, IInv, Shape
  <2> QED
    BY <2>1, <2>2 DEF Successor
<1>6. ASSUME NEW q \in Requests, RefuseRotate(q)
      PROVE  \A r \in Rows : Successor(r)
  <2> DEFINE seen == Snapshot(rows[req[q].row].family) \cup {req[q].minted}
  <2>1. seen \in SUBSET Rows
    BY <1>6 DEF RefuseRotate, IInv, Rotations, Snapshot, Family
  <2>2. rows' = Revoked(seen)
    BY <1>6 DEF RefuseRotate
  <2> HIDE DEF seen
  <2> QED
    BY <2>1, <2>2, RevokedSuccessors
<1>7. ASSUME NEW q \in Requests, LoseRotate(q)
      PROVE  \A r \in Rows : Successor(r)
  <2>1. rows[req[q].minted].status = "pending"
    BY <1>7 DEF LoseRotate, IInv, Rotations
  <2>2. \A r \in Rows : rows'[r] = IF r = req[q].minted THEN NoRow ELSE rows[r]
    BY <1>7 DEF LoseRotate, IInv, Shape
  <2> QED
    BY <2>1, <2>2 DEF Successor, NoRow
<1>8. ASSUME NEW q \in Requests, EndRevocation(q)
      PROVE  \A r \in Rows : Successor(r)
  <2>1. req[q].seen \in SUBSET Rows
    BY <1>8 DEF EndRevocation, IInv, Snapshots
  <2> QED
    BY <1>8, <2>1, RevokedSuccessors DEF EndRevocation
<1>9. ASSUME NEW s \in Rows, Expire(s)
      PROVE  \A r \in Rows : Successor(r)
  BY <1>9 DEF Expire, IsActive, IInv, Shape, Successor
<1> QED
  BY <1>1, <1>2, <1>3, <1>4, <1>5, <1>6, <1>7, <1>8, <1>9
  DEF Next, BeginLogin, LoginFails, BeginReplay, BeginLogout, Deactivate, PassTime, vars

\* A family that has ended has no live session that a refresh could replace, and
\* its first row is taken, so that no login begins it anew.
LEMMA StaysEnded ==
  ASSUME IInv, [Next]_vars, NEW f \in Rows, Ended(f)
  PROVE  Ended(f)'
<1>1. \A r \in Rows : Successor(r)
  BY Successors
<1>2. PICK root \in Rows : rows[root].family = f /\ rows[root].status = "revoked"
  BY DEF Ended, Family
<1>3. rows[f].status # "none"
  BY <1>2 DEF IInv, Rooted
<1>4. \A r \in Rows : rows[r].status # "none" /\ rows[r].family = f => rows[r].status = "revoked"
  BY DEF Ended, Family
<1>5. rows'[root].family = f /\ rows'[root].status = "revoked"
  BY <1>1, <1>2 DEF Successor
<1>6. ASSUME NEW r \in Rows, rows'[r].status # "none", rows'[r].family = f
      PROVE  rows'[r].status = "revoked"
  BY <1>1, <1>3, <1>4, <1>6 DEF Successor, IsActive
<1> QED
  BY <1>5, <1>6 DEF Ended, Family

LEMMA Finished ==
  ASSUME IInv, [Next]_vars, NEW q \in Requests,
         req[q].op \in {"replay", "logout"}, req'[q] = NoRequest,
         NEW s \in req[q].seen
  PROVE  rows'[s].status = "revoked"
<1>1. s \in Rows /\ Committed(s) /\ Successor(s)
  BY Successors DEF IInv, Snapshots
<1>2. CASE EndRevocation(q)
  BY <1>1, <1>2 DEF EndRevocation, Revoked, IInv, Shape
<1>3. req[q] # NoRequest /\ req[q].op \notin {"login", "rotate"}
  OBVIOUS
<1>4. ASSUME NEW p \in Requests, p # q, EndRevocation(p)
      PROVE  req'[q] = req[q]
  BY <1>4 DEF EndRevocation, Answer, IInv, Shape
<1>5. ASSUME NEW p \in Requests,
             \/ \E n \in Names : BeginLogin(p, n)
             \/ LoginFails(p)
             \/ LoginSucceeds(p)
             \/ \E r \in Rows :
                  Rotate(p, r) \/ RotateExpired(p, r) \/ BeginReplay(p, r) \/ BeginLogout(p, r)
      PROVE  req'[q] = req[q]
  BY <1>3, <1>5 DEF BeginLogin, LoginFails, LoginSucceeds, Rotate, Mint, RotateExpired,
                    BeginReplay, BeginLogout, Answer, IInv, Shape
<1>6. ASSUME NEW p \in Requests, EndRotate(p) \/ RefuseRotate(p) \/ LoseRotate(p)
      PROVE  req'[q] = req[q]
  BY <1>3, <1>6 DEF EndRotate, RefuseRotate, LoseRotate, Answer, IInv, Shape
<1>7. CASE \/ \E r \in Rows : Expire(r)
           \/ \E n \in Staff : Deactivate(n)
           \/ PassTime
           \/ UNCHANGED vars
  BY <1>3, <1>7 DEF Expire, Deactivate, PassTime, vars
<1> QED
  BY <1>2, <1>3, <1>4, <1>5, <1>6, <1>7 DEF Next

\* revoke_family: a family that has ended stays so, and once a revocation is over
\* so is every session that it could see.
THEOREM RevocationIsFinal == Spec => RevocationHolds
<1>1. ASSUME IInv, [Next]_vars
      PROVE  [/\ \A f \in Rows : Ended(f) => Ended(f)'
              /\ \A q \in Requests :
                   req[q].op \in {"replay", "logout"} /\ req'[q] = NoRequest
                     => \A s \in req[q].seen : rows'[s].status = "revoked"]_vars
  BY <1>1, StaysEnded, Finished
<1> QED
  BY <1>1, Inductive, PTL DEF Spec, RevocationHolds

-----------------------------------------------------------------------------
(***************************************************************************)
(* The limiter of the login.                                               *)
(*                                                                         *)
(* What a name is tried lies in one list, oldest first, so what grows too  *)
(* old leaves it at the front.  The process counts that very list; Redis   *)
(* counts its end: the failures of the counter that runs, the first of     *)
(* which is as old as the counter.                                         *)
(***************************************************************************)

Ages == Seq(0 .. Window - 1)

\* Oldest first.
Ordered(ages) == \A i, j \in 1 .. Len(ages) : i <= j => ages[j] <= ages[i]

\* Of the failures a name has, those that the counter counts come last, the first
\* of them as old as the counter; those before them are of the counter before,
\* whose first one is too old by now.
Tracks(counter, ages) ==
  /\ counter.failures < MaxAttempts /\ counter.failures <= Len(ages)
  /\ counter.failures = 0 <=> counter.left = 0
  /\ counter.failures > 0 => ages[Len(ages) - counter.failures + 1] + counter.left = Window
  /\ MaxAttempts = 1 => Len(ages) = 0
  /\ MaxAttempts > 1 => Len(ages) <= counter.failures + (MaxAttempts - 2)

Kept(store) == {n \in Names : store[n].kept}

Bounded(store) ==
  /\ store \in [Names -> Buckets]
  /\ IsFiniteSet(Kept(store)) /\ Cardinality(Kept(store)) <= MaxBuckets
  /\ \A n \in Names :
       /\ Len(store[n].attempts) < MaxAttempts
       /\ ~store[n].kept => store[n] = NoBucket

CountedInv ==
  /\ counted \in [Names -> Ages]
  /\ \A n \in Names : Ordered(counted[n])

InMemory ==
  \A n \in Names : counters[n] = NoCounter /\ counted[n] = buckets[n].attempts

InRedis == \A n \in Names : buckets[n] = NoBucket /\ Tracks(counters[n], counted[n])

LimiterInv ==
  /\ Bounded(buckets) /\ CountedInv
  /\ counters \in [Names -> Counters]
  /\ backend \in {"memory", "redis"}
  /\ backend = "memory" => InMemory
  /\ backend = "redis" => InRedis

LEMMA LimitsType ==
  /\ MaxAttempts \in Nat /\ MaxAttempts > 0 /\ Window \in Nat /\ Window > 0
  /\ Lockout \in Nat /\ Lockout > 0 /\ MaxBuckets \in Nat /\ MaxBuckets > 0
BY LimitsAssumption

LEMMA AgesType ==
  ASSUME NEW ages \in Ages
  PROVE  /\ Len(ages) \in Nat /\ DOMAIN ages = 1 .. Len(ages)
         /\ \A i \in 1 .. Len(ages) : ages[i] \in 0 .. Window - 1 /\ ages[i] \in Nat
<1>1. Len(ages) \in Nat /\ DOMAIN ages = 1 .. Len(ages)
  BY LenProperties DEF Ages
<1>2. \A i \in 1 .. Len(ages) : ages[i] \in 0 .. Window - 1
  BY ElementOfSeq DEF Ages
<1> QED
  BY <1>1, <1>2

LEMMA EmptyAges == <<>> \in Ages /\ Len(<<>>) = 0 /\ Ordered(<<>>) /\ Aged(<<>>) = <<>>
<1>1. <<>> \in Ages /\ Len(<<>>) = 0 /\ Ordered(<<>>)
  BY DEF Ages, Ordered
<1>2. {i \in DOMAIN <<>> : <<>>[i] + 1 >= Window} = {}
  BY <1>1
<1>3. Aged(<<>>) = [i \in 1 .. 0 |-> <<>>[0 + i] + 1]
  BY <1>2, FS_EmptySet DEF Aged
<1> QED
  BY <1>1, <1>3

\* What ages is the end of the list: all that is still recent, and that alone.
LEMMA AgedIsTheEnd ==
  ASSUME NEW ages \in Ages, Ordered(ages)
  PROVE  \E old \in 0 .. Len(ages) :
           /\ \A i \in 1 .. Len(ages) : ages[i] + 1 >= Window <=> i <= old
           /\ Aged(ages) = [i \in 1 .. Len(ages) - old |-> ages[old + i] + 1]
<1> DEFINE O == {i \in DOMAIN ages : ages[i] + 1 >= Window}
           old == Cardinality(O)
<1>1. /\ Len(ages) \in Nat /\ DOMAIN ages = 1 .. Len(ages)
      /\ \A i \in 1 .. Len(ages) : ages[i] \in 0 .. Window - 1 /\ ages[i] \in Nat
  BY AgesType
<1>2. O \in SUBSET (1 .. Len(ages))
  BY <1>1
<1>3. IsFiniteSet(1 .. Len(ages)) /\ Cardinality(1 .. Len(ages)) = Len(ages)
  BY <1>1, FS_Interval
<1>4. IsFiniteSet(O) /\ old \in Nat /\ old <= Len(ages)
  BY <1>2, <1>3, FS_Subset, FS_CardinalityType
<1>5. ASSUME NEW i \in 1 .. Len(ages)
      PROVE  ages[i] + 1 >= Window <=> i <= old
  <2>1. ASSUME ages[i] + 1 >= Window
        PROVE  i <= old
    <3>1. \A j \in 1 .. i : j \in 1 .. Len(ages) /\ ages[j] + 1 >= Window
      BY <1>1, <2>1, LimitsType DEF Ordered
    <3>2. (1 .. i) \in SUBSET O
      BY <1>1, <3>1
    <3>3. Cardinality(1 .. i) = i
      BY <1>1, FS_Interval
    <3> QED
      BY <1>4, <3>2, <3>3, FS_Subset
  <2>2. ASSUME ~(ages[i] + 1 >= Window)
        PROVE  ~(i <= old)
    <3>1. \A j \in 1 .. Len(ages) : ages[j] + 1 >= Window => j <= i - 1
      BY <1>1, <2>2, LimitsType DEF Ordered
    <3>2. O \in SUBSET (1 .. i - 1)
      BY <1>1, <3>1
    <3>3. IsFiniteSet(1 .. i - 1) /\ Cardinality(1 .. i - 1) = i - 1
      <4>1. i \in Nat /\ 1 \in Int /\ i - 1 \in Int /\ i > 0
        BY <1>1
      <4>2. /\ IsFiniteSet(1 .. i - 1)
            /\ Cardinality(1 .. i - 1) = IF 1 > i - 1 THEN 0 ELSE (i - 1) - 1 + 1
        BY <4>1, FS_Interval
      <4> QED
        BY <4>1, <4>2
    <3>4. old <= i - 1
      BY <3>2, <3>3, FS_Subset
    <3> QED
      BY <1>4, <3>4
  <2> QED
    BY <2>1, <2>2
<1>6. Aged(ages) = [i \in 1 .. Len(ages) - old |-> ages[old + i] + 1]
  BY DEF Aged
<1>7. old \in 0 .. Len(ages)
  BY <1>1, <1>4
<1> HIDE DEF old
<1> QED
  BY <1>5, <1>6, <1>7

LEMMA AgedType ==
  ASSUME NEW ages \in Ages, Ordered(ages)
  PROVE  Aged(ages) \in Ages /\ Len(Aged(ages)) <= Len(ages) /\ Ordered(Aged(ages))
<1>1. PICK old \in 0 .. Len(ages) :
        /\ \A i \in 1 .. Len(ages) : ages[i] + 1 >= Window <=> i <= old
        /\ Aged(ages) = [i \in 1 .. Len(ages) - old |-> ages[old + i] + 1]
  BY AgedIsTheEnd
<1>2. /\ Len(ages) \in Nat
      /\ \A i \in 1 .. Len(ages) : ages[i] \in 0 .. Window - 1 /\ ages[i] \in Nat
  BY AgesType
<1>3. \A i \in 1 .. Len(ages) - old :
        /\ old + i \in 1 .. Len(ages) /\ Aged(ages)[i] = ages[old + i] + 1
        /\ ages[old + i] + 1 \in 0 .. Window - 1
  BY <1>1, <1>2, LimitsType
<1>4. Aged(ages) \in Ages /\ Len(Aged(ages)) = Len(ages) - old
  <2> DEFINE n == Len(ages) - old
             aged == Aged(ages)
  <2>1. n \in Nat
    BY <1>1, <1>2
  <2>2. DOMAIN aged = 1 .. n /\ aged \in [1 .. n -> 0 .. Window - 1]
    BY <1>1, <1>3
  <2> HIDE DEF n, aged
  <2>3. aged \in Seq(0 .. Window - 1)
    BY <2>1, <2>2, SeqDef
  <2>4. Len(aged) = n
    BY <2>1, <2>2, <2>3, LenProperties
  <2> QED
    BY <2>3, <2>4 DEF n, aged, Ages
<1>5. Ordered(Aged(ages))
  <2> SUFFICES ASSUME NEW i \in 1 .. Len(ages) - old, NEW j \in 1 .. Len(ages) - old, i <= j
               PROVE  Aged(ages)[j] <= Aged(ages)[i]
    BY <1>4 DEF Ordered
  <2>1. old + i <= old + j
    BY <1>2
  <2>2. ages[old + j] <= ages[old + i]
    BY <1>3, <2>1 DEF Ordered
  <2>3. ages[old + i] \in Nat /\ ages[old + j] \in Nat
    BY <1>2, <1>3
  <2> QED
    BY <1>3, <2>2, <2>3
<1> QED
  BY <1>2, <1>4, <1>5

LEMMA AppendNow ==
  ASSUME NEW ages \in Ages, Ordered(ages)
  PROVE  /\ Append(ages, 0) \in Ages /\ Len(Append(ages, 0)) = Len(ages) + 1
         /\ Ordered(Append(ages, 0))
         /\ Append(ages, 0)[Len(ages) + 1] = 0
         /\ \A i \in 1 .. Len(ages) : Append(ages, 0)[i] = ages[i]
<1>1. /\ Len(ages) \in Nat
      /\ \A i \in 1 .. Len(ages) : ages[i] \in 0 .. Window - 1 /\ ages[i] \in Nat
  BY AgesType
<1>2. 0 \in 0 .. Window - 1
  BY LimitsType
<1>3. /\ Append(ages, 0) \in Ages /\ Len(Append(ages, 0)) = Len(ages) + 1
      /\ Append(ages, 0)[Len(ages) + 1] = 0
      /\ \A i \in 1 .. Len(ages) : Append(ages, 0)[i] = ages[i]
  BY <1>1, <1>2, AppendProperties DEF Ages
<1>4. Ordered(Append(ages, 0))
  BY <1>1, <1>3 DEF Ordered
<1> QED
  BY <1>3, <1>4

-----------------------------------------------------------------------------
LEMMA BucketsAre ==
  Buckets = [kept : BOOLEAN, attempts : Ages, lock : 0 .. Lockout, idle : 0 .. Window + 1]
BY DEF Buckets, Ages

LEMMA BucketTypes ==
  /\ NoBucket \in Buckets /\ NewBucket \in Buckets /\ NoCounter \in Counters
  /\ NoBucket.attempts = <<>> /\ NoBucket.lock = 0 /\ ~NoBucket.kept
  /\ NewBucket.attempts = <<>> /\ NewBucket.lock = 0 /\ NewBucket.kept
<1>1. /\ 0 \in 0 .. Lockout /\ 0 \in 0 .. Window + 1 /\ 0 \in 0 .. Window
      /\ 0 \in 0 .. MaxAttempts /\ <<>> \in Ages /\ TRUE \in BOOLEAN /\ FALSE \in BOOLEAN
  BY EmptyAges, LimitsType
<1>2. NoBucket \in Buckets
  BY <1>1, BucketsAre DEF NoBucket
<1>3. NewBucket = [kept |-> TRUE, attempts |-> <<>>, lock |-> 0, idle |-> 0]
  <2>1. NoBucket = [kept |-> FALSE, attempts |-> <<>>, lock |-> 0, idle |-> 0]
    BY DEF NoBucket
  <2>2. NewBucket = [NoBucket EXCEPT !.kept = TRUE]
    BY DEF NewBucket
  <2> QED
    BY <2>1, <2>2
<1>4. NewBucket \in Buckets
  BY <1>1, <1>3, BucketsAre
<1>5. NoCounter \in Counters
  BY <1>1 DEF NoCounter, Counters
<1> QED
  BY <1>2, <1>3, <1>4, <1>5 DEF NoBucket

\* Buckets that are not locked may be dropped.
LEMMA Dropping ==
  ASSUME NEW store, NEW left \in [Names -> Buckets], Bounded(store),
         \A n \in Names : left[n] = store[n] \/ left[n] = NoBucket
  PROVE  Bounded(left)
<1>1. Kept(left) \in SUBSET Kept(store)
  BY BucketTypes DEF Kept
<1>2. /\ IsFiniteSet(Kept(left)) /\ Cardinality(Kept(left)) \in Nat
      /\ Cardinality(Kept(left)) <= Cardinality(Kept(store)) /\ Cardinality(Kept(store)) \in Nat
  BY <1>1, FS_Subset, FS_CardinalityType DEF Bounded
<1>3. Cardinality(Kept(left)) <= MaxBuckets
  BY <1>2, LimitsType DEF Bounded
<1>4. \A n \in Names :
        /\ Len(left[n].attempts) < MaxAttempts
        /\ ~left[n].kept => left[n] = NoBucket
  BY BucketTypes, EmptyAges, LimitsType DEF Bounded
<1> QED
  BY <1>2, <1>3, <1>4 DEF Bounded

LEMMA Cleaning ==
  ASSUME Bounded(buckets)
  PROVE  /\ Bounded(Cleaned)
         /\ \A n \in Names :
              \/ Cleaned[n] = buckets[n]
              \/ /\ Cleaned[n] = NoBucket
                 /\ buckets[n].lock = 0 /\ buckets[n].attempts = <<>>
<1>1. \A n \in Names :
        \/ Cleaned[n] = buckets[n]
        \/ /\ Cleaned[n] = NoBucket
           /\ buckets[n].lock = 0 /\ buckets[n].attempts = <<>>
  BY DEF Cleaned, Idle
<1>2. Cleaned \in [Names -> Buckets]
  BY BucketTypes DEF Cleaned, Bounded
<1> QED
  BY <1>1, <1>2, Dropping

LEMMA RoomMade ==
  ASSUME NEW store, Bounded(store), NEW left \in MakeRoom(store)
  PROVE  /\ left \in [Names -> Buckets]
         /\ \A n \in Names :
              left[n] = store[n] \/ (left[n] = NoBucket /\ store[n].lock = 0)
BY BucketTypes DEF MakeRoom, Bounded

\* _bucket_for_failure: what a failure finds, and leaves of the others.
LEMMA BucketFound ==
  ASSUME Bounded(buckets), NEW n \in Names, NEW store \in WithBucket(n)
  PROVE  /\ Bounded(store)
         /\ \A m \in Names \ {n} :
              store[m] = buckets[m] \/ (store[m] = NoBucket /\ buckets[m].lock = 0)
         /\ \/ store[n] = buckets[n]
            \/ buckets[n] = NoBucket /\ store[n] = NewBucket
<1>1. CASE buckets[n].kept
  BY <1>1 DEF WithBucket
<1>2. CASE ~buckets[n].kept
  <2>1. PICK left \in MakeRoom(Cleaned) :
          store = IF Full(left) THEN left ELSE [left EXCEPT ![n] = NewBucket]
    BY <1>2 DEF WithBucket
  <2>2. /\ left \in [Names -> Buckets]
        /\ \A m \in Names :
             left[m] = buckets[m] \/ (left[m] = NoBucket /\ buckets[m].lock = 0)
    BY <2>1, RoomMade, Cleaning, BucketTypes
  <2>3. Bounded(left)
    BY <2>2, Dropping
  <2>4. buckets[n] = NoBucket /\ left[n] = NoBucket
    BY <1>2, <2>2 DEF Bounded
  <2>5. CASE Full(left)
    BY <2>1, <2>2, <2>3, <2>4, <2>5
  <2>6. CASE ~Full(left)
    <3>1. store = [left EXCEPT ![n] = NewBucket]
      BY <2>1, <2>6
    <3>2. /\ store \in [Names -> Buckets] /\ store[n] = NewBucket
          /\ \A m \in Names \ {n} : store[m] = left[m]
      BY <2>2, <3>1, BucketTypes
    <3>3. Kept(store) = Kept(left) \cup {n}
      BY <3>2, BucketTypes DEF Kept
    <3>4. Cardinality(Kept(left)) \in Nat /\ Cardinality(Kept(left)) < MaxBuckets
      BY <2>3, <2>6, FS_CardinalityType, LimitsType DEF Full, Bounded, Kept
    <3>5. IsFiniteSet(Kept(store)) /\ Cardinality(Kept(store)) <= MaxBuckets
      <4>1. IsFiniteSet(Kept(left))
        BY <2>3 DEF Bounded
      <4>2. /\ IsFiniteSet(Kept(left) \cup {n})
            /\ \/ Cardinality(Kept(left) \cup {n}) = Cardinality(Kept(left))
               \/ Cardinality(Kept(left) \cup {n}) = Cardinality(Kept(left)) + 1
        BY <4>1, FS_AddElement
      <4> QED
        BY <3>3, <3>4, <4>2, LimitsType
    <3>6. \A m \in Names :
            /\ Len(store[m].attempts) < MaxAttempts
            /\ ~store[m].kept => store[m] = NoBucket
      BY <2>3, <3>2, BucketTypes, EmptyAges, LimitsType DEF Bounded
    <3>7. Bounded(store)
      BY <3>2, <3>5, <3>6 DEF Bounded
    <3> QED
      BY <2>2, <2>4, <3>2, <3>7
  <2> QED
    BY <2>5, <2>6
<1> QED
  BY <1>1, <1>2

\* The failure that makes MaxAttempts locks, and no other one.
LEMMA FailureCounts ==
  ASSUME NEW bucket \in Buckets, bucket.kept, Len(bucket.attempts) < MaxAttempts
  PROVE  /\ Failed(bucket) \in Buckets /\ Failed(bucket).kept
         /\ Len(Failed(bucket).attempts) < MaxAttempts
         /\ Len(bucket.attempts) + 1 >= MaxAttempts =>
              Failed(bucket).attempts = <<>> /\ Failed(bucket).lock = Lockout
         /\ Len(bucket.attempts) + 1 < MaxAttempts =>
              /\ Failed(bucket).attempts = Append(bucket.attempts, 0)
              /\ Failed(bucket).lock = bucket.lock
<1> DEFINE more == Append(bucket.attempts, 0)
<1>1. bucket.attempts \in Ages /\ 0 \in 0 .. Window - 1 /\ 0 \in 0 .. Window + 1
  BY BucketsAre, LimitsType
<1>2. more \in Ages /\ Len(more) = Len(bucket.attempts) + 1 /\ Len(more) \in Nat
  BY <1>1, AppendProperties, AgesType DEF Ages
<1>3. CASE Len(more) >= MaxAttempts
  <2>1. Failed(bucket) = [NewBucket EXCEPT !.lock = Lockout]
    BY <1>3 DEF Failed
  <2> QED
    <3>1. Failed(bucket) = [kept |-> TRUE, attempts |-> <<>>, lock |-> Lockout, idle |-> 0]
      BY <2>1 DEF NewBucket, NoBucket
    <3>2. Lockout \in 0 .. Lockout /\ 0 \in 0 .. Window + 1 /\ <<>> \in Ages
      BY EmptyAges, LimitsType
    <3>3. Failed(bucket) \in Buckets
      BY <3>1, <3>2, BucketsAre
    <3> QED
      BY <1>2, <1>3, <3>1, <3>3, EmptyAges, LimitsType
<1>4. CASE Len(more) < MaxAttempts
  <2>1. Failed(bucket) = [bucket EXCEPT !.attempts = more, !.idle = 0]
    BY <1>2, <1>4, LimitsType DEF Failed
  <2> HIDE DEF more
  <2>2. /\ Failed(bucket) \in Buckets /\ Failed(bucket).kept
        /\ Failed(bucket).attempts = more /\ Failed(bucket).lock = bucket.lock
    BY <1>1, <1>2, <2>1, BucketsAre
  <2> QED
    BY <1>2, <1>4, <2>2, LimitsType DEF more
<1> QED
  BY <1>2, <1>3, <1>4, LimitsType

-----------------------------------------------------------------------------
LEMMA LimiterStarts == LimiterInit => LimiterInv
<1> SUFFICES ASSUME LimiterInit PROVE LimiterInv
  OBVIOUS
<1>1. Kept(buckets) = {}
  BY BucketTypes DEF LimiterInit, Kept
<1>2. IsFiniteSet(Kept(buckets)) /\ Cardinality(Kept(buckets)) <= MaxBuckets
  BY <1>1, FS_EmptySet, LimitsType
<1>3. Bounded(buckets)
  BY <1>2, BucketTypes, EmptyAges, LimitsType DEF LimiterInit, Bounded
<1>4. CountedInv
  BY EmptyAges DEF LimiterInit, CountedInv
<1>5. counters \in [Names -> Counters] /\ backend \in {"memory", "redis"}
  BY BucketTypes DEF LimiterInit
<1>6. InMemory
  BY BucketTypes DEF LimiterInit, InMemory
<1>7. \A n \in Names : Tracks(counters[n], counted[n])
  BY EmptyAges, LimitsType DEF LimiterInit, NoCounter, Tracks
<1>8. InRedis
  BY <1>7 DEF LimiterInit, InRedis
<1> QED
  BY <1>3, <1>4, <1>5, <1>6, <1>8 DEF LimiterInv

SameLocks == \A n \in Names : Locked(n)' <=> Locked(n)

LEMMA EnforceStep ==
  ASSUME LimiterInv, NEW n \in Names, Enforce(n)
  PROVE  LimiterInv' /\ SameLocks
<1>1. /\ buckets' = Cleaned /\ counters' = counters /\ counted' = counted /\ backend' = backend
  BY DEF Enforce
<1>2. Bounded(Cleaned)
  BY Cleaning DEF LimiterInv
<1>3. Bounded(buckets')
  BY <1>1, <1>2
<1>4. \A m \in Names :
        \/ buckets'[m] = buckets[m]
        \/ /\ buckets'[m] = NoBucket
           /\ buckets[m].lock = 0 /\ buckets[m].attempts = <<>>
  BY <1>1, Cleaning DEF LimiterInv
<1>5. InMemory => InMemory'
  BY <1>1, <1>4, BucketTypes DEF InMemory
<1>6. InRedis => InRedis'
  BY <1>1, <1>4 DEF InRedis
<1>7. CountedInv'
  BY <1>1 DEF LimiterInv, CountedInv
<1>8. LimiterInv'
  BY <1>1, <1>3, <1>5, <1>6, <1>7 DEF LimiterInv
<1>9. SameLocks
  BY <1>1, <1>4, BucketTypes DEF SameLocks, Locked
<1> QED
  BY <1>8, <1>9

\* What a failure may do: it ends no lock, and locks for MaxAttempts failures.
LocksRightly ==
  \A n \in Names :
    /\ Locked(n) => Locked(n)'
    /\ ~Locked(n) /\ Locked(n)' => Len(counted[n]) + 1 >= MaxAttempts

LEMMA BucketFailureStep ==
  ASSUME LimiterInv, NEW n \in Names, backend = "memory",
         BucketFailure(n), UNCHANGED <<backend, counters>>
  PROVE  LimiterInv' /\ LocksRightly
<1>1. PICK store \in WithBucket(n) :
        /\ buckets' = IF store[n].kept THEN [store EXCEPT ![n] = Failed(@)] ELSE store
        /\ counted' = [m \in Names |->
             IF ~store[m].kept \/ (m = n /\ Len(store[m].attempts) + 1 >= MaxAttempts)
             THEN <<>>
             ELSE IF m = n THEN Append(counted[m], 0) ELSE counted[m]]
  BY DEF BucketFailure
<1>2. /\ Bounded(buckets) /\ InMemory /\ CountedInv
      /\ counters \in [Names -> Counters]
  BY DEF LimiterInv
<1>3. /\ Bounded(store)
      /\ \A m \in Names \ {n} :
           store[m] = buckets[m] \/ (store[m] = NoBucket /\ buckets[m].lock = 0)
      /\ store[n] = buckets[n] \/ (buckets[n] = NoBucket /\ store[n] = NewBucket)
  BY <1>2, BucketFound
<1>4. store \in [Names -> Buckets] /\ \A m \in Names : store[m].attempts \in Ages
  BY <1>3, BucketsAre DEF Bounded
<1>5. ASSUME store[n].kept
      PROVE  /\ Failed(store[n]) \in Buckets /\ Failed(store[n]).kept
             /\ Len(Failed(store[n]).attempts) < MaxAttempts
             /\ Len(store[n].attempts) + 1 >= MaxAttempts =>
                  Failed(store[n]).attempts = <<>> /\ Failed(store[n]).lock = Lockout
             /\ Len(store[n].attempts) + 1 < MaxAttempts =>
                  /\ Failed(store[n]).attempts = Append(store[n].attempts, 0)
                  /\ Failed(store[n]).lock = store[n].lock
  BY <1>3, <1>4, <1>5, FailureCounts DEF Bounded
<1>6. \A m \in Names \ {n} : buckets'[m] = store[m]
  BY <1>1, <1>4
<1>7. store[n].kept => buckets' = [store EXCEPT ![n] = Failed(store[n])]
  BY <1>1
<1>8. buckets'[n] = IF store[n].kept THEN Failed(store[n]) ELSE store[n]
  BY <1>1, <1>4, <1>7
<1>9. Bounded(buckets')
  <2>1. buckets' \in [Names -> Buckets]
    BY <1>1, <1>4, <1>5
  <2>2. Kept(buckets') = Kept(store)
    BY <1>5, <1>6, <1>8 DEF Kept
  <2>3. \A m \in Names :
          /\ Len(buckets'[m].attempts) < MaxAttempts
          /\ ~buckets'[m].kept => buckets'[m] = NoBucket
    BY <1>3, <1>5, <1>6, <1>8 DEF Bounded
  <2> QED
    BY <1>3, <2>1, <2>2, <2>3 DEF Bounded
<1>10. \A m \in Names : store[m].kept => store[m].attempts = counted[m]
  BY <1>2, <1>3, BucketTypes DEF InMemory
<1>11. \A m \in Names :
         \/ counted'[m] = <<>>
         \/ counted'[m] = counted[m]
         \/ counted'[m] = Append(counted[m], 0)
  BY <1>1
<1>12. CountedInv'
  <2>1. \A m \in Names : counted'[m] \in Ages /\ Ordered(counted'[m])
    BY <1>2, <1>11, AppendNow, EmptyAges DEF CountedInv
  <2>2. counted' \in [Names -> Ages]
    BY <1>1, <2>1
  <2> QED
    BY <2>1, <2>2 DEF CountedInv
<1>13. \A m \in Names : Len(store[m].attempts) \in Nat
  BY <1>4, AgesType
<1>14. \A m \in Names : counted'[m] = buckets'[m].attempts
  <2>1. ASSUME NEW m \in Names \ {n} PROVE counted'[m] = buckets'[m].attempts
    BY <1>1, <1>3, <1>6, <1>10, BucketTypes DEF Bounded
  <2>2. ASSUME ~store[n].kept
        PROVE  counted'[n] = buckets'[n].attempts
    BY <1>1, <1>3, <1>8, <2>2, BucketTypes DEF Bounded
  <2>3. ASSUME store[n].kept /\ Len(store[n].attempts) + 1 >= MaxAttempts
        PROVE  counted'[n] = buckets'[n].attempts
    BY <1>1, <1>5, <1>8, <2>3
  <2>4. ASSUME store[n].kept /\ Len(store[n].attempts) + 1 < MaxAttempts
        PROVE  counted'[n] = buckets'[n].attempts
    <3>1. counted'[n] = Append(counted[n], 0)
      BY <1>1, <1>13, <2>4, LimitsType
    <3> QED
      BY <1>5, <1>8, <1>10, <2>4, <3>1
  <2> QED
    BY <1>13, <2>1, <2>2, <2>3, <2>4, LimitsType
<1>15. InMemory'
  BY <1>2, <1>14 DEF InMemory
<1>16. LimiterInv'
  BY <1>2, <1>9, <1>12, <1>15 DEF LimiterInv
<1>17. LocksRightly
  <2>1. \A m \in Names : counters[m].lock = 0 /\ counters'[m].lock = 0
    BY <1>2 DEF InMemory, NoCounter
  <2>2. ASSUME NEW m \in Names \ {n}
        PROVE  /\ Locked(m) => Locked(m)'
               /\ ~Locked(m) /\ Locked(m)' => Len(counted[m]) + 1 >= MaxAttempts
    BY <1>3, <1>6, <2>1, BucketTypes DEF Locked
  <2>3. ASSUME ~store[n].kept
        PROVE  /\ Locked(n) => Locked(n)'
               /\ ~Locked(n) /\ Locked(n)' => Len(counted[n]) + 1 >= MaxAttempts
    BY <1>3, <1>8, <2>1, <2>3, BucketTypes DEF Locked
  <2>4. ASSUME store[n].kept /\ Len(store[n].attempts) + 1 >= MaxAttempts
        PROVE  /\ Locked(n) => Locked(n)'
               /\ ~Locked(n) /\ Locked(n)' => Len(counted[n]) + 1 >= MaxAttempts
    <3>1. Locked(n)'
      BY <1>5, <1>8, <2>4, LimitsType DEF Locked
    <3>2. Len(counted[n]) + 1 >= MaxAttempts
      BY <1>10, <2>4
    <3> QED
      BY <3>1, <3>2
  <2>5. ASSUME store[n].kept /\ Len(store[n].attempts) + 1 < MaxAttempts
        PROVE  /\ Locked(n) => Locked(n)'
               /\ ~Locked(n) /\ Locked(n)' => Len(counted[n]) + 1 >= MaxAttempts
    <3>1. buckets'[n].lock = store[n].lock
      BY <1>5, <1>8, <2>5
    <3>2. store[n].lock = buckets[n].lock
      BY <1>3, BucketTypes
    <3> QED
      BY <2>1, <3>1, <3>2 DEF Locked
  <2>6. /\ Locked(n) => Locked(n)'
        /\ ~Locked(n) /\ Locked(n)' => Len(counted[n]) + 1 >= MaxAttempts
    BY <1>13, <2>3, <2>4, <2>5, LimitsType
  <2> QED
    BY <2>2, <2>6 DEF LocksRightly
<1> QED
  BY <1>16, <1>17

LEMMA SuccessStep ==
  ASSUME LimiterInv, NEW n \in Names, RegisterSuccess(n)
  PROVE  /\ LimiterInv'
         /\ \A m \in Names \ {n} : Locked(m)' <=> Locked(m)
         /\ ~Locked(n)'
<1>1. /\ buckets' = [buckets EXCEPT ![n] = NoBucket]
      /\ counters' = [counters EXCEPT ![n] = NoCounter]
      /\ counted' = [counted EXCEPT ![n] = <<>>]
      /\ backend' = backend
  BY DEF RegisterSuccess
<1>2. /\ buckets' \in [Names -> Buckets] /\ buckets'[n] = NoBucket
      /\ counters' \in [Names -> Counters] /\ counters'[n] = NoCounter
      /\ counted' \in [Names -> Ages] /\ counted'[n] = <<>>
      /\ \A m \in Names \ {n} :
           buckets'[m] = buckets[m] /\ counters'[m] = counters[m] /\ counted'[m] = counted[m]
  BY <1>1, BucketTypes, EmptyAges DEF LimiterInv, Bounded, CountedInv
<1>3. Bounded(buckets')
  BY <1>2, Dropping DEF LimiterInv
<1>4. CountedInv'
  BY <1>2, EmptyAges DEF LimiterInv, CountedInv
<1>5. InMemory => InMemory'
  BY <1>2, BucketTypes DEF InMemory
<1>6. Tracks(NoCounter, <<>>)
  BY EmptyAges, LimitsType DEF NoCounter, Tracks
<1>7. InRedis => InRedis'
  BY <1>2, <1>6 DEF InRedis
<1>8. LimiterInv'
  BY <1>1, <1>2, <1>3, <1>4, <1>5, <1>7 DEF LimiterInv
<1> QED
  BY <1>2, <1>8, BucketTypes DEF Locked, NoCounter

-----------------------------------------------------------------------------
LEMMA CountersAre ==
  ASSUME NEW counter \in Counters
  PROVE  counter.failures \in Nat /\ counter.left \in 0 .. Window /\ counter.lock \in 0 .. Lockout
BY LimitsType DEF Counters

LEMMA TracksWhen ==
  ASSUME NEW counter, NEW ages, NEW failures \in Nat, NEW left \in Nat,
         counter.failures = failures, counter.left = left,
         failures < MaxAttempts, failures <= Len(ages), failures = 0 <=> left = 0,
         failures > 0 => ages[Len(ages) - failures + 1] + left = Window,
         MaxAttempts = 1 => Len(ages) = 0,
         MaxAttempts > 1 => Len(ages) <= failures + (MaxAttempts - 2)
  PROVE  Tracks(counter, ages)
BY DEF Tracks

\* A failure is the last one of the counter that counts it.
LEMMA CountingTracks ==
  ASSUME NEW counter \in Counters, NEW ages \in Ages, Ordered(ages), Tracks(counter, ages),
         counter.failures + 1 < MaxAttempts
  PROVE  /\ Counted(counter) \in Counters /\ Counted(counter).lock = counter.lock
         /\ Tracks(Counted(counter), Append(ages, 0))
<1> DEFINE left == IF counter.left = 0 THEN Window ELSE counter.left
           more == Append(ages, 0)
<1>1. /\ counter.failures \in Nat /\ counter.left \in 0 .. Window /\ counter.lock \in 0 .. Lockout
      /\ Len(ages) \in Nat
  BY CountersAre, AgesType
<1>2. Counted(counter) = [counter EXCEPT !.failures = counter.failures + 1, !.left = left]
  BY <1>1, LimitsType DEF Counted
<1>3. counter.failures + 1 \in 0 .. MaxAttempts /\ left \in 0 .. Window
  BY <1>1, LimitsType
<1>4. /\ Counted(counter) \in Counters /\ Counted(counter).lock = counter.lock
      /\ Counted(counter).failures = counter.failures + 1 /\ Counted(counter).left = left
  <2> HIDE DEF left
  <2> QED
    BY <1>2, <1>3 DEF Counters
<1>5. /\ Len(more) = Len(ages) + 1 /\ more[Len(ages) + 1] = 0
      /\ \A i \in 1 .. Len(ages) : more[i] = ages[i]
  BY AppendNow
<1> HIDE DEF more
<1>6. more[Len(ages) + 1 - counter.failures] + left = Window
  <2>1. CASE counter.failures = 0
    BY <1>1, <1>5, <2>1, LimitsType DEF Tracks
  <2>2. CASE counter.failures > 0
    <3>1. Len(ages) + 1 - counter.failures \in 1 .. Len(ages)
      BY <1>1, <2>2 DEF Tracks
    <3>2. Len(ages) + 1 - counter.failures = Len(ages) - counter.failures + 1
      BY <1>1
    <3> QED
      BY <1>1, <1>5, <2>2, <3>1, <3>2 DEF Tracks
  <2> QED
    BY <1>1, <2>1, <2>2
<1>7. Len(more) - (counter.failures + 1) + 1 = Len(ages) + 1 - counter.failures
  BY <1>1, <1>5
<1>8. Tracks(Counted(counter), more)
  <2> DEFINE failures == counter.failures + 1
  <2>1. left > 0 /\ left \in Nat /\ failures \in Nat /\ failures > 0 /\ failures < MaxAttempts
    BY <1>1, LimitsType
  <2>2. failures <= Len(more)
    BY <1>1, <1>5 DEF Tracks
  <2>3. more[Len(more) - failures + 1] + left = Window
    BY <1>6, <1>7
  <2>4. MaxAttempts # 1 /\ Len(more) <= failures + (MaxAttempts - 2)
    BY <1>1, <1>5, LimitsType DEF Tracks
  <2>5. Counted(counter).failures = failures /\ Counted(counter).left = left
    BY <1>4
  <2> HIDE DEF left, failures
  <2>6. failures = 0 <=> left = 0
    BY <2>1
  <2> QED
    BY <2>1, <2>2, <2>3, <2>4, <2>5, <2>6, TracksWhen
<1> QED
  BY <1>4, <1>8 DEF more

LEMMA CounterFailureStep ==
  ASSUME LimiterInv, NEW n \in Names, backend = "redis",
         CounterFailure(n), UNCHANGED <<backend, buckets>>
  PROVE  LimiterInv' /\ LocksRightly
<1>1. /\ Bounded(buckets) /\ InRedis /\ CountedInv /\ counters \in [Names -> Counters]
  BY DEF LimiterInv
<1>2. Bounded(buckets')
  BY <1>1
<1>3. counters[n] \in Counters /\ counted[n] \in Ages /\ Ordered(counted[n])
      /\ Tracks(counters[n], counted[n])
  BY <1>1 DEF InRedis, CountedInv
<1>4. counters[n].failures \in Nat /\ counters[n].lock \in 0 .. Lockout
  BY <1>3, CountersAre
<1>5. CASE counters[n].lock > 0
  <2>1. counters' = counters /\ counted' = counted
    BY <1>5 DEF CounterFailure
  <2>2. CountedInv' /\ InRedis'
    BY <1>1, <2>1 DEF CountedInv, InRedis
  <2>3. SameLocks
    BY <2>1 DEF SameLocks, Locked
  <2> QED
    BY <1>1, <1>2, <2>1, <2>2, <2>3 DEF LimiterInv, LocksRightly, SameLocks
<1>6. CASE counters[n].lock = 0
  <2>1. /\ counters' = [counters EXCEPT ![n] = Counted(counters[n])]
        /\ counted' = [counted EXCEPT ![n] =
             IF counters'[n].lock > 0 THEN <<>> ELSE Append(counted[n], 0)]
    BY <1>6 DEF CounterFailure
  <2>2. /\ counters'[n] = Counted(counters[n])
        /\ \A m \in Names \ {n} : counters'[m] = counters[m] /\ counted'[m] = counted[m]
    BY <1>1, <2>1 DEF CountedInv
  <2>3. counted'[n] = IF counters'[n].lock > 0 THEN <<>> ELSE Append(counted[n], 0)
    BY <1>1, <2>1 DEF CountedInv
  <2>4. /\ counters'[n] \in Counters /\ Tracks(counters'[n], counted'[n])
        /\ counters'[n].lock > 0 => counters[n].failures + 1 >= MaxAttempts
    <3>1. CASE counters[n].failures + 1 >= MaxAttempts
      <4>1. counters'[n] = [NoCounter EXCEPT !.lock = Lockout]
        BY <2>2, <3>1 DEF Counted
      <4>2. counters'[n] = [failures |-> 0, left |-> 0, lock |-> Lockout]
        BY <4>1 DEF NoCounter
      <4>3. counters'[n] \in Counters
        BY <4>2, LimitsType DEF Counters
      <4>4. counted'[n] = <<>>
        BY <2>3, <4>2, LimitsType
      <4>5. Tracks(counters'[n], <<>>)
        BY <4>2, EmptyAges, LimitsType DEF Tracks
      <4> QED
        BY <3>1, <4>3, <4>4, <4>5
    <3>2. CASE counters[n].failures + 1 < MaxAttempts
      BY <1>3, <1>6, <2>2, <2>3, <3>2, CountingTracks
    <3> QED
      BY <1>4, <3>1, <3>2, LimitsType
  <2>5. counters' \in [Names -> Counters]
    BY <1>1, <2>1, <2>2, <2>4
  <2>6. CountedInv'
    <3>1. \A m \in Names : counted'[m] \in Ages /\ Ordered(counted'[m])
      BY <1>1, <1>3, <2>2, <2>3, AppendNow, EmptyAges DEF CountedInv
    <3>2. counted' \in [Names -> Ages]
      BY <1>1, <2>1, <3>1 DEF CountedInv
    <3> QED
      BY <3>1, <3>2 DEF CountedInv
  <2>7. InRedis'
    BY <1>1, <2>2, <2>4 DEF InRedis
  <2>8. LimiterInv'
    BY <1>2, <2>5, <2>6, <2>7 DEF LimiterInv
  <2>9. LocksRightly
    <3>1. counters[n].failures + 1 >= MaxAttempts => Len(counted[n]) + 1 >= MaxAttempts
      BY <1>3, <1>4, AgesType, LimitsType DEF Tracks
    <3>2. \A m \in Names : buckets[m].lock = 0
      BY <1>1, BucketTypes DEF InRedis
    <3> QED
      BY <1>6, <2>2, <2>4, <3>1, <3>2 DEF LocksRightly, Locked
  <2> QED
    BY <2>8, <2>9
<1> QED
  BY <1>4, <1>5, <1>6

LEMMA FailureStep ==
  ASSUME LimiterInv, NEW n \in Names, RegisterFailure(n)
  PROVE  LimiterInv' /\ LocksRightly
BY BucketFailureStep, CounterFailureStep DEF RegisterFailure

-----------------------------------------------------------------------------
\* When its counter has run out, the first of its failures is too old to count.
LEMMA AgingTracks ==
  ASSUME NEW counter \in Counters, NEW ages \in Ages, Ordered(ages), Tracks(counter, ages),
         NEW next, next = [failures |-> IF counter.left <= 1 THEN 0 ELSE counter.failures,
                           left |-> Less(counter.left), lock |-> Less(counter.lock)]
  PROVE  next \in Counters /\ Tracks(next, Aged(ages))
<1>1. /\ counter.failures \in Nat /\ counter.left \in 0 .. Window /\ counter.lock \in 0 .. Lockout
      /\ Len(ages) \in Nat
      /\ \A i \in 1 .. Len(ages) : ages[i] \in 0 .. Window - 1 /\ ages[i] \in Nat
  BY CountersAre, AgesType
<1>2. PICK old \in 0 .. Len(ages) :
        /\ \A i \in 1 .. Len(ages) : ages[i] + 1 >= Window <=> i <= old
        /\ Aged(ages) = [i \in 1 .. Len(ages) - old |-> ages[old + i] + 1]
  BY AgedIsTheEnd
<1>3. Len(Aged(ages)) = Len(ages) - old
  BY <1>1, <1>2
<1>4. next \in Counters
  BY <1>1, LimitsType DEF Counters, Less, Tracks
<1>5. CASE counter.left <= 1
  <2>1. next.failures = 0 /\ next.left = 0
    BY <1>1, <1>5 DEF Less
  <2>2. ASSUME MaxAttempts > 1
        PROVE  Len(ages) - old <= MaxAttempts - 2
    <3>1. CASE counter.failures = 0
      BY <1>1, <1>2, <2>2, <3>1, LimitsType DEF Tracks
    <3>2. CASE counter.failures > 0
      <4> DEFINE first == Len(ages) - counter.failures + 1
      <4>1. first \in 1 .. Len(ages) /\ ages[first] + 1 = Window
        BY <1>1, <1>5, <3>2 DEF Tracks
      <4>2. first <= old
        BY <1>2, <4>1, LimitsType
      <4> QED
        BY <1>1, <4>2, LimitsType DEF Tracks
    <3> QED
      BY <1>1, <3>1, <3>2
  <2>3. MaxAttempts = 1 => Len(Aged(ages)) = 0
    BY <1>1, <1>2, <1>3 DEF Tracks
  <2>4. MaxAttempts > 1 => Len(Aged(ages)) <= 0 + (MaxAttempts - 2)
    BY <1>3, <2>2, LimitsType
  <2>5. 0 \in Nat /\ 0 < MaxAttempts /\ 0 <= Len(Aged(ages)) /\ ~(0 > 0)
    BY <1>1, <1>2, <1>3, LimitsType
  <2> QED
    BY <1>4, <2>1, <2>3, <2>4, <2>5, TracksWhen
<1>6. CASE counter.left > 1
  <2> DEFINE first == Len(ages) - counter.failures + 1
  <2>1. next.failures = counter.failures /\ next.left = counter.left - 1
    BY <1>1, <1>6 DEF Less
  <2>2. /\ counter.failures > 0 /\ first \in 1 .. Len(ages)
        /\ ages[first] + counter.left = Window
    BY <1>1, <1>6 DEF Tracks
  <2>3. ~(first <= old)
    BY <1>1, <1>2, <1>6, <2>2, LimitsType
  <2>4. first - old \in 1 .. Len(ages) - old /\ old + (first - old) = first
    BY <1>1, <1>2, <2>2, <2>3
  <2>5. Aged(ages)[first - old] = ages[first] + 1
    BY <1>2, <2>4
  <2>6. Aged(ages)[first - old] + (counter.left - 1) = Window
    <3>1. ages[first] \in Nat /\ counter.left \in Nat
      BY <1>1, <2>2
    <3> HIDE DEF first
    <3> QED
      BY <2>2, <2>5, <3>1
  <2>7. Len(Aged(ages)) - counter.failures + 1 = first - old
    BY <1>1, <1>2, <1>3
  <2>8. /\ counter.failures <= Len(Aged(ages)) /\ Len(Aged(ages)) <= Len(ages)
        /\ Len(Aged(ages)) \in Nat
    BY <1>1, <1>2, <1>3, <2>3
  <2>9. MaxAttempts = 1 => Len(Aged(ages)) = 0
    BY <1>1, <2>8 DEF Tracks
  <2>10. MaxAttempts > 1 => Len(Aged(ages)) <= counter.failures + (MaxAttempts - 2)
    BY <1>1, <2>8, LimitsType DEF Tracks
  <2>11. /\ counter.left - 1 \in Nat /\ counter.failures < MaxAttempts
         /\ counter.failures = 0 <=> counter.left - 1 = 0
    BY <1>1, <1>6, <2>2 DEF Tracks
  <2> HIDE DEF first
  <2>12. counter.failures > 0 =>
           Aged(ages)[Len(Aged(ages)) - counter.failures + 1] + (counter.left - 1) = Window
    BY <2>6, <2>7
  <2> QED
    BY <1>1, <1>4, <2>1, <2>8, <2>9, <2>10, <2>11, <2>12, TracksWhen
<1> QED
  BY <1>1, <1>5, <1>6

LEMMA TickStep ==
  ASSUME LimiterInv, Tick
  PROVE  LimiterInv' /\ \A n \in Names : Locked(n)' => Locked(n)
<1>1. /\ Bounded(buckets) /\ CountedInv /\ counters \in [Names -> Counters]
      /\ backend \in {"memory", "redis"} /\ backend' = backend
  BY DEF LimiterInv, Tick
<1>2. \A n \in Names : counted[n] \in Ages /\ Ordered(counted[n]) /\ counted'[n] = Aged(counted[n])
  BY <1>1 DEF CountedInv, Tick
<1>3. CountedInv'
  <2>1. counted' = [n \in Names |-> Aged(counted[n])]
    BY DEF Tick
  <2> QED
    BY <1>2, <2>1, AgedType DEF CountedInv
<1>4. \A n \in Names :
        counters'[n] = [failures |-> IF counters[n].left <= 1 THEN 0 ELSE counters[n].failures,
                        left |-> Less(counters[n].left), lock |-> Less(counters[n].lock)]
  BY DEF Tick
<1> DEFINE Older(n) == IF buckets[n].kept
                       THEN [buckets[n] EXCEPT
                               !.attempts = Aged(buckets[n].attempts),
                               !.lock = Less(buckets[n].lock),
                               !.idle = IF buckets[n].idle > Window
                                        THEN buckets[n].idle ELSE buckets[n].idle + 1]
                       ELSE NoBucket
<1>5. buckets' = [n \in Names |-> Older(n)] /\ \A n \in Names : buckets'[n] = Older(n)
  BY DEF Tick
<1>6. \A n \in Names : Ordered(buckets[n].attempts)
  BY <1>1, BucketTypes, EmptyAges DEF LimiterInv, InMemory, InRedis, CountedInv
<1>7. ASSUME NEW n \in Names
      PROVE  /\ buckets'[n] \in Buckets /\ buckets'[n].kept = buckets[n].kept
             /\ buckets'[n].attempts = Aged(buckets[n].attempts)
             /\ Len(buckets'[n].attempts) < MaxAttempts
             /\ ~buckets'[n].kept => buckets'[n] = NoBucket
             /\ buckets'[n].lock > 0 => buckets[n].lock > 0
  <2>1. /\ buckets[n] \in Buckets /\ buckets[n].attempts \in Ages
        /\ buckets[n].lock \in 0 .. Lockout /\ buckets[n].idle \in 0 .. Window + 1
        /\ Len(buckets[n].attempts) < MaxAttempts
    BY <1>1, BucketsAre DEF Bounded
  <2>2. CASE ~buckets[n].kept
    <3>1. buckets[n] = NoBucket /\ buckets'[n] = NoBucket
      BY <1>1, <1>5, <2>2 DEF Bounded
    <3> QED
      BY <2>1, <2>2, <3>1, BucketTypes, EmptyAges
  <2>3. CASE buckets[n].kept
    <3> DEFINE aged == Aged(buckets[n].attempts)
               lock == Less(buckets[n].lock)
               idle == IF buckets[n].idle > Window THEN buckets[n].idle ELSE buckets[n].idle + 1
    <3>1. aged \in Ages /\ Len(aged) <= Len(buckets[n].attempts)
      BY <1>6, <2>1, AgedType
    <3>2. lock \in 0 .. Lockout /\ idle \in 0 .. Window + 1 /\ (lock > 0 => buckets[n].lock > 0)
      BY <2>1, LimitsType DEF Less
    <3>3. buckets'[n] = [buckets[n] EXCEPT !.attempts = aged, !.lock = lock, !.idle = idle]
      BY <1>5, <2>3
    <3> HIDE DEF aged, lock, idle
    <3>4. /\ buckets'[n] \in Buckets /\ buckets'[n].kept
          /\ buckets'[n].attempts = aged /\ buckets'[n].lock = lock
      BY <2>1, <2>3, <3>1, <3>2, <3>3, BucketsAre
    <3>5. Len(aged) \in Nat /\ Len(buckets[n].attempts) \in Nat
      BY <2>1, <3>1, AgesType
    <3>6. Len(aged) < MaxAttempts
      BY <2>1, <3>1, <3>5, LimitsType
    <3> QED
      BY <2>3, <3>2, <3>4, <3>6 DEF aged
  <2> QED
    BY <2>2, <2>3
<1>8. Bounded(buckets')
  <2>1. buckets' \in [Names -> Buckets]
    <3> HIDE DEF Older
    <3>1. \A n \in Names : Older(n) \in Buckets
      BY <1>5, <1>7
    <3> QED
      BY <1>5, <3>1
  <2>2. Kept(buckets') = Kept(buckets)
    BY <1>7 DEF Kept
  <2> QED
    BY <1>1, <1>7, <2>1, <2>2 DEF Bounded
<1>9. CASE backend = "memory"
  <2>1. InMemory
    BY <1>9 DEF LimiterInv
  <2>2. \A n \in Names : counters'[n] = NoCounter
    BY <1>4, <2>1 DEF InMemory, NoCounter, Less
  <2>3. \A n \in Names : counted'[n] = buckets'[n].attempts
    BY <1>2, <1>7, <2>1 DEF InMemory
  <2>4. counters' \in [Names -> Counters]
    BY <2>2, BucketTypes DEF Tick
  <2>5. InMemory'
    BY <2>2, <2>3 DEF InMemory
  <2>6. \A n \in Names : Locked(n)' => Locked(n)
    BY <1>7, <2>2 DEF Locked, NoCounter
  <2> QED
    BY <1>1, <1>3, <1>8, <1>9, <2>4, <2>5, <2>6 DEF LimiterInv
<1>10. CASE backend = "redis"
  <2>1. InRedis
    BY <1>10 DEF LimiterInv
  <2>2. \A n \in Names : counters'[n] \in Counters /\ Tracks(counters'[n], counted'[n])
    BY <1>1, <1>2, <1>4, <2>1, AgingTracks DEF InRedis
  <2>3. counters' \in [Names -> Counters]
    BY <2>2 DEF Tick
  <2>4. \A n \in Names : buckets'[n] = NoBucket
    BY <1>5, <2>1, BucketTypes DEF InRedis
  <2>5. InRedis'
    BY <2>2, <2>4 DEF InRedis
  <2>6. \A n \in Names : counters'[n].lock > 0 => counters[n].lock > 0
    <3> SUFFICES ASSUME NEW n \in Names PROVE counters'[n].lock > 0 => counters[n].lock > 0
      OBVIOUS
    <3>1. counters'[n].lock = Less(counters[n].lock)
      <4> DEFINE failures == IF counters[n].left <= 1 THEN 0 ELSE counters[n].failures
      <4>1. counters'[n] = [failures |-> failures, left |-> Less(counters[n].left),
                            lock |-> Less(counters[n].lock)]
        BY <1>4
      <4> HIDE DEF failures
      <4> QED
        BY <4>1
    <3>2. counters[n] \in Counters
      BY <1>1
    <3>3. counters[n].lock \in Nat
      BY <3>2, CountersAre, LimitsType
    <3> QED
      BY <3>1, <3>3 DEF Less
  <2>7. \A n \in Names : Locked(n)' => Locked(n)
    BY <2>4, <2>6, BucketTypes DEF Locked
  <2> QED
    BY <1>1, <1>3, <1>8, <1>10, <2>3, <2>5, <2>7 DEF LimiterInv
<1> QED
  BY <1>1, <1>9, <1>10

-----------------------------------------------------------------------------
\* Every step asks the limiter at most one thing.
LEMMA LimiterSteps ==
  ASSUME IInv, [Next]_vars
  PROVE  \/ UNCHANGED limiterVars
         \/ Tick
         \/ \E n \in Names : Enforce(n) \/ RegisterFailure(n) \/ RegisterSuccess(n)
<1>1. ASSUME NEW q \in Requests, req[q].op = "login"
      PROVE  req[q].name \in Names
  BY <1>1 DEF IInv, Shape, RequestRecords
<1>2. ASSUME NEW q \in Requests, NEW n \in Names, BeginLogin(q, n)
      PROVE  Enforce(n)
  BY <1>2 DEF BeginLogin
<1>3. ASSUME NEW q \in Requests, LoginFails(q)
      PROVE  \E n \in Names : RegisterFailure(n)
  BY <1>1, <1>3 DEF LoginFails
<1>4. ASSUME NEW q \in Requests, LoginSucceeds(q)
      PROVE  \E n \in Names : RegisterSuccess(n)
  BY <1>1, <1>4 DEF LoginSucceeds
<1>5. CASE PassTime
  BY <1>5 DEF PassTime
<1>6. CASE \/ \E q \in Requests, r \in Rows :
                Rotate(q, r) \/ RotateExpired(q, r) \/ BeginReplay(q, r) \/ BeginLogout(q, r)
           \/ \E q \in Requests :
                EndRotate(q) \/ RefuseRotate(q) \/ LoseRotate(q) \/ EndRevocation(q)
           \/ \E r \in Rows : Expire(r)
           \/ \E n \in Staff : Deactivate(n)
  BY <1>6 DEF Rotate, RotateExpired, BeginReplay, BeginLogout, EndRotate, RefuseRotate,
              LoseRotate, EndRevocation, Expire, Deactivate
<1>7. CASE UNCHANGED vars
  BY <1>7 DEF vars, limiterVars
<1> QED
  BY <1>2, <1>3, <1>4, <1>5, <1>6, <1>7 DEF Next

LEMMA LimiterUnchanged ==
  ASSUME LimiterInv, UNCHANGED limiterVars
  PROVE  LimiterInv' /\ SameLocks
BY DEF limiterVars, LimiterInv, CountedInv, InMemory, InRedis, SameLocks, Locked

LEMMA LimiterKept == IInv /\ LimiterInv /\ [Next]_vars => LimiterInv'
BY LimiterSteps, LimiterUnchanged, TickStep, EnforceStep, FailureStep, SuccessStep

LEMMA LimiterInductive == Spec => [](IInv /\ LimiterInv)
<1>1. Init => IInv /\ LimiterInv
  BY InitInv, LimiterStarts DEF Init
<1>2. IInv /\ LimiterInv /\ [Next]_vars => (IInv /\ LimiterInv)'
  BY StepInv, LimiterKept
<1> QED
  BY <1>1, <1>2, PTL DEF Spec

\* register_failure of Redis: of the failures of two counters that follow each
\* other, neither of which locked, at most 2 * MaxAttempts - 3 are within Window
\* of each other, whatever the limits are and however late they are registered.
THEOREM TriesAreBounded == Spec => []TriesBounded
<1>1. LimiterInv => TriesBounded
  <2> SUFFICES ASSUME LimiterInv, backend = "redis", NEW n \in Names
               PROVE  Len(counted[n]) <= IF MaxAttempts = 1 THEN 0 ELSE 2 * MaxAttempts - 3
    BY DEF TriesBounded
  <2>1. Tracks(counters[n], counted[n]) /\ counters[n] \in Counters /\ counted[n] \in Ages
    BY DEF LimiterInv, InRedis, CountedInv
  <2>2. counters[n].failures \in Nat /\ Len(counted[n]) \in Nat
    BY <2>1, CountersAre, AgesType
  <2> QED
    BY <2>1, <2>2, LimitsType DEF Tracks
<1> QED
  BY <1>1, LimiterInductive, PTL

LEMMA LockoutStep ==
  ASSUME IInv, LimiterInv, [Next]_vars
  PROVE  LockLasts /\ LockDeserved
<1>1. CASE SameLocks
  BY <1>1 DEF SameLocks, LockLasts, LockDeserved
<1>2. CASE Tick
  BY <1>2, TickStep DEF LockLasts, LockDeserved
<1>3. ASSUME NEW n \in Names, RegisterFailure(n)
      PROVE  LockLasts /\ LockDeserved
  BY <1>3, FailureStep DEF LocksRightly, LockLasts, LockDeserved
<1>4. ASSUME NEW n \in Names, RegisterSuccess(n)
      PROVE  LockLasts /\ LockDeserved
  BY <1>4, SuccessStep DEF LockLasts, LockDeserved
<1> QED
  BY <1>1, <1>2, <1>3, <1>4, LimiterSteps, LimiterUnchanged, EnforceStep

\* retry_after, register_failure and _bucket_for_failure: for any limits, names and
\* logins under way, and wherever the failures are counted, a lock ends only with
\* its time or with a login of that name, and only MaxAttempts failures begin one.
THEOREM LocksHold == Spec => LockoutHolds
<1>1. IInv /\ LimiterInv /\ [Next]_vars => [LockLasts /\ LockDeserved]_vars
  BY LockoutStep
<1> QED
  BY <1>1, LimiterInductive, PTL DEF Spec, LockoutHolds

-----------------------------------------------------------------------------
RowsTyped == rows \in [Rows -> RowRecords]

LEMMA RowsStayTyped ==
  ASSUME IInv, RowsTyped, [Next]_vars
  PROVE  RowsTyped'
<1>1. CASE UNCHANGED rows
  BY <1>1 DEF RowsTyped
<1>2. \A r \in Rows : rows[r].status # "none" =>
        /\ rows[r] \in [user : Staff, family : Rows, status : Statuses \ {"none"}]
        /\ rows[r].user \in Staff /\ rows[r].family \in Rows
  BY DEF RowsTyped, RowRecords, NoRow
<1>3. ASSUME NEW R \in SUBSET Rows
      PROVE  Revoked(R) \in [Rows -> RowRecords]
  <2>1. ASSUME NEW r \in Rows, rows[r].status # "none"
        PROVE  [rows[r] EXCEPT !.status = "revoked"] \in RowRecords
    BY <1>2, <2>1 DEF RowRecords
  <2> QED
    BY <2>1 DEF Revoked, RowsTyped
<1>4. ASSUME NEW q \in Requests, LoginSucceeds(q)
      PROVE  RowsTyped'
  <2>1. req[q].name \in Staff
    BY <1>4 DEF LoginSucceeds, IInv, Shape
  <2>2. \A r \in Rows : [user |-> req[q].name, family |-> r, status |-> "live"] \in RowRecords
    BY <2>1 DEF RowRecords
  <2> QED
    BY <1>1, <1>4, <2>2 DEF LoginSucceeds, RowsTyped
<1>5. ASSUME NEW q \in Requests, NEW r \in Rows, Rotate(q, r)
      PROVE  RowsTyped'
  <2>1. [user |-> rows[r].user, family |-> rows[r].family, status |-> "pending"] \in RowRecords
    BY <1>2, <1>5 DEF Rotate, IsActive, RowRecords
  <2> QED
    BY <1>5, <2>1 DEF Rotate, Mint, RowsTyped
<1>6. ASSUME NEW q \in Requests, NEW r \in Rows, RotateExpired(q, r)
      PROVE  RowsTyped'
  BY <1>3, <1>6 DEF RotateExpired, RowsTyped
<1>7. ASSUME NEW q \in Requests, EndRotate(q)
      PROVE  RowsTyped'
  <2>1. /\ req[q].row \in Rows /\ req[q].minted \in Rows
        /\ req[q].row # req[q].minted /\ rows[req[q].minted].status = "pending"
    BY <1>7 DEF EndRotate, IInv, Rotations
  <2>2. Revoked({req[q].row}) \in [Rows -> RowRecords]
    BY <1>3, <2>1
  <2>3. Revoked({req[q].row})[req[q].minted] = rows[req[q].minted]
    BY <2>1 DEF Revoked
  <2>4. [rows[req[q].minted] EXCEPT !.status = "live"] \in RowRecords
    BY <1>2, <2>1 DEF RowRecords
  <2> QED
    BY <1>7, <2>1, <2>2, <2>3, <2>4 DEF EndRotate, RowsTyped
<1>8. ASSUME NEW q \in Requests, RefuseRotate(q)
      PROVE  RowsTyped'
  <2> DEFINE seen == Snapshot(rows[req[q].row].family) \cup {req[q].minted}
  <2>1. seen \in SUBSET Rows
    BY <1>8 DEF RefuseRotate, IInv, Rotations, Snapshot, Family
  <2>2. rows' = Revoked(seen)
    BY <1>8 DEF RefuseRotate
  <2> HIDE DEF seen
  <2> QED
    BY <1>3, <2>1, <2>2 DEF RowsTyped
<1>9. ASSUME NEW q \in Requests, LoseRotate(q)
      PROVE  RowsTyped'
  <2>1. NoRow \in RowRecords
    BY DEF RowRecords
  <2> QED
    BY <1>9, <2>1 DEF LoseRotate, RowsTyped
<1>10. ASSUME NEW q \in Requests, EndRevocation(q)
       PROVE  RowsTyped'
  <2>1. req[q].seen \in SUBSET Rows
    BY <1>10 DEF EndRevocation, IInv, Snapshots
  <2> QED
    BY <1>3, <1>10, <2>1 DEF EndRevocation, RowsTyped
<1>11. ASSUME NEW r \in Rows, Expire(r)
       PROVE  RowsTyped'
  <2>1. [rows[r] EXCEPT !.status = "expired"] \in RowRecords
    BY <1>2, <1>11 DEF Expire, IsActive, RowRecords
  <2>2. rows' = [rows EXCEPT ![r] = [rows[r] EXCEPT !.status = "expired"]]
    BY <1>11 DEF Expire
  <2> QED
    BY <2>1, <2>2 DEF RowsTyped
<1> QED
  BY <1>1, <1>4, <1>5, <1>6, <1>7, <1>8, <1>9, <1>10, <1>11
  DEF Next, BeginLogin, LoginFails, BeginReplay, BeginLogout, Deactivate, PassTime, vars

\* The sessions, the requests and the limiter are what the specification says they
\* are: no name has MaxAttempts failures in its bucket, and there are never more
\* than MaxBuckets of those.
THEOREM TypeCorrect == Spec => []TypeOK
<1>1. Init => RowsTyped
  BY DEF Init, RowsTyped, RowRecords
<1>2. IInv /\ LimiterInv /\ RowsTyped => TypeOK
  BY DEF IInv, Shape, LimiterInv, Bounded, Kept, CountedInv, Ages, RowsTyped, TypeOK, LimiterTypeOK
<1> QED
  BY <1>1, <1>2, RowsStayTyped, LimiterInductive, PTL DEF Spec

=============================================================================
