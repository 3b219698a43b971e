---------------------------- MODULE BudgetProofs ----------------------------
(***************************************************************************)
(* Proofs about BudgetRevisions: for any number of requests, lines,        *)
(* budgets and links.                                                      *)
(*                                                                         *)
(* Nothing about the rows is inductive alone: a commit writes what a       *)
(* request derived from the rows it read, so the invariant also says, for  *)
(* each kind of request, how its copy relates to what it read.             *)
(***************************************************************************)
EXTENDS BudgetRevisions, SequenceTheorems, TLAPS

\* The names BudgetRevisions gives to parts of its actions are always expanded.
USE DEF MayBecome, Editable, HasLine, Recalculated, WithLine, WithoutLine,
        Answer, HasOrder, OrderSubmitted, Submitted, Approved, Rejectable,
        MayStart, MayOverride, Decided, Superseded, Undecided

BudgetColumns == {"status", "token", "used", "total"}
OrderColumns == {"status", "mechanic", "total"}

\* How the copy q of a request was made from what the request read: n is the
\* number of budgets there are, clean that no stale copy was written.
EditCopy(q) ==
  /\ q.of # 0
  /\ q.seen.status = "DRAFT"
  /\ q.copy.status = q.seen.status
  /\ q.copy.token = q.seen.token
  /\ q.copy.used = q.seen.used
  /\ q.copy.total = Priced(q.copy.lines)
  /\ \A l \in Lines : q.copy.lines[l] = 0 => q.seen.lines[l] = 0

SendCopy(q) ==
  /\ q.of # 0
  /\ q.seen.status \in {"DRAFT", "SENT"}
  /\ q.seen.status = "SENT" => ~ q.seen.used
  /\ q.copy.status = "SENT"
  /\ ~ q.copy.used
  /\ q.copy.total = q.seen.total
  /\ q.copy.lines = q.seen.lines

ReviseCopy(q, clean) ==
  /\ q.of = 0
  /\ q.copy.status = "DRAFT"
  /\ q.copy.token = 0
  /\ clean => q.copy.total = Priced(q.copy.lines)

OverrideCopy(q) ==
  /\ q.of # 0 =>
       /\ q.seen.status = "SENT"
       /\ q.copy = [q.seen EXCEPT !.status = "SUPERSEDED", !.token = 0]
  /\ q.orderCopy = [q.orderSeen EXCEPT !.status = q.orderCopy.status]

OrderCopy(q) ==
  /\ q.of = 0
  /\ q.orderCopy.total = q.orderSeen.total
  /\ q.orderCopy.scope = q.orderSeen.scope
  /\ q.orderCopy.status = "AGUARDANDO_APROVACAO" =>
       q.orderSeen.status = "AGUARDANDO_APROVACAO"

Derived(q, n, clean) ==
  /\ q.of <= n
  /\ q.kind = "none" => q = Blank
  /\ q.kind = "edit" => EditCopy(q)
  /\ q.kind = "send" => SendCopy(q)
  /\ q.kind = "revise" => ReviseCopy(q, clean)
  /\ q.kind = "override" => OverrideCopy(q)
  /\ q.kind = "order" => OrderCopy(q)

RequestsDerived == \A r \in Requests : Derived(request[r], Len(budgets), ~stale)

\* The inductive invariant.
Inv == TypeOK /\ RequestsDerived /\ AgreeUnlessStale

-----------------------------------------------------------------------------
(***************************************************************************)
(* The values that are written.                                            *)
(***************************************************************************)

LEMMA BlankTypes ==
  /\ Draft \in Rows
  /\ NoOrder \in OrderRows
  /\ Blank \in RequestRows
<1>1. Nothing \in Sums /\ Nothing \in Quantities
  BY BoundsAssumption DEF Nothing, Sums, Quantities, Gone
<1>2. Draft \in Rows
  BY <1>1, BoundsAssumption DEF Draft, Rows, BudgetStatuses
<1>3. NoOrder \in OrderRows
  BY <1>1 DEF NoOrder, OrderRows, OrderStatuses
<1> QED
  BY <1>2, <1>3, BoundsAssumption DEF Blank, RequestRows

\* The price of any lines is a total, and pricing a priced quotation again
\* changes nothing.
LEMMA PricedType ==
  ASSUME NEW lines \in Quantities
  PROVE  /\ Priced(lines) \in Sums
         /\ Priced(lines) \in Quantities
         /\ Priced(Priced(lines)) = Priced(lines)
<1>1. \A l \in Lines : lines[l] \in 0 .. Gone
  BY DEF Quantities
<1>2. \A l \in Lines : (IF lines[l] = Gone THEN 0 ELSE lines[l]) \in 0 .. MaxUnits
  BY <1>1, BoundsAssumption DEF Gone
<1>3. Priced(lines) \in Sums
  BY <1>2 DEF Priced, Sums
<1>4. \A l \in Lines : Priced(lines)[l] \in 0 .. MaxUnits /\ Priced(lines)[l] # Gone
  BY <1>2, BoundsAssumption DEF Priced, Gone
<1>5. Priced(lines) \in Quantities
  BY <1>4, BoundsAssumption DEF Priced, Quantities, Gone
<1>6. Priced(Priced(lines)) = Priced(lines)
  <2>1. Priced(Priced(lines)) = [l \in Lines |-> Priced(lines)[l]]
    BY <1>4 DEF Priced
  <2> QED
    BY <2>1 DEF Priced
<1> QED
  BY <1>3, <1>5, <1>6

\* The columns save compares: those that differ are written, and where the
\* row is the one that was loaded, the row becomes the copy.
LEMMA WrittenBudget ==
  ASSUME NEW row \in Rows, NEW base \in Rows, NEW copy \in Rows
  PROVE  LET new == Written(row, base, copy, BudgetColumns)
         IN  /\ new \in Rows
             /\ new.lines = row.lines
             /\ new.revision = row.revision
             /\ row = base => /\ new.status = copy.status
                              /\ new.token = copy.token
                              /\ new.used = copy.used
                              /\ new.total = copy.total
<1> DEFINE new == Written(row, base, copy, BudgetColumns)
<1>1. DOMAIN row = {"status", "token", "used", "revision", "lines", "total"}
  BY DEF Rows
<1>2. new = [c \in {"status", "token", "used", "revision", "lines", "total"} |->
               IF c \in BudgetColumns /\ copy[c] # base[c] THEN copy[c] ELSE row[c]]
  BY <1>1 DEF Written
<1>3. /\ new.status = IF copy.status # base.status THEN copy.status ELSE row.status
      /\ new.token = IF copy.token # base.token THEN copy.token ELSE row.token
      /\ new.used = IF copy.used # base.used THEN copy.used ELSE row.used
      /\ new.total = IF copy.total # base.total THEN copy.total ELSE row.total
      /\ new.lines = row.lines
      /\ new.revision = row.revision
  BY <1>2 DEF BudgetColumns
<1>4. new = [status |-> new.status, token |-> new.token, used |-> new.used,
             revision |-> new.revision, lines |-> new.lines, total |-> new.total]
  BY <1>2
<1>5. /\ new.status \in BudgetStatuses
      /\ new.token \in 0 .. MaxLinks
      /\ new.used \in BOOLEAN
      /\ new.revision \in Nat
      /\ new.lines \in Quantities
      /\ new.total \in Sums
  BY <1>3 DEF Rows
<1>6. new \in Rows
  BY <1>4, <1>5 DEF Rows
<1> QED
  BY <1>3, <1>6

LEMMA WrittenOrder ==
  ASSUME NEW row \in OrderRows, NEW base \in OrderRows, NEW copy \in OrderRows
  PROVE  LET new == Written(row, base, copy, OrderColumns)
         IN  /\ new \in OrderRows
             /\ new.scope = row.scope
             /\ row = base => new.status = copy.status /\ new.total = copy.total
<1> DEFINE new == Written(row, base, copy, OrderColumns)
<1>1. DOMAIN row = {"status", "mechanic", "total", "scope"}
  BY DEF OrderRows
<1>2. new = [c \in {"status", "mechanic", "total", "scope"} |->
               IF c \in OrderColumns /\ copy[c] # base[c] THEN copy[c] ELSE row[c]]
  BY <1>1 DEF Written
<1>3. /\ new.status = IF copy.status # base.status THEN copy.status ELSE row.status
      /\ new.mechanic = IF copy.mechanic # base.mechanic THEN copy.mechanic ELSE row.mechanic
      /\ new.total = IF copy.total # base.total THEN copy.total ELSE row.total
      /\ new.scope = row.scope
  BY <1>2 DEF OrderColumns
<1>4. new = [status |-> new.status, mechanic |-> new.mechanic,
             total |-> new.total, scope |-> new.scope]
  BY <1>2
<1>5. /\ new.status \in OrderStatuses
      /\ new.mechanic \in BOOLEAN
      /\ new.total \in Sums
      /\ new.scope \in Sums
  BY <1>3 DEF OrderRows
<1>6. new \in OrderRows
  BY <1>4, <1>5 DEF OrderRows
<1> QED
  BY <1>3, <1>6

\* What save makes of a row, and what it makes of a row that is still the
\* one the request read.
LEMMA SavedRow ==
  ASSUME NEW row \in Rows, NEW q \in RequestRows
  PROVE  LET new == Saved(row, q)
         IN  /\ new \in Rows
             /\ new.revision = row.revision
             /\ new.lines = LinesWritten(row.lines, q.copy.lines)
             /\ q.base = row => /\ new.status = q.copy.status
                                /\ new.token = q.copy.token
                                /\ new.used = q.copy.used
                                /\ new.total = q.copy.total
<1> DEFINE cols == Written(row, q.base, q.copy, BudgetColumns)
           lns == LinesWritten(row.lines, q.copy.lines)
<1>0. q.base \in Rows /\ q.copy \in Rows
  BY DEF RequestRows
<1>1. /\ cols \in Rows
      /\ cols.revision = row.revision
      /\ row = q.base => /\ cols.status = q.copy.status
                         /\ cols.token = q.copy.token
                         /\ cols.used = q.copy.used
                         /\ cols.total = q.copy.total
  BY <1>0, WrittenBudget
<1>2. lns \in Quantities
  <2>1. \A l \in Lines : row.lines[l] \in 0 .. Gone /\ q.copy.lines[l] \in 0 .. Gone
    BY <1>0 DEF Rows, Quantities
  <2> QED
    BY <2>1 DEF LinesWritten, Quantities
<1>3. Saved(row, q) = [cols EXCEPT !.lines = lns]
  BY DEF Saved, BudgetColumns
<1>4. /\ Saved(row, q).lines = lns
      /\ Saved(row, q).status = cols.status
      /\ Saved(row, q).token = cols.token
      /\ Saved(row, q).used = cols.used
      /\ Saved(row, q).total = cols.total
      /\ Saved(row, q).revision = cols.revision
      /\ Saved(row, q) \in Rows
  <2> HIDE DEF cols, lns
  <2> QED
    BY <1>1, <1>2, <1>3 DEF Rows
<1> QED
  BY <1>1, <1>4

-----------------------------------------------------------------------------
(***************************************************************************)
(* Reading: the copies requests make.                                      *)
(***************************************************************************)

LEMMA BudgetType ==
  ASSUME TypeOK, NEW b \in DOMAIN budgets
  PROVE  /\ budgets[b] \in Rows
         /\ b \in 1 .. Len(budgets)
         /\ b \in 0 .. MaxBudgets /\ b # 0
<1>1. DOMAIN budgets = 1 .. Len(budgets) /\ Len(budgets) \in 1 .. MaxBudgets
  BY DEF TypeOK
<1>2. budgets[b] \in Rows
  BY <1>1 DEF TypeOK
<1> QED
  BY <1>1, <1>2, BoundsAssumption

LEMMA InitInv == Init => Inv
<1> SUFFICES ASSUME Init PROVE Inv
  OBVIOUS
<1>1. TypeOK
  <2>1. budgets \in Seq(Rows) /\ Len(budgets) = 1
    BY BlankTypes DEF Init
  <2>2. 1 \in 1 .. MaxBudgets /\ 0 \in 0 .. MaxLinks
    BY BoundsAssumption
  <2>3. request \in [Requests -> RequestRows]
    BY BlankTypes DEF Init
  <2>4. order \in OrderRows
    BY BlankTypes DEF Init
  <2> QED
    BY <2>1, <2>2, <2>3, <2>4 DEF Init, TypeOK
<1>2. RequestsDerived
  BY DEF Init, RequestsDerived, Derived, Blank
<1>3. AgreeUnlessStale
  <2>1. \A b \in DOMAIN budgets : budgets[b] = Draft
    BY DEF Init
  <2>2. Draft.total = Priced(Draft.lines)
    BY BoundsAssumption DEF Draft, Priced, Nothing, Gone
  <2> QED
    BY <2>1, <2>2 DEF Init, AgreeUnlessStale, PricedAsListed, AwaitsADecision, NoOrder, NotCreated
<1> QED
  BY <1>1, <1>2, <1>3 DEF Inv

\* One request goes on from a copy that is derived as its kind says; the rows
\* may change, but no budget goes.
LEMMA RequestStep ==
  ASSUME TypeOK, RequestsDerived, NEW r \in Requests, NEW q \in RequestRows,
         request' = [request EXCEPT ![r] = q],
         Len(budgets') \in Nat, Len(budgets') >= Len(budgets), stale => stale',
         Derived(q, Len(budgets'), ~stale')
  PROVE  request' \in [Requests -> RequestRows] /\ RequestsDerived'
<1>1. request' \in [Requests -> RequestRows]
  BY DEF TypeOK
<1>2. ASSUME NEW s \in Requests PROVE Derived(request'[s], Len(budgets'), ~stale')
  <2>1. CASE s = r
    BY <2>1 DEF TypeOK
  <2>2. CASE s # r
    <3>1. request'[s] = request[s] /\ Derived(request[s], Len(budgets), ~stale)
      BY <2>2 DEF TypeOK, RequestsDerived
    <3>2. request[s].of \in 0 .. MaxBudgets /\ Len(budgets) \in Nat
      BY DEF TypeOK, RequestRows
    <3>3. request[s].of <= Len(budgets')
      BY <3>1, <3>2 DEF Derived
    <3> QED
      BY <3>1, <3>3 DEF Derived, ReviseCopy
  <2> QED
    BY <2>1, <2>2
<1> QED
  BY <1>1, <1>2 DEF RequestsDerived

\* A request that only reads, or gives up, changes no row.
LEMMA RowsAlone ==
  ASSUME Inv, NEW r \in Requests, NEW q \in RequestRows,
         request' = [request EXCEPT ![r] = q],
         Derived(q, Len(budgets), ~stale),
         UNCHANGED <<budgets, order, honoured, stale>>, mailed' \in 0 .. MaxLinks
  PROVE  Inv'
<1>1. request' \in [Requests -> RequestRows] /\ RequestsDerived'
  <2>1. Len(budgets) \in Nat /\ budgets' = budgets /\ stale' = stale
    BY DEF Inv, TypeOK
  <2>2. Derived(q, Len(budgets'), ~stale')
    BY <2>1
  <2>3. Len(budgets') \in Nat /\ Len(budgets') >= Len(budgets) /\ (stale => stale')
    BY <2>1
  <2> QED
    BY <2>2, <2>3, RequestStep, Zenon DEF Inv
<1>2. TypeOK'
  BY <1>1 DEF Inv, TypeOK
<1>3. AgreeUnlessStale'
  BY DEF Inv, AgreeUnlessStale, PricedAsListed, AwaitsADecision
<1> QED
  BY <1>1, <1>2, <1>3 DEF Inv

\* The copy of a budget that Read keeps.
LEMMA ReadStep ==
  ASSUME Inv, NEW r \in Requests, NEW b \in DOMAIN budgets, NEW kind, NEW copy \in Rows,
         kind \in {"edit", "send"}, Read(r, kind, b, copy),
         kind = "edit" => EditCopy([Blank EXCEPT !.kind = kind, !.of = b, !.seen = budgets[b],
                                                 !.copy = copy, !.base = budgets[b]]),
         kind = "send" => SendCopy([Blank EXCEPT !.kind = kind, !.of = b, !.seen = budgets[b],
                                                 !.copy = copy, !.base = budgets[b]]),
         UNCHANGED <<budgets, order, honoured, stale>>, mailed' \in 0 .. MaxLinks
  PROVE  Inv'
<1> DEFINE q == [Blank EXCEPT !.kind = kind, !.of = b, !.seen = budgets[b],
                              !.copy = copy, !.base = budgets[b]]
<1>1. budgets[b] \in Rows /\ b \in 0 .. MaxBudgets /\ b <= Len(budgets)
  BY BudgetType DEF Inv, TypeOK
<1>3. q \in RequestRows
  BY <1>1, BlankTypes DEF RequestRows
<1>4. q.kind = kind /\ q.of = b
  BY DEF Blank
<1>5. Derived(q, Len(budgets), ~stale)
  BY <1>1, <1>4 DEF Derived
<1>6. request' = [request EXCEPT ![r] = q]
  BY DEF Read
<1> QED
  BY <1>3, <1>5, <1>6, RowsAlone

LEMMA EditInv ==
  ASSUME Inv, NEW r \in Requests, NEW b \in DOMAIN budgets, NEW l \in Lines, NEW n \in 1 .. Gone,
         Editable(budgets[b]), Read(r, "edit", b, WithLine(budgets[b], l, n)),
         UNCHANGED <<budgets, order, mailed, honoured, stale>>
  PROVE  Inv'
<1> DEFINE row == budgets[b]
           lns == [row.lines EXCEPT ![l] = n]
           copy == WithLine(row, l, n)
           q == [Blank EXCEPT !.kind = "edit", !.of = b, !.seen = row,
                              !.copy = copy, !.base = row]
<1>1. row \in Rows /\ b # 0
  BY BudgetType DEF Inv
<1>2. lns \in Quantities
  BY <1>1, BoundsAssumption DEF Rows, Quantities, Gone
<1>3. copy = [[row EXCEPT !.lines = lns] EXCEPT !.total = Priced(lns)]
  BY <1>1 DEF Rows
<1>4. /\ copy \in Rows
      /\ copy.status = row.status
      /\ copy.token = row.token
      /\ copy.used = row.used
      /\ copy.total = Priced(copy.lines)
      /\ copy.lines = lns
  <2>1. Priced(lns) \in Sums
    BY <1>2, PricedType
  <2> HIDE DEF lns
  <2> QED
    BY <1>1, <1>2, <1>3, <2>1 DEF Rows
<1>5. \A k \in Lines : lns[k] = 0 => row.lines[k] = 0
  BY <1>1, BoundsAssumption DEF Rows, Quantities, Gone
<1>6. q.of = b /\ q.seen = row /\ q.copy = copy
  BY DEF Blank
<1>7. EditCopy(q)
  <2> HIDE DEF q, copy, lns
  <2> QED
    BY <1>1, <1>4, <1>5, <1>6 DEF EditCopy
<1>8. mailed' \in 0 .. MaxLinks
  BY DEF Inv, TypeOK
<1> QED
  <2> HIDE DEF lns
  <2> QED
    BY <1>4, <1>7, <1>8, ReadStep

LEMMA SendInv ==
  ASSUME Inv, NEW r \in Requests, NEW b \in DOMAIN budgets, BeginSend(r, b)
  PROVE  Inv'
<1> DEFINE row == budgets[b]
           copy == [row EXCEPT !.status = "SENT", !.used = FALSE, !.token = mailed + 1]
           q == [Blank EXCEPT !.kind = "send", !.of = b, !.seen = row,
                              !.copy = copy, !.base = row]
<1>1. row \in Rows /\ b # 0
  BY BudgetType DEF Inv
<1>2. row.status \in {"DRAFT", "SENT"} /\ (row.status = "SENT" => ~ row.used)
  BY <1>1 DEF BeginSend, Transitions
<1>3. mailed + 1 \in 0 .. MaxLinks
  BY BoundsAssumption DEF BeginSend, Inv, TypeOK
<1>4. /\ copy \in Rows
      /\ copy.status = "SENT"
      /\ copy.used = FALSE
      /\ copy.total = row.total
      /\ copy.lines = row.lines
  BY <1>1, <1>3 DEF Rows, BudgetStatuses
<1>5. q.of = b /\ q.seen = row /\ q.copy = copy
  BY DEF Blank
<1>6. SendCopy(q)
  <2> HIDE DEF q, copy
  <2> QED
    BY <1>1, <1>2, <1>4, <1>5 DEF SendCopy
<1>7. Read(r, "send", b, copy) /\ UNCHANGED <<budgets, order, honoured, stale>>
  BY DEF BeginSend
<1>8. mailed' \in 0 .. MaxLinks
  BY <1>3 DEF BeginSend
<1> QED
  <2> HIDE DEF copy
  <2> QED
    BY <1>4, <1>6, <1>7, <1>8, ReadStep

LEMMA ReviseInv ==
  ASSUME Inv, NEW r \in Requests, BeginRevise(r)
  PROVE  Inv'
<1>1. PICK b \in DOMAIN budgets, c \in DOMAIN budgets :
        /\ request' = [request EXCEPT ![r] = [Blank EXCEPT !.kind = "revise",
             !.copy = [Draft EXCEPT !.revision = budgets[c].revision + 1,
                                    !.lines = Priced(budgets[b].lines),
                                    !.total = budgets[b].total]]]
        /\ UNCHANGED <<budgets, order, mailed, honoured, stale>>
  BY DEF BeginRevise
<1> DEFINE copy == [Draft EXCEPT !.revision = budgets[c].revision + 1,
                                 !.lines = Priced(budgets[b].lines),
                                 !.total = budgets[b].total]
           q == [Blank EXCEPT !.kind = "revise", !.copy = copy]
<1>2. budgets[b] \in Rows /\ budgets[c] \in Rows
  BY BudgetType DEF Inv
<1>3. /\ copy.status = "DRAFT"
      /\ copy.token = 0
      /\ copy.lines = Priced(budgets[b].lines)
      /\ copy.total = budgets[b].total
  BY DEF Draft
<1>4. copy \in Rows
  <2>1. Priced(budgets[b].lines) \in Quantities /\ budgets[b].total \in Sums
        /\ budgets[c].revision + 1 \in Nat
    BY <1>2, PricedType DEF Rows
  <2> QED
    BY <2>1, BlankTypes DEF Rows
<1>5. ~stale => copy.total = Priced(copy.lines)
  <2>1. ~stale => budgets[b].total = Priced(budgets[b].lines)
    BY DEF Inv, AgreeUnlessStale, PricedAsListed
  <2>2. Priced(Priced(budgets[b].lines)) = Priced(budgets[b].lines)
    BY <1>2, PricedType DEF Rows
  <2> QED
    BY <1>3, <2>1, <2>2
<1>6. q.kind = "revise" /\ q.of = 0 /\ q.copy = copy
  BY DEF Blank
<1>7. q \in RequestRows
  <2> HIDE DEF copy
  <2> QED
    BY <1>4, BlankTypes DEF RequestRows
<1>8. Derived(q, Len(budgets), ~stale)
  <2>1. copy.status = "DRAFT" /\ copy.token = 0
    BY <1>3
  <2>2. 0 <= Len(budgets)
    BY DEF Inv, TypeOK
  <2> HIDE DEF q, copy
  <2> QED
    BY <1>5, <1>6, <2>1, <2>2 DEF Derived, ReviseCopy
<1>9. mailed' \in 0 .. MaxLinks
  BY <1>1 DEF Inv, TypeOK
<1> QED
  BY <1>1, <1>7, <1>8, <1>9, RowsAlone

-----------------------------------------------------------------------------
(***************************************************************************)
(* Writing: commits and decisions.                                         *)
(***************************************************************************)

LEMMA BlankDerived ==
  ASSUME NEW n \in Nat, NEW clean \in BOOLEAN
  PROVE  Derived(Blank, n, clean)
BY DEF Derived, Blank

\* A request that has written is done with its copy.
LEMMA CommitStep ==
  ASSUME Inv, NEW r \in Requests, Answer(r),
         budgets' \in Seq(Rows), Len(budgets') \in 1 .. MaxBudgets,
         Len(budgets') >= Len(budgets),
         order' \in OrderRows, UNCHANGED <<mailed, honoured>>,
         stale' \in BOOLEAN, stale => stale', AgreeUnlessStale'
  PROVE  Inv'
<1>1. Len(budgets') \in Nat /\ (~stale') \in BOOLEAN
  BY BoundsAssumption
<1>2. Derived(Blank, Len(budgets'), ~stale')
  BY <1>1, BlankDerived, Zenon
<1>3. request' = [request EXCEPT ![r] = Blank]
  BY DEF Answer
<1>4. request' \in [Requests -> RequestRows] /\ RequestsDerived'
  BY <1>1, <1>2, <1>3, BlankTypes, RequestStep, Zenon DEF Inv
<1>5. TypeOK'
  BY <1>4 DEF Inv, TypeOK
<1> QED
  BY <1>4, <1>5 DEF Inv

\* A decision touches no request.
LEMMA DecisionStep ==
  ASSUME Inv, budgets' \in Seq(Rows), Len(budgets') = Len(budgets),
         order' \in OrderRows, UNCHANGED <<mailed, request, stale>>,
         honoured' \subseteq 1 .. MaxLinks, AgreeUnlessStale'
  PROVE  Inv'
<1>1. TypeOK'
  BY DEF Inv, TypeOK
<1>2. RequestsDerived'
  BY DEF Inv, RequestsDerived
<1> QED
  BY <1>1, <1>2 DEF Inv

\* One row of budgets is replaced.
LEMMA RowReplaced ==
  ASSUME TypeOK, NEW b \in DOMAIN budgets, NEW row \in Rows,
         budgets' = [budgets EXCEPT ![b] = row]
  PROVE  /\ budgets' \in Seq(Rows)
         /\ Len(budgets') = Len(budgets)
         /\ DOMAIN budgets' = DOMAIN budgets
         /\ budgets'[b] = row
         /\ \A c \in DOMAIN budgets : c # b => budgets'[c] = budgets[c]
<1>1. budgets \in Seq(Rows) /\ b \in 1 .. Len(budgets) /\ DOMAIN budgets = 1 .. Len(budgets)
  BY DEF TypeOK
<1>2. /\ budgets' \in Seq(Rows)
      /\ Len(budgets') = Len(budgets)
  BY <1>1, ExceptSeq
<1> QED
  BY <1>1, <1>2

\* A row that was priced replaces one: the prices still agree.
LEMMA PricesKept ==
  ASSUME TypeOK, \A c \in DOMAIN budgets : budgets[c].total = Priced(budgets[c].lines),
         NEW b \in DOMAIN budgets, NEW row \in Rows, row.total = Priced(row.lines),
         budgets' = [budgets EXCEPT ![b] = row], order'.total = order'.scope
  PROVE  PricedAsListed'
<1>1. /\ DOMAIN budgets' = DOMAIN budgets
      /\ budgets'[b] = row
      /\ \A c \in DOMAIN budgets : c # b => budgets'[c] = budgets[c]
  BY RowReplaced
<1>2. \A c \in DOMAIN budgets' : budgets'[c].total = Priced(budgets'[c].lines)
  BY <1>1
<1>3. (\A c \in DOMAIN budgets : budgets[c].total = Priced(budgets[c].lines))'
  BY <1>2 DEF Priced
<1> QED
  BY <1>3 DEF PricedAsListed

\* The budget a request wrote, and what it is if nothing stale was written.
LEMMA SavedStep ==
  ASSUME Inv, NEW r \in Requests, NEW b, b = request[r].of, b # 0
  PROVE  /\ b \in DOMAIN budgets
         /\ Saved(budgets[b], request[r]) \in Rows
         /\ ~ StaleBudget(r) =>
              LET new == Saved(budgets[b], request[r])
                  q == request[r]
              IN  /\ q.seen = budgets[b]
                  /\ new.status = q.copy.status
                  /\ new.token = q.copy.token
                  /\ new.used = q.copy.used
                  /\ new.total = q.copy.total
                  /\ new.lines = LinesWritten(q.seen.lines, q.copy.lines)
<1> DEFINE q == request[r]
<1>1. q \in RequestRows /\ q.of \in 0 .. MaxBudgets /\ q.of <= Len(budgets)
  BY DEF Inv, TypeOK, RequestRows, RequestsDerived, Derived
<1>2. b \in 1 .. Len(budgets) /\ DOMAIN budgets = 1 .. Len(budgets)
  BY <1>1 DEF Inv, TypeOK
<1>3. budgets[b] \in Rows
  BY <1>2, BudgetType DEF Inv
<1>4. /\ Saved(budgets[b], q) \in Rows
      /\ Saved(budgets[b], q).lines = LinesWritten(budgets[b].lines, q.copy.lines)
      /\ q.base = budgets[b] => /\ Saved(budgets[b], q).status = q.copy.status
                                /\ Saved(budgets[b], q).token = q.copy.token
                                /\ Saved(budgets[b], q).used = q.copy.used
                                /\ Saved(budgets[b], q).total = q.copy.total
  BY <1>1, <1>3, SavedRow
<1>5. ~ StaleBudget(r) => q.seen = budgets[b] /\ q.base = budgets[b]
  BY DEF StaleBudget
<1> QED
  BY <1>2, <1>4, <1>5

\* Lines that a copy only added to, or changed, are the copy's.
LEMMA LinesOfCopy ==
  ASSUME NEW old \in Quantities, NEW new \in Quantities,
         \A l \in Lines : new[l] = 0 => old[l] = 0
  PROVE  LinesWritten(old, new) = new
<1>1. \A l \in Lines : (IF new[l] = 0 THEN old[l] ELSE new[l]) = new[l]
  OBVIOUS
<1> QED
  BY <1>1 DEF LinesWritten, Quantities

LEMMA CopyType ==
  ASSUME TypeOK, NEW r \in Requests
  PROVE  LET q == request[r]
         IN  /\ q \in RequestRows
             /\ q.seen \in Rows /\ q.copy \in Rows /\ q.base \in Rows
             /\ q.seen.lines \in Quantities /\ q.copy.lines \in Quantities
             /\ q.orderSeen \in OrderRows /\ q.orderCopy \in OrderRows
BY DEF TypeOK, RequestRows, Rows

LEMMA CommitEditInv ==
  ASSUME Inv, NEW r \in Requests, CommitEdit(r)
  PROVE  Inv'
<1> DEFINE q == request[r]
           b == q.of
           new == Saved(budgets[b], q)
<1>1. EditCopy(q) /\ b # 0
  BY DEF CommitEdit, Inv, RequestsDerived, Derived, EditCopy
<1>2. /\ b \in DOMAIN budgets
      /\ new \in Rows
      /\ ~ StaleBudget(r) => /\ q.seen = budgets[b]
                             /\ new.status = q.copy.status
                             /\ new.total = q.copy.total
                             /\ new.lines = LinesWritten(q.seen.lines, q.copy.lines)
  BY <1>1, SavedStep
<1>3. budgets' = [budgets EXCEPT ![b] = new]
  BY DEF CommitEdit
<1>4. /\ budgets' \in Seq(Rows)
      /\ Len(budgets') = Len(budgets)
      /\ DOMAIN budgets' = DOMAIN budgets
      /\ \A c \in DOMAIN budgets : c # b => budgets'[c] = budgets[c]
  BY <1>2, <1>3, RowReplaced DEF Inv
<1>5. ASSUME ~stale' PROVE PricedAsListed' /\ AwaitsADecision'
  <2>1. ~stale /\ ~StaleBudget(r)
    BY <1>5 DEF CommitEdit
  <2>2. PricedAsListed /\ AwaitsADecision
    BY <2>1 DEF Inv, AgreeUnlessStale
  <2>3. new.lines = q.copy.lines
    BY <1>1, <1>2, <2>1, CopyType, LinesOfCopy DEF EditCopy, Inv
  <2>4. new.total = Priced(new.lines)
    BY <1>1, <1>2, <2>1, <2>3 DEF EditCopy
  <2>5. order' = order
    BY DEF CommitEdit
  <2>6. PricedAsListed'
    <3> HIDE DEF new
    <3> QED
      BY <1>2, <1>3, <2>2, <2>4, <2>5, PricesKept DEF Inv, PricedAsListed
  <2>7. budgets[b].status = "DRAFT"
    BY <1>1, <1>2, <2>1 DEF EditCopy
  <2>8. AwaitsADecision'
    <3> SUFFICES ASSUME order.status = "AGUARDANDO_APROVACAO"
                 PROVE  \E c \in DOMAIN budgets' : budgets'[c].status = "SENT" /\ ~budgets'[c].used
      BY <2>5 DEF AwaitsADecision
    <3>1. PICK c \in DOMAIN budgets : budgets[c].status = "SENT" /\ ~budgets[c].used
      BY <2>2 DEF AwaitsADecision
    <3>2. c # b
      BY <2>7, <3>1
    <3> QED
      BY <1>4, <3>1, <3>2
  <2> QED
    BY <2>6, <2>8
<1>6. AgreeUnlessStale'
  BY <1>5 DEF AgreeUnlessStale
<1>7. /\ Answer(r) /\ UNCHANGED <<mailed, honoured>>
      /\ order' \in OrderRows
      /\ stale' \in BOOLEAN /\ (stale => stale')
  BY DEF CommitEdit, Inv, TypeOK, StaleBudget
<1>8. Len(budgets') \in 1 .. MaxBudgets /\ Len(budgets') >= Len(budgets)
  BY <1>4 DEF Inv, TypeOK
<1> QED
  BY <1>4, <1>6, <1>7, <1>8, CommitStep

LEMMA CommitSendInv ==
  ASSUME Inv, NEW r \in Requests, CommitSend(r)
  PROVE  Inv'
<1> DEFINE q == request[r]
           b == q.of
           new == Saved(budgets[b], q)
<1>1. SendCopy(q) /\ b # 0
  BY DEF CommitSend, Inv, RequestsDerived, Derived, SendCopy
<1>2. /\ b \in DOMAIN budgets
      /\ new \in Rows
      /\ ~ StaleBudget(r) => /\ q.seen = budgets[b]
                             /\ new.status = q.copy.status
                             /\ new.used = q.copy.used
                             /\ new.total = q.copy.total
                             /\ new.lines = LinesWritten(q.seen.lines, q.copy.lines)
  BY <1>1, SavedStep
<1>3. budgets' = [budgets EXCEPT ![b] = new]
  BY DEF CommitSend
<1>4. /\ budgets' \in Seq(Rows)
      /\ Len(budgets') = Len(budgets)
      /\ DOMAIN budgets' = DOMAIN budgets
      /\ budgets'[b] = new
  BY <1>2, <1>3, RowReplaced DEF Inv
<1>5. /\ order' \in OrderRows
      /\ order'.total = order.total /\ order'.scope = order.scope
  BY DEF CommitSend, Inv, TypeOK, OrderRows, OrderStatuses, BreakGlass
<1>6. ASSUME ~stale' PROVE PricedAsListed' /\ AwaitsADecision'
  <2>1. ~stale /\ ~StaleBudget(r)
    BY <1>6 DEF CommitSend
  <2>2. PricedAsListed
    BY <2>1 DEF Inv, AgreeUnlessStale
  <2>3. new.lines = q.copy.lines
    BY <1>1, <1>2, <2>1, CopyType, LinesOfCopy DEF SendCopy, Inv
  <2>4. new.total = Priced(new.lines)
    BY <1>1, <1>2, <2>1, <2>2, <2>3 DEF SendCopy, PricedAsListed
  <2>5. PricedAsListed'
    <3> HIDE DEF new
    <3> QED
      BY <1>2, <1>3, <1>5, <2>2, <2>4, PricesKept DEF Inv, PricedAsListed
  <2>6. new.status = "SENT" /\ ~new.used
    BY <1>1, <1>2, <2>1 DEF SendCopy
  <2>7. AwaitsADecision'
    <3> HIDE DEF new
    <3> QED
      BY <1>2, <1>4, <2>6 DEF AwaitsADecision
  <2> QED
    BY <2>5, <2>7
<1>7. AgreeUnlessStale'
  BY <1>6 DEF AgreeUnlessStale
<1>8. /\ Answer(r) /\ UNCHANGED <<mailed, honoured>>
      /\ stale' \in BOOLEAN /\ (stale => stale')
  BY DEF CommitSend, Inv, TypeOK, StaleBudget
<1>9. Len(budgets') \in 1 .. MaxBudgets /\ Len(budgets') >= Len(budgets)
  BY <1>4 DEF Inv, TypeOK
<1> QED
  BY <1>4, <1>5, <1>7, <1>8, <1>9, CommitStep

LEMMA CommitReviseInv ==
  ASSUME Inv, NEW r \in Requests, CommitRevise(r)
  PROVE  Inv'
<1> DEFINE copy == request[r].copy
<1>1. copy \in Rows /\ (~stale => copy.total = Priced(copy.lines))
  BY CopyType DEF CommitRevise, Inv, RequestsDerived, Derived, ReviseCopy
<1>2. budgets' = Append(budgets, copy) /\ Len(budgets) < MaxBudgets
      /\ UNCHANGED <<order, mailed, honoured, stale>> /\ Answer(r)
  BY DEF CommitRevise
<1>3. /\ budgets' \in Seq(Rows)
      /\ Len(budgets') = Len(budgets) + 1
      /\ \A c \in 1 .. Len(budgets) : budgets'[c] = budgets[c]
      /\ budgets'[Len(budgets) + 1] = copy
  BY <1>1, <1>2, AppendProperties DEF Inv, TypeOK
<1>4. DOMAIN budgets = 1 .. Len(budgets) /\ DOMAIN budgets' = 1 .. (Len(budgets) + 1)
      /\ Len(budgets) \in 1 .. MaxBudgets
  BY <1>3 DEF Inv, TypeOK
<1>5. ASSUME ~stale' PROVE PricedAsListed' /\ AwaitsADecision'
  <2>1. PricedAsListed /\ AwaitsADecision
    BY <1>2, <1>5 DEF Inv, AgreeUnlessStale
  <2>2. \A c \in DOMAIN budgets' : c \in DOMAIN budgets \/ c = Len(budgets) + 1
    BY <1>4, BoundsAssumption
  <2>3. \A c \in DOMAIN budgets' : budgets'[c].total = Priced(budgets'[c].lines)
    BY <1>1, <1>2, <1>3, <1>4, <1>5, <2>1, <2>2 DEF PricedAsListed
  <2>4. PricedAsListed'
    BY <1>2, <2>1, <2>3 DEF PricedAsListed, Priced
  <2>5. AwaitsADecision'
    BY <1>2, <1>3, <1>4, <2>1, BoundsAssumption DEF AwaitsADecision
  <2> QED
    BY <2>4, <2>5
<1>6. AgreeUnlessStale'
  BY <1>5 DEF AgreeUnlessStale
<1>7. Len(budgets') \in 1 .. MaxBudgets /\ Len(budgets') >= Len(budgets)
  BY <1>2, <1>3, <1>4, BoundsAssumption
<1> QED
  BY <1>2, <1>3, <1>6, <1>7, CommitStep DEF Inv, TypeOK

\* The OS as a request wrote it, and what it is if the copy was not stale.
LEMMA OrderSavedStep ==
  ASSUME Inv, NEW r \in Requests, OrderSaved(r)
  PROVE  /\ order' \in OrderRows
         /\ order'.scope = order.scope
         /\ ~ StaleOrder(r) => /\ request[r].orderSeen = order
                               /\ order'.status = request[r].orderCopy.status
                               /\ order'.total = request[r].orderCopy.total
<1> DEFINE q == request[r]
<1>1. PICK base \in {order, q.orderSeen} :
        order' = Written(order, base, q.orderCopy, OrderColumns)
  BY DEF OrderSaved, OrderColumns
<1>2. /\ order \in OrderRows
      /\ q.orderSeen \in OrderRows
      /\ q.orderCopy \in OrderRows
  BY CopyType DEF Inv, TypeOK
<1>3. base \in OrderRows
  BY <1>1, <1>2
<1>4. /\ order' \in OrderRows
      /\ order'.scope = order.scope
      /\ order = base => order'.status = q.orderCopy.status /\ order'.total = q.orderCopy.total
  BY <1>1, <1>2, <1>3, WrittenOrder
<1>5. ~ StaleOrder(r) => order = q.orderSeen /\ order = base
  BY <1>1 DEF StaleOrder
<1> QED
  BY <1>4, <1>5

LEMMA OverrideInv ==
  ASSUME Inv, NEW r \in Requests, NEW status \in Corrections, BeginOverride(r, status)
  PROVE  Inv'
<1>1. PICK b \in 0 .. Len(budgets) :
        /\ Pending(b)
        /\ request' = [request EXCEPT ![r] =
             [Blank EXCEPT !.kind = "override", !.of = b,
                           !.seen = IF b = 0 THEN Draft ELSE budgets[b],
                           !.base = IF b = 0 THEN Draft ELSE budgets[b],
                           !.copy = Superseded(IF b = 0 THEN Draft ELSE budgets[b]),
                           !.orderSeen = order,
                           !.orderCopy = [order EXCEPT !.status = status]]]
  BY DEF BeginOverride
<1> DEFINE row == IF b = 0 THEN Draft ELSE budgets[b]
           copy == Superseded(row)
           changed == [order EXCEPT !.status = status]
           q == [Blank EXCEPT !.kind = "override", !.of = b, !.seen = row, !.base = row,
                              !.copy = copy, !.orderSeen = order, !.orderCopy = changed]
<1>2. b \in 0 .. MaxBudgets /\ b <= Len(budgets) /\ (b # 0 => b \in DOMAIN budgets)
  BY <1>1, BoundsAssumption DEF Inv, TypeOK
<1>3. row \in Rows
  BY <1>2, BudgetType, BlankTypes DEF Inv
<1>4. copy \in Rows
  <2>1. [row EXCEPT !.status = "SUPERSEDED", !.token = 0] \in Rows
    <3>1. 0 \in 0 .. MaxLinks /\ "SUPERSEDED" \in BudgetStatuses
      BY BoundsAssumption DEF BudgetStatuses
    <3> HIDE DEF row
    <3> QED
      BY <1>3, <3>1 DEF Rows
  <2>2. \/ copy = [row EXCEPT !.status = "SUPERSEDED", !.token = 0]
        \/ copy = row
    <3> HIDE DEF row
    <3> QED
      OBVIOUS
  <2> QED
    BY <1>3, <2>1, <2>2
<1>5. order \in OrderRows /\ changed \in OrderRows /\ changed.status = status
  BY CorrectionsAssumption DEF Inv, TypeOK, OrderRows, OrderStatuses
<1>6. b # 0 => row.status = "SENT" /\ copy = [row EXCEPT !.status = "SUPERSEDED", !.token = 0]
  BY <1>1 DEF Pending, IsLatest, Transitions
<1>7. q \in RequestRows
  <2> HIDE DEF row, copy, changed
  <2> QED
    BY <1>2, <1>3, <1>4, <1>5, BlankTypes DEF RequestRows
<1>8. /\ q.kind = "override" /\ q.of = b /\ q.seen = row /\ q.copy = copy
      /\ q.orderSeen = order /\ q.orderCopy = changed
  <2> HIDE DEF row, copy, changed
  <2> QED
    BY DEF Blank
<1>9. Derived(q, Len(budgets), ~stale)
  <2>1. changed = [order EXCEPT !.status = changed.status]
    BY <1>5
  <2>2. OverrideCopy(q)
    <3> HIDE DEF q, row, copy, changed
    <3> QED
      BY <1>6, <1>8, <2>1 DEF OverrideCopy
  <2> HIDE DEF q, row, copy, changed
  <2> QED
    BY <1>2, <1>8, <2>2 DEF Derived
<1>10. UNCHANGED <<budgets, order, mailed, honoured, stale>>
  BY DEF BeginOverride
<1>11. request' = [request EXCEPT ![r] = q]
  BY <1>1
<1> QED
  BY <1>7, <1>9, <1>10, <1>11, RowsAlone DEF Inv, TypeOK

LEMMA ReadOrderInv ==
  ASSUME Inv, NEW r \in Requests, NEW copy \in OrderRows, ReadOrder(r, copy),
         copy.total = order.total, copy.scope = order.scope,
         copy.status = "AGUARDANDO_APROVACAO" => order.status = "AGUARDANDO_APROVACAO"
  PROVE  Inv'
<1> DEFINE q == [Blank EXCEPT !.kind = "order", !.orderSeen = order, !.orderCopy = copy]
<1>1. q \in RequestRows
  BY BlankTypes DEF Inv, TypeOK, RequestRows
<1>2. q.kind = "order" /\ q.of = 0 /\ q.orderSeen = order /\ q.orderCopy = copy
  BY DEF Blank
<1>3. 0 <= Len(budgets)
  BY DEF Inv, TypeOK
<1>4. Derived(q, Len(budgets), ~stale)
  <2> HIDE DEF q
  <2> QED
    BY <1>2, <1>3 DEF Derived, OrderCopy
<1>5. request' = [request EXCEPT ![r] = q] /\ UNCHANGED <<budgets, order, mailed, honoured, stale>>
  BY DEF ReadOrder
<1> QED
  BY <1>1, <1>4, <1>5, RowsAlone DEF Inv, TypeOK

LEMMA OrderRequestInv ==
  ASSUME Inv, NEW r \in Requests,
         BeginEditOrder(r) \/ BeginAssignMechanic(r) \/ BeginStart(r)
  PROVE  Inv'
<1>0. order \in OrderRows
  BY DEF Inv, TypeOK
<1>1. CASE BeginEditOrder(r)
  BY <1>0, <1>1, ReadOrderInv DEF BeginEditOrder
<1>2. CASE BeginAssignMechanic(r)
  <2>1. CASE ReadOrder(r, [order EXCEPT !.mechanic = TRUE, !.status = "EM_DIAGNOSTICO"])
    <3> DEFINE copy == [order EXCEPT !.mechanic = TRUE, !.status = "EM_DIAGNOSTICO"]
    <3>1. copy \in OrderRows /\ copy.total = order.total /\ copy.scope = order.scope
          /\ copy.status # "AGUARDANDO_APROVACAO"
      BY <1>0 DEF OrderRows, OrderStatuses, BreakGlass
    <3> QED
      BY <2>1, <3>1, ReadOrderInv
  <2>2. CASE ReadOrder(r, [order EXCEPT !.mechanic = TRUE])
    <3> DEFINE copy == [order EXCEPT !.mechanic = TRUE]
    <3>1. copy \in OrderRows /\ copy.total = order.total /\ copy.scope = order.scope
          /\ copy.status = order.status
      BY <1>0 DEF OrderRows
    <3> QED
      BY <2>2, <3>1, ReadOrderInv
  <2> QED
    BY <1>2, <2>1, <2>2 DEF BeginAssignMechanic
<1>3. CASE BeginStart(r)
  <2> DEFINE copy == [order EXCEPT !.status = "EM_EXECUCAO"]
  <2>1. copy \in OrderRows /\ copy.total = order.total /\ copy.scope = order.scope
        /\ copy.status # "AGUARDANDO_APROVACAO"
    BY <1>0 DEF OrderRows, OrderStatuses
  <2> QED
    BY <1>3, <2>1, ReadOrderInv DEF BeginStart
<1> QED
  BY <1>1, <1>2, <1>3

LEMMA CommitOrderInv ==
  ASSUME Inv, NEW r \in Requests, CommitOrder(r)
  PROVE  Inv'
<1> DEFINE q == request[r]
<1>1. OrderCopy(q)
  BY DEF CommitOrder, Inv, RequestsDerived, Derived
<1>2. /\ order' \in OrderRows
      /\ order'.scope = order.scope
      /\ ~ StaleOrder(r) => /\ q.orderSeen = order
                            /\ order'.status = q.orderCopy.status
                            /\ order'.total = q.orderCopy.total
  BY OrderSavedStep DEF CommitOrder
<1>3. ASSUME ~stale' PROVE PricedAsListed' /\ AwaitsADecision'
  <2>1. ~stale /\ ~StaleOrder(r) /\ budgets' = budgets
    BY <1>3 DEF CommitOrder
  <2>2. PricedAsListed /\ AwaitsADecision
    BY <2>1 DEF Inv, AgreeUnlessStale
  <2>3. order'.total = order'.scope
    BY <1>1, <1>2, <2>1, <2>2 DEF OrderCopy, PricedAsListed
  <2>4. order'.status = "AGUARDANDO_APROVACAO" => order.status = "AGUARDANDO_APROVACAO"
    BY <1>1, <1>2, <2>1 DEF OrderCopy
  <2> QED
    BY <2>1, <2>2, <2>3, <2>4 DEF PricedAsListed, AwaitsADecision
<1>4. AgreeUnlessStale'
  BY <1>3 DEF AgreeUnlessStale
<1>5. /\ Answer(r) /\ UNCHANGED <<budgets, mailed, honoured>>
      /\ stale' \in BOOLEAN /\ (stale => stale')
  BY DEF CommitOrder, Inv, TypeOK, StaleOrder
<1>6. budgets' \in Seq(Rows) /\ Len(budgets') \in 1 .. MaxBudgets /\ Len(budgets') >= Len(budgets)
  BY <1>5 DEF Inv, TypeOK
<1> QED
  BY <1>2, <1>4, <1>5, <1>6, CommitStep

LEMMA CommitOverrideInv ==
  ASSUME Inv, NEW r \in Requests, CommitOverride(r)
  PROVE  Inv'
<1> DEFINE q == request[r]
           b == q.of
           new == Saved(budgets[b], q)
<1>1. OverrideCopy(q)
  BY DEF CommitOverride, Inv, RequestsDerived, Derived
<1>2. /\ order' \in OrderRows
      /\ order'.scope = order.scope
      /\ ~ StaleOrder(r) => /\ q.orderSeen = order
                            /\ order'.status = q.orderCopy.status
                            /\ order'.total = q.orderCopy.total
  BY OrderSavedStep DEF CommitOverride
<1>3. b # 0 =>
        /\ b \in DOMAIN budgets
        /\ new \in Rows
        /\ ~ StaleBudget(r) => /\ q.seen = budgets[b]
                               /\ new.total = q.copy.total
                               /\ new.lines = LinesWritten(q.seen.lines, q.copy.lines)
  BY SavedStep
<1>4. IF b = 0 THEN budgets' = budgets ELSE budgets' = [budgets EXCEPT ![b] = new]
  BY DEF CommitOverride
<1>5. budgets' \in Seq(Rows) /\ Len(budgets') = Len(budgets)
  BY <1>3, <1>4, RowReplaced DEF Inv, TypeOK
<1>6. ASSUME ~stale' PROVE PricedAsListed' /\ AwaitsADecision'
  <2>1. /\ ~stale /\ ~StaleBudget(r) /\ ~StaleOrder(r)
        /\ q.orderCopy.status # "AGUARDANDO_APROVACAO"
    BY <1>6 DEF CommitOverride
  <2>2. PricedAsListed
    BY <2>1 DEF Inv, AgreeUnlessStale
  <2>3. q.orderCopy.total = q.orderSeen.total
    BY <1>1, CopyType DEF OverrideCopy, OrderRows, Inv
  <2>4. order'.total = order'.scope
    BY <1>2, <2>1, <2>2, <2>3 DEF PricedAsListed
  <2>5. PricedAsListed'
    <3>1. CASE b = 0
      BY <1>4, <2>2, <2>4, <3>1 DEF PricedAsListed
    <3>2. CASE b # 0
      <4>1. q.copy.lines = q.seen.lines /\ q.copy.total = q.seen.total
        BY <1>1, <3>2, CopyType DEF OverrideCopy, Rows, Inv
      <4>2. new.lines = q.copy.lines
        BY <1>3, <2>1, <3>2, <4>1, CopyType, LinesOfCopy DEF Inv
      <4>3. new.total = Priced(new.lines)
        BY <1>3, <2>1, <2>2, <3>2, <4>1, <4>2 DEF PricedAsListed
      <4> HIDE DEF new
      <4> QED
        BY <1>3, <1>4, <2>2, <2>4, <3>2, <4>3, PricesKept DEF Inv, PricedAsListed
    <3> QED
      BY <3>1, <3>2
  <2>6. AwaitsADecision'
    BY <1>2, <2>1 DEF AwaitsADecision
  <2> QED
    BY <2>5, <2>6
<1>7. AgreeUnlessStale'
  BY <1>6 DEF AgreeUnlessStale
<1>8. /\ Answer(r) /\ UNCHANGED <<mailed, honoured>>
      /\ stale' \in BOOLEAN /\ (stale => stale')
  BY DEF CommitOverride, Inv, TypeOK, StaleOrder, StaleBudget
<1>9. Len(budgets') \in 1 .. MaxBudgets /\ Len(budgets') >= Len(budgets)
  BY <1>5 DEF Inv, TypeOK
<1> QED
  BY <1>2, <1>5, <1>7, <1>8, <1>9, CommitStep

\* save loads the row once more: the copy stays as it was derived.
LEMMA ReloadInv ==
  ASSUME Inv, NEW r \in Requests, Reload(r)
  PROVE  Inv'
<1> DEFINE old == request[r]
           q == [old EXCEPT !.base = budgets[old.of]]
<1>1. old \in RequestRows /\ Derived(old, Len(budgets), ~stale) /\ old.of # 0
  BY CopyType DEF Inv, RequestsDerived, Reload
<1>2. old.of \in DOMAIN budgets
  BY <1>1 DEF Derived, RequestRows, Inv, TypeOK
<1>3. budgets[old.of] \in Rows
  BY <1>2, BudgetType DEF Inv
<1>4. /\ q \in RequestRows
      /\ q.kind = old.kind /\ q.of = old.of /\ q.seen = old.seen /\ q.copy = old.copy
      /\ q.orderSeen = old.orderSeen /\ q.orderCopy = old.orderCopy
  BY <1>1, <1>3 DEF RequestRows
<1>5. old.kind # "none"
  BY <1>1 DEF Derived, Blank
<1>6. Derived(q, Len(budgets), ~stale)
  <2> HIDE DEF q, old
  <2> QED
    BY <1>1, <1>4, <1>5
    DEF Derived, EditCopy, SendCopy, ReviseCopy, OverrideCopy, OrderCopy
<1>7. request' = [request EXCEPT ![r] = q]
  BY <1>1 DEF Reload, Inv, TypeOK
<1>8. UNCHANGED <<budgets, order, mailed, honoured, stale>>
  BY DEF Reload
<1> QED
  BY <1>4, <1>6, <1>7, <1>8, RowsAlone DEF Inv, TypeOK

LEMMA FailInv ==
  ASSUME Inv, NEW r \in Requests, Fail(r)
  PROVE  Inv'
<1>1. Len(budgets) \in Nat /\ (~stale) \in BOOLEAN
  BY DEF Inv, TypeOK
<1>2. Derived(Blank, Len(budgets), ~stale)
  BY <1>1, BlankDerived, Zenon
<1> QED
  BY <1>2, BlankTypes, RowsAlone DEF Fail, Inv, TypeOK

\* An approval, and a rejection, of a budget that was sent.
LEMMA DecidedStep ==
  ASSUME Inv, NEW b \in DOMAIN budgets, Approve(b) \/ Reject(b)
  PROVE  /\ \E s \in {"APPROVED", "REJECTED"} : budgets' = [budgets EXCEPT ![b] = Decided(@, s)]
         /\ budgets[b].status = "SENT"
         /\ order' \in OrderRows
         /\ order'.status # "AGUARDANDO_APROVACAO"
         /\ \/ order'.total = budgets[b].total /\ order'.scope = Priced(budgets[b].lines)
            \/ order'.total = order.total /\ order'.scope = order.scope
<1>1. order \in OrderRows /\ budgets[b] \in Rows
  BY BudgetType DEF Inv, TypeOK
<1>2. CASE Approve(b)
  <2>1. budgets[b].total \in Sums /\ Priced(budgets[b].lines) \in Sums
    BY <1>1, PricedType DEF Rows
  <2> DEFINE s == IF HasOrder THEN Approved(order.status) ELSE "AGUARDANDO_INICIO"
             scope == Priced(budgets[b].lines)
  <2>2. s \in OrderStatuses /\ s # "AGUARDANDO_APROVACAO"
    BY <1>1 DEF OrderRows, OrderStatuses, BreakGlass, NotCreated
  <2>3. order' = [order EXCEPT !.status = s, !.total = budgets[b].total, !.scope = scope]
    BY <1>2 DEF Approve, OrderApproved
  <2>4. /\ order' \in OrderRows
        /\ order'.status = s
        /\ order'.total = budgets[b].total
        /\ order'.scope = scope
    <3> HIDE DEF s, scope
    <3> QED
      BY <1>1, <2>1, <2>2, <2>3 DEF OrderRows, scope
  <2>5. budgets' = [budgets EXCEPT ![b] = Decided(@, "APPROVED")] /\ budgets[b].status = "SENT"
    BY <1>2 DEF Approve
  <2> QED
    BY <2>2, <2>4, <2>5
<1>3. CASE Reject(b)
  <2>1. /\ order' \in OrderRows
        /\ order'.status # "AGUARDANDO_APROVACAO"
        /\ order'.total = order.total /\ order'.scope = order.scope
    BY <1>1, <1>3 DEF Reject, ReturnToDiagnosis, OrderRows, OrderStatuses, BreakGlass, NotCreated
  <2>2. budgets' = [budgets EXCEPT ![b] = Decided(@, "REJECTED")] /\ budgets[b].status = "SENT"
    BY <1>3 DEF Reject
  <2> QED
    BY <2>1, <2>2
<1> QED
  BY <1>2, <1>3

LEMMA DecideInv ==
  ASSUME Inv, NEW b \in DOMAIN budgets, Approve(b) \/ Reject(b),
         UNCHANGED <<mailed, request, stale>>, honoured' \subseteq 1 .. MaxLinks
  PROVE  Inv'
<1>1. budgets[b] \in Rows
  BY BudgetType DEF Inv
<1>2. PICK s \in {"APPROVED", "REJECTED"} : budgets' = [budgets EXCEPT ![b] = Decided(@, s)]
  BY DecidedStep
<1> DEFINE row == Decided(budgets[b], s)
<1>3. row \in Rows /\ row.total = budgets[b].total /\ row.lines = budgets[b].lines
  BY <1>1 DEF Rows, BudgetStatuses
<1>4. budgets' = [budgets EXCEPT ![b] = row]
  BY <1>2
<1>5. budgets' \in Seq(Rows) /\ Len(budgets') = Len(budgets)
  <2> HIDE DEF row
  <2> QED
    BY <1>3, <1>4, RowReplaced DEF Inv
<1>6. ASSUME ~stale' PROVE PricedAsListed' /\ AwaitsADecision'
  <2>1. PricedAsListed
    BY <1>6 DEF Inv, AgreeUnlessStale
  <2>2. order'.total = order'.scope
    BY <2>1, DecidedStep DEF PricedAsListed
  <2>3. PricedAsListed'
    <3>1. row.total = Priced(row.lines)
      BY <1>3, <2>1 DEF PricedAsListed
    <3> HIDE DEF row
    <3> QED
      BY <1>3, <1>4, <2>1, <2>2, <3>1, PricesKept DEF Inv, PricedAsListed
  <2>4. AwaitsADecision'
    BY DecidedStep DEF AwaitsADecision
  <2> QED
    BY <2>3, <2>4
<1>7. AgreeUnlessStale'
  BY <1>6 DEF AgreeUnlessStale
<1> QED
  BY <1>5, <1>7, DecidedStep, DecisionStep

LEMMA NextInv == Inv /\ [Next]_vars => Inv'
<1> SUFFICES ASSUME Inv, [Next]_vars PROVE Inv'
  OBVIOUS
<1>1. ASSUME NEW r \in Requests, BudgetStep(r) PROVE Inv'
  <2>1. ASSUME NEW b \in DOMAIN budgets, BeginSend(r, b) PROVE Inv'
    BY <2>1, SendInv
  <2>2. ASSUME NEW b \in DOMAIN budgets, NEW l \in Lines, BeginRemoveLine(r, b, l) PROVE Inv'
    <3>1. Gone \in 1 .. Gone
      BY BoundsAssumption DEF Gone
    <3> QED
      BY <2>2, <3>1, EditInv DEF BeginRemoveLine
  <2>3. ASSUME NEW b \in DOMAIN budgets, NEW l \in Lines, NEW n \in Units,
               BeginAddLine(r, b, l, n) \/ BeginChangeLine(r, b, l, n)
        PROVE  Inv'
    <3>1. n \in 1 .. Gone
      BY BoundsAssumption DEF Units, Gone
    <3> QED
      BY <2>3, <3>1, EditInv DEF BeginAddLine, BeginChangeLine
  <2> QED
    BY <1>1, <2>1, <2>2, <2>3, CommitEditInv, ReviseInv, CommitReviseInv, CommitSendInv,
       ReloadInv, FailInv DEF BudgetStep
<1>2. ASSUME NEW r \in Requests, OrderStep(r) PROVE Inv'
  BY <1>2, OverrideInv, CommitOverrideInv, OrderRequestInv, CommitOrderInv DEF OrderStep
<1>3. ASSUME NEW link \in 1 .. MaxLinks, Decide(link) PROVE Inv'
  <2>1. PICK b \in DOMAIN budgets : Approve(b) \/ Reject(b)
    BY <1>3 DEF Decide, Decidable, OfLink
  <2>2. UNCHANGED <<mailed, request, stale>> /\ honoured' \subseteq 1 .. MaxLinks
    BY <1>3 DEF Decide, Inv, TypeOK
  <2> QED
    BY <2>1, <2>2, DecideInv
<1>4. ASSUME NEW b \in DOMAIN budgets, ApproveById(b) PROVE Inv'
  <2>1. UNCHANGED <<mailed, request, stale>> /\ honoured' \subseteq 1 .. MaxLinks
    BY <1>4 DEF ApproveById, Inv, TypeOK
  <2> QED
    BY <1>4, <2>1, DecideInv DEF ApproveById
<1>5. CASE UNCHANGED vars
  BY <1>5 DEF vars, Inv, TypeOK, RequestsDerived, AgreeUnlessStale, PricedAsListed, AwaitsADecision
<1> QED
  BY <1>1, <1>2, <1>3, <1>4, <1>5 DEF Next

LEMMA Invariance == Spec => []Inv
  BY InitInv, NextInv, PTL DEF Spec

\* No statement writes a value its column, or the rest of the program, has no
\* meaning for: whatever copies are written over whatever rows.
THEOREM TypeCorrect == Spec => []TypeOK
<1>1. Inv => TypeOK
  BY DEF Inv
<1> QED
  BY <1>1, Invariance, PTL

\* For any number of requests, budgets and lines: as long as no stale copy was
\* written, totals are those of the lines (_recalculate, apply_approved_revision)
\* and an OS in AGUARDANDO_APROVACAO has a budget to decide.
THEOREM AgreementUnlessStale == Spec => []AgreeUnlessStale
<1>1. Inv => AgreeUnlessStale
  BY DEF Inv
<1> QED
  BY <1>1, Invariance, PTL

-----------------------------------------------------------------------------
(***************************************************************************)
(* What the customer was sent stays as it was.                             *)
(***************************************************************************)

\* What SentIsFrozen says of one row, old before the step and new after it.
RowFrozen(old, new) ==
  /\ old.status # "DRAFT" => /\ new.lines = old.lines
                             /\ new.total = old.total
                             /\ new.status # "DRAFT"
  /\ old.status \notin {"DRAFT", "SENT"} => new.status = old.status

RowsFrozen == \A b \in DOMAIN budgets : RowFrozen(budgets[b], budgets'[b])

LEMMA OneRowFrozen ==
  ASSUME TypeOK, NEW b \in DOMAIN budgets, NEW new \in Rows,
         budgets' = [budgets EXCEPT ![b] = new], RowFrozen(budgets[b], new)
  PROVE  RowsFrozen
<1>1. budgets'[b] = new /\ \A c \in DOMAIN budgets : c # b => budgets'[c] = budgets[c]
  BY RowReplaced
<1> QED
  BY <1>1 DEF RowsFrozen, RowFrozen

LEMMA NoRowChanges == budgets' = budgets => RowsFrozen
  BY DEF RowsFrozen, RowFrozen

LEMMA CommitFreezes ==
  ASSUME Inv, NEW r \in Requests, ~stale',
         CommitEdit(r) \/ CommitSend(r) \/ CommitOverride(r)
  PROVE  RowsFrozen
<1> DEFINE q == request[r]
           b == q.of
           new == Saved(budgets[b], q)
<1>1. CASE b = 0
  <2>1. ~CommitEdit(r) /\ ~CommitSend(r)
    BY <1>1 DEF CommitEdit, CommitSend, Inv, RequestsDerived, Derived, EditCopy, SendCopy
  <2>2. budgets' = budgets
    BY <1>1, <2>1 DEF CommitOverride
  <2> QED
    BY <2>2, NoRowChanges
<1>2. CASE b # 0
  <2>1. ~StaleBudget(r)
    BY DEF CommitEdit, CommitSend, CommitOverride
  <2>2. /\ b \in DOMAIN budgets
        /\ new \in Rows
        /\ q.seen = budgets[b]
        /\ new.status = q.copy.status
        /\ new.total = q.copy.total
        /\ new.lines = LinesWritten(q.seen.lines, q.copy.lines)
    BY <1>2, <2>1, SavedStep
  <2>3. budgets' = [budgets EXCEPT ![b] = new]
    BY <1>2 DEF CommitEdit, CommitSend, CommitOverride
  <2>4. RowFrozen(budgets[b], new)
    <3>1. CASE CommitEdit(r)
      BY <2>2, <3>1 DEF CommitEdit, Inv, RequestsDerived, Derived, EditCopy, RowFrozen
    <3>2. CASE CommitSend(r)
      <4>1. SendCopy(q)
        BY <3>2 DEF CommitSend, Inv, RequestsDerived, Derived
      <4>2. new.lines = q.seen.lines
        BY <2>2, <4>1, CopyType, LinesOfCopy DEF SendCopy, Inv
      <4> HIDE DEF new
      <4> QED
        BY <2>2, <4>1, <4>2 DEF SendCopy, RowFrozen
    <3>3. CASE CommitOverride(r)
      <4>1. /\ q.seen.status = "SENT"
            /\ q.copy = [q.seen EXCEPT !.status = "SUPERSEDED", !.token = 0]
        BY <1>2, <3>3 DEF CommitOverride, Inv, RequestsDerived, Derived, OverrideCopy
      <4>2. q.copy.lines = q.seen.lines /\ q.copy.total = q.seen.total
            /\ q.copy.status = "SUPERSEDED"
        BY <4>1, CopyType DEF Rows, Inv
      <4>3. new.lines = q.seen.lines
        BY <2>2, <4>2, CopyType, LinesOfCopy DEF Inv
      <4> HIDE DEF new
      <4> QED
        BY <2>2, <4>1, <4>2, <4>3 DEF RowFrozen
    <3> QED
      BY <3>1, <3>2, <3>3
  <2> HIDE DEF new
  <2> QED
    BY <2>2, <2>3, <2>4, OneRowFrozen DEF Inv
<1> QED
  BY <1>1, <1>2

LEMMA DecisionFreezes ==
  ASSUME Inv, NEW b \in DOMAIN budgets, Approve(b) \/ Reject(b)
  PROVE  RowsFrozen
<1>1. budgets[b] \in Rows /\ budgets[b].status = "SENT"
  BY BudgetType, DecidedStep DEF Inv
<1>2. PICK s \in {"APPROVED", "REJECTED"} : budgets' = [budgets EXCEPT ![b] = Decided(@, s)]
  BY DecidedStep
<1> DEFINE row == Decided(budgets[b], s)
<1>3. row \in Rows /\ RowFrozen(budgets[b], row)
  BY <1>1 DEF Rows, BudgetStatuses, RowFrozen
<1>4. budgets' = [budgets EXCEPT ![b] = row]
  BY <1>2
<1> HIDE DEF row
<1> QED
  BY <1>3, <1>4, OneRowFrozen DEF Inv

LEMMA RevisionFreezes ==
  ASSUME Inv, NEW r \in Requests, CommitRevise(r)
  PROVE  RowsFrozen
<1>1. request[r].copy \in Rows
  BY CopyType DEF Inv
<1>2. \A c \in 1 .. Len(budgets) : budgets'[c] = budgets[c]
  BY <1>1, AppendProperties DEF CommitRevise, Inv, TypeOK
<1> QED
  BY <1>2 DEF RowsFrozen, RowFrozen, Inv, TypeOK

LEMMA StepFreezes == Inv /\ [Next]_vars => [~stale' => RowsFrozen]_vars
<1> SUFFICES ASSUME Inv, Next, ~stale' PROVE RowsFrozen
  OBVIOUS
<1>1. ASSUME NEW r \in Requests, BudgetStep(r) PROVE RowsFrozen
  <2>1. \/ CommitEdit(r) \/ CommitSend(r) \/ CommitRevise(r)
        \/ budgets' = budgets
    BY <1>1 DEF BudgetStep, BeginSend, BeginRemoveLine, BeginAddLine, BeginChangeLine,
                BeginRevise, Reload, Fail
  <2> QED
    BY <2>1, CommitFreezes, RevisionFreezes, NoRowChanges
<1>2. ASSUME NEW r \in Requests, OrderStep(r) PROVE RowsFrozen
  <2>1. CommitOverride(r) \/ budgets' = budgets
    BY <1>2 DEF OrderStep, BeginOverride, BeginEditOrder, BeginAssignMechanic, BeginStart,
                ReadOrder, CommitOrder
  <2> QED
    BY <2>1, CommitFreezes, NoRowChanges
<1>3. ASSUME NEW link \in 1 .. MaxLinks, Decide(link) PROVE RowsFrozen
  <2>1. PICK b \in DOMAIN budgets : Approve(b) \/ Reject(b)
    BY <1>3 DEF Decide, Decidable, OfLink
  <2> QED
    BY <2>1, DecisionFreezes
<1>4. ASSUME NEW b \in DOMAIN budgets, ApproveById(b) PROVE RowsFrozen
  BY <1>4, DecisionFreezes DEF ApproveById
<1> QED
  BY <1>1, <1>2, <1>3, <1>4 DEF Next

\* For any number of requests: as long as no stale copy was written, no line and
\* no total of a budget changes once it was sent, and no decision is taken back
\* (_ensure_editable, _ALLOWED_TRANSITIONS).
THEOREM SentStaysFrozen == Spec => SentIsFrozen
<1>1. [~stale' => RowsFrozen]_vars =>
        [~stale' =>
           \A b \in DOMAIN budgets :
             /\ budgets[b].status # "DRAFT" =>
                  /\ budgets'[b].lines = budgets[b].lines
                  /\ budgets'[b].total = budgets[b].total
                  /\ budgets'[b].status # "DRAFT"
             /\ budgets[b].status \notin {"DRAFT", "SENT"} =>
                  budgets'[b].status = budgets[b].status]_vars
  BY DEF RowsFrozen, RowFrozen
<1> QED
  BY <1>1, StepFreezes, Invariance, PTL DEF Spec, SentIsFrozen

-----------------------------------------------------------------------------
(***************************************************************************)
(* A link decides once.                                                    *)
(***************************************************************************)

\* Each link mailed is that of one request, which has yet to store it, or of
\* one budget, and a link is honoured after it was stored.
Sending(r) == request[r].kind = "send"

LinksInOnePlace ==
  /\ honoured \subseteq 1 .. mailed
  /\ \A b \in DOMAIN budgets : budgets[b].token \in 0 .. mailed
  /\ \A b, c \in DOMAIN budgets :
       b # c /\ budgets[b].token = budgets[c].token => budgets[b].token = 0
  /\ \A r \in Requests : Sending(r) =>
       /\ request[r].copy.token \in (1 .. mailed) \ honoured
       /\ \A b \in DOMAIN budgets : budgets[b].token # request[r].copy.token
  /\ \A r, s \in Requests :
       Sending(r) /\ Sending(s) /\ request[r].copy.token = request[s].copy.token => r = s

LinkInv == ~stale => LinksInOnePlace /\ HonouredLinkIsSpent
\* What the requests send after a step, they sent before it.
SendsNoMore ==
  \A r \in Requests : request'[r].kind = "send" =>
    /\ Sending(r)
    /\ request'[r].copy.token = request[r].copy.token

LEMMA LinksStay ==
  ASSUME LinksInOnePlace, HonouredLinkIsSpent, SendsNoMore,
         UNCHANGED <<budgets, honoured, mailed>>
  PROVE  LinksInOnePlace' /\ HonouredLinkIsSpent'
<1>1. HonouredLinkIsSpent'
  BY DEF HonouredLinkIsSpent
<1>2. LinksInOnePlace'
  BY DEF LinksInOnePlace, Sending, SendsNoMore
<1> QED
  BY <1>1, <1>2

\* A request that answers sends no more.
LEMMA AnswerSendsNoMore ==
  ASSUME TypeOK, NEW r \in Requests, NEW q, q.kind # "send",
         request' = [request EXCEPT ![r] = q]
  PROVE  SendsNoMore /\ request'[r].kind # "send"
BY DEF TypeOK, SendsNoMore, Sending

\* A row is replaced by one with no link, the same link, or the link that the
\* request which replaces it was sending.
LEMMA LinkStored ==
  ASSUME Inv, LinksInOnePlace, HonouredLinkIsSpent,
         NEW r \in Requests, Answer(r), UNCHANGED <<honoured, mailed>>,
         NEW b \in DOMAIN budgets, NEW new \in Rows,
         budgets' = [budgets EXCEPT ![b] = new],
         \/ new.token = 0
         \/ new.token = budgets[b].token /\ new.used = budgets[b].used
         \/ Sending(r) /\ new.token = request[r].copy.token
  PROVE  LinksInOnePlace' /\ HonouredLinkIsSpent'
<1>1. /\ DOMAIN budgets' = DOMAIN budgets
      /\ budgets'[b] = new
      /\ \A c \in DOMAIN budgets : c # b => budgets'[c] = budgets[c]
  BY RowReplaced DEF Inv
<1>2. SendsNoMore /\ request'[r].kind # "send"
  BY AnswerSendsNoMore DEF Blank, Inv
<1>3. mailed \in Nat
  BY DEF Inv, TypeOK
<1>4. \A c \in DOMAIN budgets : budgets'[c].token \in honoured => budgets'[c].used
  <2> SUFFICES ASSUME NEW c \in DOMAIN budgets, budgets'[c].token \in honoured
               PROVE  budgets'[c].used
    OBVIOUS
  <2>1. CASE c # b
    BY <1>1, <2>1 DEF HonouredLinkIsSpent
  <2>2. CASE c = b
    BY <1>1, <1>3, <2>2 DEF HonouredLinkIsSpent, LinksInOnePlace
  <2> QED
    BY <2>1, <2>2
<1>5. \A c \in DOMAIN budgets : budgets'[c].token \in 0 .. mailed
  BY <1>1, <1>3 DEF LinksInOnePlace
<1>6. \A c \in DOMAIN budgets :
        c # b /\ budgets'[c].token = new.token => new.token = 0
  BY <1>1, <1>3 DEF LinksInOnePlace
<1>7. \A c, d \in DOMAIN budgets :
        c # d /\ budgets'[c].token = budgets'[d].token => budgets'[c].token = 0
  BY <1>1, <1>6 DEF LinksInOnePlace
<1>8. \A s \in Requests : request'[s].kind = "send" =>
        /\ request'[s].copy.token \in (1 .. mailed) \ honoured
        /\ \A c \in DOMAIN budgets : budgets'[c].token # request'[s].copy.token
  <2> SUFFICES ASSUME NEW s \in Requests, request'[s].kind = "send"
               PROVE  /\ request'[s].copy.token \in (1 .. mailed) \ honoured
                      /\ \A c \in DOMAIN budgets : budgets'[c].token # request'[s].copy.token
    OBVIOUS
  <2>1. s # r /\ Sending(s) /\ request'[s].copy.token = request[s].copy.token
    BY <1>2 DEF SendsNoMore
  <2>2. request[s].copy.token \in (1 .. mailed) \ honoured
    BY <2>1 DEF LinksInOnePlace
  <2>3. new.token # request[s].copy.token
    BY <1>3, <2>1, <2>2 DEF LinksInOnePlace
  <2> QED
    BY <1>1, <2>1, <2>2, <2>3 DEF LinksInOnePlace
<1>9. \A s, t \in Requests :
        /\ request'[s].kind = "send"
        /\ request'[t].kind = "send"
        /\ request'[s].copy.token = request'[t].copy.token
        => s = t
  BY <1>2 DEF SendsNoMore, LinksInOnePlace
<1>10. HonouredLinkIsSpent'
  BY <1>1, <1>4 DEF HonouredLinkIsSpent
<1>11. LinksInOnePlace'
  <2>1. (honoured \subseteq 1 .. mailed)'
    BY DEF LinksInOnePlace
  <2> QED
    BY <1>1, <1>5, <1>7, <1>8, <1>9, <2>1 DEF LinksInOnePlace, Sending
<1> QED
  BY <1>10, <1>11

LEMMA CommitKeepsLinks ==
  ASSUME Inv, LinkInv, NEW r \in Requests, ~stale',
         CommitEdit(r) \/ CommitSend(r) \/ CommitOverride(r)
  PROVE  LinksInOnePlace' /\ HonouredLinkIsSpent'
<1> DEFINE q == request[r]
           b == q.of
           new == Saved(budgets[b], q)
<1>1. ~stale /\ ~StaleBudget(r) /\ Answer(r) /\ UNCHANGED <<honoured, mailed>>
  BY DEF CommitEdit, CommitSend, CommitOverride
<1>2. LinksInOnePlace /\ HonouredLinkIsSpent
  BY <1>1 DEF LinkInv
<1>3. CASE b = 0
  <2>1. ~CommitEdit(r) /\ ~CommitSend(r)
    BY <1>3 DEF CommitEdit, CommitSend, Inv, RequestsDerived, Derived, EditCopy, SendCopy
  <2>2. budgets' = budgets
    BY <1>3, <2>1 DEF CommitOverride
  <2>3. SendsNoMore
    BY <1>1, AnswerSendsNoMore DEF Blank, Inv
  <2> QED
    BY <1>1, <1>2, <2>2, <2>3, LinksStay
<1>4. CASE b # 0
  <2>1. /\ b \in DOMAIN budgets
        /\ new \in Rows
        /\ q.seen = budgets[b]
        /\ new.token = q.copy.token
        /\ new.used = q.copy.used
    BY <1>1, <1>4, SavedStep
  <2>2. budgets' = [budgets EXCEPT ![b] = new]
    BY <1>4 DEF CommitEdit, CommitSend, CommitOverride
  <2>3. \/ new.token = 0
        \/ new.token = budgets[b].token /\ new.used = budgets[b].used
        \/ Sending(r) /\ new.token = request[r].copy.token
    <3>1. CASE CommitEdit(r)
      BY <2>1, <3>1 DEF CommitEdit, Inv, RequestsDerived, Derived, EditCopy
    <3>2. CASE CommitSend(r)
      BY <2>1, <3>2 DEF CommitSend, Sending
    <3>3. CASE CommitOverride(r)
      <4>1. q.copy = [q.seen EXCEPT !.status = "SUPERSEDED", !.token = 0]
        BY <1>4, <3>3 DEF CommitOverride, Inv, RequestsDerived, Derived, OverrideCopy
      <4>2. q.copy.token = 0
        BY <4>1, CopyType DEF Rows, Inv
      <4> QED
        BY <2>1, <4>2
    <3> QED
      BY <3>1, <3>2, <3>3
  <2> HIDE DEF new
  <2> QED
    BY <1>1, <1>2, <2>1, <2>2, <2>3, LinkStored
<1> QED
  BY <1>3, <1>4

LEMMA SendKeepsLinks ==
  ASSUME Inv, LinksInOnePlace, HonouredLinkIsSpent,
         NEW r \in Requests, NEW b \in DOMAIN budgets, BeginSend(r, b)
  PROVE  LinksInOnePlace' /\ HonouredLinkIsSpent'
<1> DEFINE link == mailed + 1
<1>1. LinksInOnePlace /\ HonouredLinkIsSpent
  OBVIOUS
<1>2. /\ mailed \in Nat /\ mailed' = link
      /\ UNCHANGED <<budgets, honoured>>
  BY DEF BeginSend, Inv, TypeOK
<1>3. budgets[b] \in Rows
  BY BudgetType DEF Inv
<1>4. request'[r].kind = "send" /\ request'[r].copy.token = link
  BY <1>3 DEF BeginSend, Read, Inv, TypeOK, Rows, Blank
<1>5. \A s \in Requests : s # r => request'[s] = request[s]
  BY DEF BeginSend, Read, Inv, TypeOK
<1>6. HonouredLinkIsSpent'
  BY <1>1, <1>2 DEF HonouredLinkIsSpent
<1>7. \A s \in Requests : request'[s].kind = "send" =>
        /\ request'[s].copy.token \in (1 .. mailed') \ honoured'
        /\ \A c \in DOMAIN budgets' : budgets'[c].token # request'[s].copy.token
  <2> SUFFICES ASSUME NEW s \in Requests, request'[s].kind = "send"
               PROVE  /\ request'[s].copy.token \in (1 .. mailed') \ honoured'
                      /\ \A c \in DOMAIN budgets' : budgets'[c].token # request'[s].copy.token
    OBVIOUS
  <2>1. CASE s = r
    BY <1>1, <1>2, <1>4, <2>1 DEF LinksInOnePlace
  <2>2. CASE s # r
    BY <1>1, <1>2, <1>5, <2>2 DEF LinksInOnePlace, Sending
  <2> QED
    BY <2>1, <2>2
<1>8. \A s, t \in Requests :
        /\ request'[s].kind = "send"
        /\ request'[t].kind = "send"
        /\ request'[s].copy.token = request'[t].copy.token
        => s = t
  <2> SUFFICES ASSUME NEW s \in Requests, NEW t \in Requests, s # t,
                      request'[s].kind = "send", request'[t].kind = "send"
               PROVE  request'[s].copy.token # request'[t].copy.token
    OBVIOUS
  <2>1. \A u \in Requests : u # r /\ request'[u].kind = "send" =>
          request'[u].copy.token \in 1 .. mailed
    BY <1>1, <1>5 DEF LinksInOnePlace, Sending
  <2>2. CASE s = r \/ t = r
    BY <1>2, <1>4, <2>1, <2>2
  <2>3. CASE s # r /\ t # r
    BY <1>1, <1>5, <2>3 DEF LinksInOnePlace, Sending
  <2> QED
    BY <2>2, <2>3
<1>9. /\ (honoured \subseteq 1 .. mailed)'
      /\ \A c \in DOMAIN budgets' : budgets'[c].token \in 0 .. mailed'
  BY <1>1, <1>2 DEF LinksInOnePlace
<1>10. LinksInOnePlace'
  BY <1>1, <1>2, <1>7, <1>8, <1>9 DEF LinksInOnePlace, Sending
<1> QED
  BY <1>6, <1>10

LEMMA RevisionKeepsLinks ==
  ASSUME Inv, LinksInOnePlace, HonouredLinkIsSpent, NEW r \in Requests, CommitRevise(r)
  PROVE  LinksInOnePlace' /\ HonouredLinkIsSpent'
<1> DEFINE n == Len(budgets)
           copy == request[r].copy
<1>1. LinksInOnePlace /\ HonouredLinkIsSpent /\ UNCHANGED <<honoured, mailed>> /\ Answer(r)
  BY DEF CommitRevise
<1>2. copy \in Rows /\ copy.token = 0 /\ mailed \in Nat
  BY CopyType DEF CommitRevise, Inv, TypeOK, RequestsDerived, Derived, ReviseCopy
<1>3. /\ budgets' \in Seq(Rows)
      /\ Len(budgets') = n + 1
      /\ \A c \in 1 .. n : budgets'[c] = budgets[c]
      /\ budgets'[n + 1] = copy
  BY <1>2, AppendProperties DEF CommitRevise, Inv, TypeOK
<1>4. DOMAIN budgets = 1 .. n /\ DOMAIN budgets' = 1 .. (n + 1) /\ n \in Nat
  BY <1>3 DEF Inv, TypeOK
<1>5. \A c \in DOMAIN budgets' :
        \/ c \in DOMAIN budgets /\ budgets'[c] = budgets[c]
        \/ c = n + 1 /\ budgets'[c].token = 0
  BY <1>2, <1>3, <1>4
<1>6. SendsNoMore
  BY <1>1, AnswerSendsNoMore DEF Blank, Inv
<1> HIDE DEF n
<1>7. HonouredLinkIsSpent'
  BY <1>1, <1>5 DEF HonouredLinkIsSpent, LinksInOnePlace
<1>8. \A s \in Requests : request'[s].kind = "send" =>
        /\ request'[s].copy.token \in (1 .. mailed) \ honoured
        /\ \A c \in DOMAIN budgets' : budgets'[c].token # request'[s].copy.token
  BY <1>1, <1>2, <1>5, <1>6 DEF SendsNoMore, LinksInOnePlace
<1>9. \A s, t \in Requests :
        /\ request'[s].kind = "send"
        /\ request'[t].kind = "send"
        /\ request'[s].copy.token = request'[t].copy.token
        => s = t
  BY <1>1, <1>6 DEF SendsNoMore, LinksInOnePlace
<1>10. \A c \in DOMAIN budgets' : budgets'[c].token \in 0 .. mailed
  BY <1>1, <1>2, <1>5 DEF LinksInOnePlace
<1>11. \A c, d \in DOMAIN budgets' :
         c # d /\ budgets'[c].token = budgets'[d].token => budgets'[c].token = 0
  BY <1>1, <1>5 DEF LinksInOnePlace
<1>12. LinksInOnePlace'
  <2>1. (honoured \subseteq 1 .. mailed)'
    BY <1>1 DEF LinksInOnePlace
  <2> QED
    BY <1>1, <1>8, <1>9, <1>10, <1>11, <2>1 DEF LinksInOnePlace, Sending
<1> QED
  BY <1>7, <1>12

\* A decision marks its budget; the link it honours is that budget's alone.
LEMMA DecisionKeepsLinks ==
  ASSUME Inv, LinksInOnePlace, HonouredLinkIsSpent,
         NEW b \in DOMAIN budgets, Approve(b) \/ Reject(b),
         UNCHANGED <<mailed, request>>,
         honoured' \in {honoured, honoured \cup {budgets[b].token}},
         honoured' \subseteq 1 .. MaxLinks
  PROVE  LinksInOnePlace' /\ HonouredLinkIsSpent'
<1>1. LinksInOnePlace /\ HonouredLinkIsSpent
  OBVIOUS
<1>2. budgets[b] \in Rows
  BY BudgetType DEF Inv
<1>3. PICK s \in {"APPROVED", "REJECTED"} : budgets' = [budgets EXCEPT ![b] = Decided(@, s)]
  BY DecidedStep
<1> DEFINE row == Decided(budgets[b], s)
<1>4. row \in Rows /\ row.token = budgets[b].token /\ row.used
  BY <1>2 DEF Rows, BudgetStatuses
<1>5. budgets' = [budgets EXCEPT ![b] = row]
  BY <1>3
<1> HIDE DEF row
<1>6. /\ DOMAIN budgets' = DOMAIN budgets
      /\ budgets'[b] = row
      /\ \A c \in DOMAIN budgets : c # b => budgets'[c] = budgets[c]
  BY <1>4, <1>5, RowReplaced DEF Inv
<1>7. \A c \in DOMAIN budgets : budgets'[c].token = budgets[c].token
  BY <1>4, <1>6
<1>8. mailed \in Nat /\ 0 \notin honoured'
  BY BoundsAssumption DEF Inv, TypeOK
<1>9. HonouredLinkIsSpent'
  <2> SUFFICES ASSUME NEW c \in DOMAIN budgets, budgets'[c].token \in honoured'
               PROVE  budgets'[c].used
    BY <1>6 DEF HonouredLinkIsSpent
  <2>1. CASE c = b
    BY <1>4, <1>6, <2>1
  <2>2. CASE c # b
    <3>1. budgets[c].token # 0 /\ budgets[c].token # budgets[b].token
      BY <1>1, <1>7, <1>8, <2>2 DEF LinksInOnePlace
    <3> QED
      BY <1>1, <1>6, <1>7, <2>2, <3>1 DEF HonouredLinkIsSpent
  <2> QED
    BY <2>1, <2>2
<1>10. honoured' \subseteq 1 .. mailed
  BY <1>1, <1>8 DEF LinksInOnePlace
<1>11. \A r \in Requests : Sending(r) =>
         /\ request[r].copy.token \in (1 .. mailed) \ honoured'
         /\ \A c \in DOMAIN budgets : budgets'[c].token # request[r].copy.token
  BY <1>1, <1>7 DEF LinksInOnePlace
<1>12. LinksInOnePlace'
  BY <1>1, <1>6, <1>7, <1>10, <1>11 DEF LinksInOnePlace, Sending
<1> QED
  BY <1>9, <1>12

LEMMA ReadSendsNoMore ==
  ASSUME Inv, NEW r \in Requests, BudgetStep(r) \/ OrderStep(r)
  PROVE  \/ CommitEdit(r) \/ CommitSend(r) \/ CommitOverride(r) \/ CommitRevise(r)
         \/ \E b \in DOMAIN budgets : BeginSend(r, b)
         \/ SendsNoMore /\ UNCHANGED <<budgets, honoured, mailed>>
<1>1. ASSUME NEW q, q.kind # "send", request' = [request EXCEPT ![r] = q]
      PROVE  SendsNoMore
  BY <1>1, AnswerSendsNoMore DEF Inv
<1>2. CASE \E b \in DOMAIN budgets, l \in Lines :
             \/ BeginRemoveLine(r, b, l)
             \/ \E n \in Units : BeginAddLine(r, b, l, n) \/ BeginChangeLine(r, b, l, n)
  <2>1. /\ UNCHANGED <<budgets, honoured, mailed>>
        /\ \E b, copy : request' = [request EXCEPT ![r] =
             [Blank EXCEPT !.kind = "edit", !.of = b, !.seen = budgets[b],
                           !.copy = copy, !.base = budgets[b]]]
    BY <1>2 DEF BeginRemoveLine, BeginAddLine, BeginChangeLine, Read
  <2>2. PICK b, copy : request' = [request EXCEPT ![r] =
             [Blank EXCEPT !.kind = "edit", !.of = b, !.seen = budgets[b],
                           !.copy = copy, !.base = budgets[b]]]
    BY <2>1
  <2>3. [Blank EXCEPT !.kind = "edit", !.of = b, !.seen = budgets[b],
                      !.copy = copy, !.base = budgets[b]].kind # "send"
    BY DEF Blank
  <2> QED
    BY <1>1, <2>1, <2>2, <2>3
<1>3. CASE BeginRevise(r)
  <2>1. /\ UNCHANGED <<budgets, honoured, mailed>>
        /\ \E copy : request' = [request EXCEPT ![r] =
             [Blank EXCEPT !.kind = "revise", !.copy = copy]]
    BY <1>3 DEF BeginRevise
  <2>2. PICK copy : request' = [request EXCEPT ![r] =
             [Blank EXCEPT !.kind = "revise", !.copy = copy]]
    BY <2>1
  <2>3. [Blank EXCEPT !.kind = "revise", !.copy = copy].kind # "send"
    BY DEF Blank
  <2> QED
    BY <1>1, <2>1, <2>2, <2>3
<1>4. CASE Reload(r)
  <2> DEFINE q == [request[r] EXCEPT !.base = budgets[request[r].of]]
  <2>1. request' = [request EXCEPT ![r] = q] /\ UNCHANGED <<budgets, honoured, mailed>>
    BY <1>4 DEF Reload
  <2>2. q.kind = request[r].kind /\ q.copy = request[r].copy
    BY CopyType DEF RequestRows, Inv
  <2> HIDE DEF q
  <2> QED
    BY <2>1, <2>2 DEF SendsNoMore, Sending, Inv, TypeOK
<1>5. CASE Fail(r)
  <2>1. Blank.kind # "send"
    BY DEF Blank
  <2> QED
    BY <1>1, <1>5, <2>1 DEF Fail
<1>6. CASE \E status \in Corrections : BeginOverride(r, status)
  <2> DEFINE Row(b) == IF b = 0 THEN Draft ELSE budgets[b]
             q(b, s) == [Blank EXCEPT !.kind = "override", !.of = b,
                                      !.seen = Row(b), !.base = Row(b),
                                      !.copy = Superseded(Row(b)), !.orderSeen = order,
                                      !.orderCopy = [order EXCEPT !.status = s]]
  <2>1. /\ UNCHANGED <<budgets, honoured, mailed>>
        /\ \E b \in 0 .. Len(budgets), s \in Corrections :
             request' = [request EXCEPT ![r] = q(b, s)]
    BY <1>6 DEF BeginOverride
  <2>2. PICK b \in 0 .. Len(budgets), s \in Corrections :
          request' = [request EXCEPT ![r] = q(b, s)]
    BY <2>1
  <2>3. q(b, s).kind # "send"
    BY DEF Blank
  <2> HIDE DEF q
  <2> QED
    BY <1>1, <2>1, <2>2, <2>3
<1>7. CASE BeginEditOrder(r) \/ BeginAssignMechanic(r) \/ BeginStart(r)
  <2>1. /\ UNCHANGED <<budgets, honoured, mailed>>
        /\ \E copy : request' = [request EXCEPT ![r] =
             [Blank EXCEPT !.kind = "order", !.orderSeen = order, !.orderCopy = copy]]
    BY <1>7 DEF BeginEditOrder, BeginAssignMechanic, BeginStart, ReadOrder
  <2>2. PICK copy : request' = [request EXCEPT ![r] =
             [Blank EXCEPT !.kind = "order", !.orderSeen = order, !.orderCopy = copy]]
    BY <2>1
  <2>3. [Blank EXCEPT !.kind = "order", !.orderSeen = order, !.orderCopy = copy].kind # "send"
    BY DEF Blank
  <2> QED
    BY <1>1, <2>1, <2>2, <2>3
<1>8. CASE CommitOrder(r)
  <2>1. Blank.kind # "send"
    BY DEF Blank
  <2> QED
    BY <1>1, <1>8, <2>1 DEF CommitOrder
<1> QED
  BY <1>2, <1>3, <1>4, <1>5, <1>6, <1>7, <1>8 DEF BudgetStep, OrderStep

LEMMA LinkStep == Inv /\ LinkInv /\ [Next]_vars => LinkInv'
<1> SUFFICES ASSUME Inv, LinkInv, [Next]_vars, ~stale'
             PROVE  LinksInOnePlace' /\ HonouredLinkIsSpent'
  BY DEF LinkInv
<1>0. CASE UNCHANGED vars
  <2>1. SendsNoMore /\ ~stale /\ UNCHANGED <<budgets, honoured, mailed>>
    BY <1>0 DEF vars, SendsNoMore, Sending
  <2> QED
    BY <2>1, LinksStay DEF LinkInv
<1>1. ASSUME NEW r \in Requests, BudgetStep(r) \/ OrderStep(r)
      PROVE  LinksInOnePlace' /\ HonouredLinkIsSpent'
  <2>1. ~stale
    BY <1>1 DEF BudgetStep, OrderStep, BeginSend, BeginRemoveLine, BeginAddLine, BeginChangeLine,
                CommitEdit, BeginRevise, CommitRevise, CommitSend, Reload, Fail,
                BeginOverride, CommitOverride, BeginEditOrder, BeginAssignMechanic,
                BeginStart, ReadOrder, CommitOrder
  <2> QED
    BY <1>1, <2>1, ReadSendsNoMore, CommitKeepsLinks, RevisionKeepsLinks, SendKeepsLinks,
       LinksStay DEF LinkInv
<1>2. ASSUME NEW link \in 1 .. MaxLinks, Decide(link)
      PROVE  LinksInOnePlace' /\ HonouredLinkIsSpent'
  <2>1. PICK b \in DOMAIN budgets :
          (Approve(b) \/ Reject(b)) /\ budgets[b].token = link
    BY <1>2 DEF Decide, Decidable, OfLink
  <2>2. /\ ~stale /\ UNCHANGED <<mailed, request>>
        /\ honoured' = honoured \cup {budgets[b].token}
        /\ honoured' \subseteq 1 .. MaxLinks
    BY <1>2, <2>1 DEF Decide, Inv, TypeOK
  <2> QED
    BY <2>1, <2>2, DecisionKeepsLinks DEF LinkInv
<1>3. ASSUME NEW b \in DOMAIN budgets, ApproveById(b)
      PROVE  LinksInOnePlace' /\ HonouredLinkIsSpent'
  BY <1>3, DecisionKeepsLinks DEF LinkInv, ApproveById, Inv, TypeOK
<1> QED
  BY <1>0, <1>1, <1>2, <1>3 DEF Next

\* For any number of requests, budgets and links: as long as no stale copy was
\* written, a link that decided a budget decides nothing more (decide_budget,
\* approval_used_at).
THEOREM LinksDecideOnce == Spec => [](~stale => HonouredLinkIsSpent)
<1>1. Init => LinkInv
  <2> SUFFICES ASSUME Init PROVE LinksInOnePlace /\ HonouredLinkIsSpent
    BY DEF LinkInv
  <2>1. DOMAIN budgets = {1} /\ budgets[1].token = 0
    BY DEF Init, Draft
  <2>2. \A r \in Requests : ~Sending(r)
    BY DEF Init, Sending, Blank
  <2> QED
    BY <2>1, <2>2 DEF Init, LinksInOnePlace, HonouredLinkIsSpent
<1>2. LinkInv => (~stale => HonouredLinkIsSpent)
  BY DEF LinkInv
<1> QED
  BY <1>1, <1>2, LinkStep, Invariance, PTL DEF Spec

-----------------------------------------------------------------------------
(***************************************************************************)
(* A link decides once although copies are stale: what brings one back is  *)
(* an UPDATE that waited for a lock after its row was loaded.              *)
(***************************************************************************)

\* A request that changes a budget has loaded, in save, the row it changes.
\* The copy it derives from may be as old as it likes.
SavesWhatItLoaded ==
  \A r \in Requests :
    /\ request[r].of # 0
    /\ request'[r] = Blank
    /\ budgets'[request[r].of] # budgets[request[r].of]
    => request[r].base = budgets[request[r].of]

\* A draft was mailed to nobody, and who edits one read a draft.
DraftsHaveNoLink ==
  /\ \A b \in DOMAIN budgets : budgets[b].status = "DRAFT" => budgets[b].token = 0
  /\ \A r \in Requests : request[r].kind = "edit" => request[r].copy.token = 0

SpentInv == LinksInOnePlace /\ HonouredLinkIsSpent /\ DraftsHaveNoLink

\* What the requests edit after a step, they edited before it, or read in it.
EditsDrafts ==
  \A r \in Requests : request'[r].kind = "edit" =>
    \/ request[r].kind = "edit" /\ request'[r].copy.token = request[r].copy.token
    \/ request'[r].copy.token = 0

LEMMA BlankEditsNothing ==
  ASSUME TypeOK, NEW r \in Requests, NEW q, q.kind = "edit" => q.copy.token = 0,
         request' = [request EXCEPT ![r] = q]
  PROVE  EditsDrafts
BY DEF TypeOK, EditsDrafts

LEMMA DraftsStay ==
  ASSUME DraftsHaveNoLink, EditsDrafts, UNCHANGED budgets
  PROVE  DraftsHaveNoLink'
BY DEF DraftsHaveNoLink, EditsDrafts

\* A row is replaced by one that is no draft, or has no link.
LEMMA DraftReplaced ==
  ASSUME TypeOK, DraftsHaveNoLink, EditsDrafts,
         NEW b \in DOMAIN budgets, NEW new \in Rows,
         budgets' = [budgets EXCEPT ![b] = new],
         new.status = "DRAFT" => new.token = 0
  PROVE  DraftsHaveNoLink'
<1>1. /\ DOMAIN budgets' = DOMAIN budgets
      /\ budgets'[b] = new
      /\ \A c \in DOMAIN budgets : c # b => budgets'[c] = budgets[c]
  BY RowReplaced
<1> QED
  BY <1>1 DEF DraftsHaveNoLink, EditsDrafts

\* Every copy that is edited is of a draft without a link.
LEMMA EditsReadDrafts ==
  ASSUME Inv, DraftsHaveNoLink, NEW r \in Requests, BudgetStep(r) \/ OrderStep(r)
  PROVE  EditsDrafts
<1>1. ASSUME NEW q, q.kind = "edit" => q.copy.token = 0, request' = [request EXCEPT ![r] = q]
      PROVE  EditsDrafts
  BY <1>1, BlankEditsNothing DEF Inv
<1>2. CASE Answer(r)
  <2>1. Blank.kind # "edit"
    BY DEF Blank
  <2> QED
    BY <1>1, <1>2, <2>1
<1>3. CASE \E b \in DOMAIN budgets, l \in Lines :
             \/ BeginRemoveLine(r, b, l)
             \/ \E n \in Units : BeginAddLine(r, b, l, n) \/ BeginChangeLine(r, b, l, n)
  <2>1. PICK b \in DOMAIN budgets, l \in Lines, n \in Units \cup {Gone} :
          /\ budgets[b].status = "DRAFT"
          /\ Read(r, "edit", b, WithLine(budgets[b], l, n))
    BY <1>3 DEF BeginRemoveLine, BeginAddLine, BeginChangeLine
  <2> DEFINE copy == WithLine(budgets[b], l, n)
             q == [Blank EXCEPT !.kind = "edit", !.of = b, !.seen = budgets[b],
                                !.copy = copy, !.base = budgets[b]]
  <2>2. request' = [request EXCEPT ![r] = q]
    BY <2>1 DEF Read
  <2>3. budgets[b] \in Rows /\ budgets[b].token = 0
    BY <2>1, BudgetType DEF Inv, DraftsHaveNoLink
  <2>4. copy.token = 0
    BY <2>3 DEF Rows
  <2>5. q.copy.token = 0
    <3> HIDE DEF copy
    <3> QED BY <2>4 DEF Blank
  <2> HIDE DEF q
  <2> QED
    BY <1>1, <2>2, <2>5
<1>4. CASE \E b \in DOMAIN budgets : BeginSend(r, b)
  <2>1. PICK b, copy : Read(r, "send", b, copy)
    BY <1>4 DEF BeginSend
  <2>2. [Blank EXCEPT !.kind = "send", !.of = b, !.seen = budgets[b],
                      !.copy = copy, !.base = budgets[b]].kind # "edit"
    BY DEF Blank
  <2> QED
    BY <1>1, <2>1, <2>2 DEF Read
<1>5. CASE BeginRevise(r)
  <2>1. PICK copy : request' = [request EXCEPT ![r] =
             [Blank EXCEPT !.kind = "revise", !.copy = copy]]
    BY <1>5 DEF BeginRevise
  <2>2. [Blank EXCEPT !.kind = "revise", !.copy = copy].kind # "edit"
    BY DEF Blank
  <2> QED
    BY <1>1, <2>1, <2>2
<1>6. CASE Reload(r)
  <2> DEFINE q == [request[r] EXCEPT !.base = budgets[request[r].of]]
  <2>1. request' = [request EXCEPT ![r] = q]
    BY <1>6 DEF Reload
  <2>2. q.kind = request[r].kind /\ q.copy = request[r].copy
    BY CopyType DEF RequestRows, Inv
  <2> HIDE DEF q
  <2> QED
    BY <2>1, <2>2 DEF EditsDrafts, Inv, TypeOK
<1>7. CASE \E status \in Corrections : BeginOverride(r, status)
  <2> DEFINE Row(b) == IF b = 0 THEN Draft ELSE budgets[b]
             q(b, s) == [Blank EXCEPT !.kind = "override", !.of = b,
                                      !.seen = Row(b), !.base = Row(b),
                                      !.copy = Superseded(Row(b)), !.orderSeen = order,
                                      !.orderCopy = [order EXCEPT !.status = s]]
  <2>1. PICK b \in 0 .. Len(budgets), s \in Corrections :
          request' = [request EXCEPT ![r] = q(b, s)]
    BY <1>7 DEF BeginOverride
  <2>2. q(b, s).kind # "edit"
    BY DEF Blank
  <2> HIDE DEF q
  <2> QED
    BY <1>1, <2>1, <2>2
<1>8. CASE BeginEditOrder(r) \/ BeginAssignMechanic(r) \/ BeginStart(r)
  <2>1. PICK copy : request' = [request EXCEPT ![r] =
             [Blank EXCEPT !.kind = "order", !.orderSeen = order, !.orderCopy = copy]]
    BY <1>8 DEF BeginEditOrder, BeginAssignMechanic, BeginStart, ReadOrder
  <2>2. [Blank EXCEPT !.kind = "order", !.orderSeen = order, !.orderCopy = copy].kind # "edit"
    BY DEF Blank
  <2> QED
    BY <1>1, <2>1, <2>2
<1> QED
  BY <1>2, <1>3, <1>4, <1>5, <1>6, <1>7, <1>8
     DEF BudgetStep, OrderStep, CommitEdit, CommitSend, CommitRevise, CommitOverride,
         CommitOrder, Fail

\* The row a commit writes over the one it loaded is its copy's.
LEMMA CommitSpends ==
  ASSUME Inv, SpentInv, SavesWhatItLoaded, NEW r \in Requests,
         CommitEdit(r) \/ CommitSend(r) \/ CommitOverride(r)
  PROVE  SpentInv'
<1> DEFINE q == request[r]
           b == q.of
           new == Saved(budgets[b], q)
<1>1. Answer(r) /\ UNCHANGED <<honoured, mailed>>
  BY DEF CommitEdit, CommitSend, CommitOverride
<1>2. SendsNoMore /\ EditsDrafts
  <2>1. SendsNoMore
    BY <1>1, AnswerSendsNoMore DEF Blank, Inv
  <2>2. BudgetStep(r) \/ OrderStep(r)
    BY DEF BudgetStep, OrderStep
  <2> QED
    BY <2>1, <2>2, EditsReadDrafts DEF SpentInv
<1>3. CASE budgets' = budgets
  BY <1>1, <1>2, <1>3, LinksStay, DraftsStay DEF SpentInv
<1>4. CASE budgets' # budgets
  <2>1. b # 0 /\ budgets' = [budgets EXCEPT ![b] = new]
    BY <1>4 DEF CommitEdit, CommitSend, CommitOverride, Inv, RequestsDerived, Derived,
                EditCopy, SendCopy
  <2>2. b \in DOMAIN budgets /\ new \in Rows
    BY <2>1, SavedStep
  <2>3. budgets'[b] # budgets[b]
    <3>1. budgets'[b] = new /\ new # budgets[b]
      <4> HIDE DEF new
      <4> QED BY <1>4, <2>1, <2>2 DEF Inv, TypeOK
    <3> QED
      BY <3>1
  <2>4. request'[r] = Blank
    BY <1>1 DEF Inv, TypeOK
  <2>5. q.base = budgets[b]
    BY <2>1, <2>3, <2>4 DEF SavesWhatItLoaded
  <2>6. new.status = q.copy.status /\ new.token = q.copy.token
    BY <2>2, <2>5, CopyType, BudgetType, SavedRow DEF Inv
  <2>7. /\ new.token = 0 \/ (Sending(r) /\ new.token = q.copy.token)
        /\ new.status = "DRAFT" => new.token = 0
    <3>1. CASE CommitEdit(r)
      BY <2>6, <3>1 DEF CommitEdit, SpentInv, DraftsHaveNoLink
    <3>2. CASE CommitSend(r)
      BY <2>6, <3>2 DEF CommitSend, Sending, Inv, RequestsDerived, Derived, SendCopy
    <3>3. CASE CommitOverride(r)
      <4>1. q.copy = [q.seen EXCEPT !.status = "SUPERSEDED", !.token = 0]
        BY <2>1, <3>3 DEF CommitOverride, Inv, RequestsDerived, Derived, OverrideCopy
      <4>2. q.copy.token = 0
        BY <4>1, CopyType DEF Rows, Inv
      <4> QED
        BY <2>6, <4>2
    <3> QED
      BY <3>1, <3>2, <3>3
  <2> HIDE DEF new
  <2>8. LinksInOnePlace' /\ HonouredLinkIsSpent'
    BY <1>1, <2>1, <2>2, <2>7, LinkStored DEF SpentInv
  <2>9. DraftsHaveNoLink'
    BY <1>2, <2>1, <2>2, <2>7, DraftReplaced DEF Inv, SpentInv
  <2> QED
    BY <2>8, <2>9 DEF SpentInv
<1> QED
  BY <1>3, <1>4

LEMMA RevisionIsUnsent ==
  ASSUME Inv, DraftsHaveNoLink, EditsDrafts, NEW r \in Requests, CommitRevise(r)
  PROVE  DraftsHaveNoLink'
<1> DEFINE n == Len(budgets)
           copy == request[r].copy
<1>1. copy \in Rows /\ copy.token = 0
  BY CopyType DEF CommitRevise, Inv, TypeOK, RequestsDerived, Derived, ReviseCopy
<1>2. /\ budgets' \in Seq(Rows)
      /\ Len(budgets') = n + 1
      /\ \A c \in 1 .. n : budgets'[c] = budgets[c]
      /\ budgets'[n + 1] = copy
  BY <1>1, AppendProperties DEF CommitRevise, Inv, TypeOK
<1>3. DOMAIN budgets = 1 .. n /\ DOMAIN budgets' = 1 .. (n + 1) /\ n \in Nat
  BY <1>2 DEF Inv, TypeOK
<1>4. \A c \in DOMAIN budgets' :
        \/ c \in DOMAIN budgets /\ budgets'[c] = budgets[c]
        \/ budgets'[c].token = 0
  BY <1>1, <1>2, <1>3
<1> QED
  BY <1>4 DEF DraftsHaveNoLink, EditsDrafts

LEMMA DecisionSpends ==
  ASSUME Inv, SpentInv, NEW b \in DOMAIN budgets, Approve(b) \/ Reject(b),
         UNCHANGED <<mailed, request>>,
         honoured' \in {honoured, honoured \cup {budgets[b].token}},
         honoured' \subseteq 1 .. MaxLinks
  PROVE  SpentInv'
<1>1. LinksInOnePlace' /\ HonouredLinkIsSpent'
  BY DecisionKeepsLinks DEF SpentInv
<1>2. PICK s \in {"APPROVED", "REJECTED"} : budgets' = [budgets EXCEPT ![b] = Decided(@, s)]
  BY DecidedStep
<1> DEFINE row == Decided(budgets[b], s)
<1>3. row \in Rows /\ row.status # "DRAFT"
  BY BudgetType DEF Rows, BudgetStatuses, Inv
<1>4. budgets' = [budgets EXCEPT ![b] = row]
  BY <1>2
<1>5. EditsDrafts
  BY DEF EditsDrafts
<1> HIDE DEF row
<1>6. DraftsHaveNoLink'
  BY <1>3, <1>4, <1>5, DraftReplaced DEF Inv, SpentInv
<1> QED
  BY <1>1, <1>6 DEF SpentInv

LEMMA SpentStep == Inv /\ SpentInv /\ [Next]_vars /\ [SavesWhatItLoaded]_vars => SpentInv'
<1> SUFFICES ASSUME Inv, SpentInv, [Next]_vars, [SavesWhatItLoaded]_vars
             PROVE  SpentInv'
  OBVIOUS
<1>1. CASE UNCHANGED vars
  <2>1. SendsNoMore /\ EditsDrafts /\ UNCHANGED <<budgets, honoured, mailed>>
    BY <1>1 DEF vars, SendsNoMore, EditsDrafts, Sending
  <2> QED
    BY <2>1, LinksStay, DraftsStay DEF SpentInv
<1>2. ASSUME NEW r \in Requests, BudgetStep(r) \/ OrderStep(r), SavesWhatItLoaded
      PROVE  SpentInv'
  <2>1. EditsDrafts
    BY <1>2, EditsReadDrafts DEF SpentInv
  <2>2. CASE CommitEdit(r) \/ CommitSend(r) \/ CommitOverride(r)
    BY <1>2, <2>2, CommitSpends
  <2>3. CASE CommitRevise(r)
    BY <2>1, <2>3, RevisionIsUnsent, RevisionKeepsLinks DEF SpentInv
  <2>4. CASE \E b \in DOMAIN budgets : BeginSend(r, b)
    <3>1. UNCHANGED budgets
      BY <2>4 DEF BeginSend
    <3> QED
      BY <2>1, <2>4, <3>1, DraftsStay, SendKeepsLinks DEF SpentInv
  <2>5. CASE SendsNoMore /\ UNCHANGED <<budgets, honoured, mailed>>
    BY <2>1, <2>5, LinksStay, DraftsStay DEF SpentInv
  <2> QED
    BY <1>2, <2>2, <2>3, <2>4, <2>5, ReadSendsNoMore
<1>3. ASSUME NEW link \in 1 .. MaxLinks, Decide(link)
      PROVE  SpentInv'
  <2>1. PICK b \in DOMAIN budgets :
          (Approve(b) \/ Reject(b)) /\ budgets[b].token = link
    BY <1>3 DEF Decide, Decidable, OfLink
  <2>2. /\ UNCHANGED <<mailed, request>>
        /\ honoured' = honoured \cup {budgets[b].token}
        /\ honoured' \subseteq 1 .. MaxLinks
    BY <1>3, <2>1 DEF Decide, Inv, TypeOK
  <2> QED
    BY <2>1, <2>2, DecisionSpends
<1>4. ASSUME NEW b \in DOMAIN budgets, ApproveById(b)
      PROVE  SpentInv'
  BY <1>4, DecisionSpends DEF ApproveById, Inv, TypeOK
<1>5. CASE Next /\ ~ UNCHANGED vars
  BY <1>2, <1>3, <1>4, <1>5 DEF Next
<1> QED
  BY <1>1, <1>5

\* For any number of requests, budgets and links: a link that decided a budget
\* decides nothing more (decide_budget, approval_used_at), however stale the
\* copies that are written, unless the row changed while the UPDATE of a save
\* waited for its lock (SqlAlchemyBudgetRepository.save).
THEOREM HonouredLinksStaySpent ==
  Spec /\ [][SavesWhatItLoaded]_vars => []HonouredLinkIsSpent
<1>1. Init => SpentInv
  <2> SUFFICES ASSUME Init PROVE SpentInv
    OBVIOUS
  <2>1. DOMAIN budgets = {1} /\ budgets[1].token = 0
    BY DEF Init, Draft
  <2>2. \A r \in Requests : request[r].kind = "none"
    BY DEF Init, Blank
  <2> QED
    BY <2>1, <2>2 DEF Init, SpentInv, LinksInOnePlace, HonouredLinkIsSpent, DraftsHaveNoLink,
                      Sending
<1>2. SpentInv => HonouredLinkIsSpent
  BY DEF SpentInv
<1> QED
  BY <1>1, <1>2, SpentStep, Invariance, PTL DEF Spec

=============================================================================
