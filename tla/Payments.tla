----------------------------- MODULE Payments -----------------------------
(***************************************************************************)
(* Money: the transactions FinanceService keeps, the paid amount it adds   *)
(* to purchase orders through PurchasingService, a pooled order sharing it *)
(* out among the orders it pools, and the payment status of sales orders.  *)
(* No request uses a database transaction: entities are loaded, changed in *)
(* memory and saved whole, one after another.                              *)
(***************************************************************************)
EXTENDS Sums, Sequences

CONSTANTS
  Purchases,    \* ids of purchase orders
  Purchases0,   \* the purchase orders at first
  Sales,        \* sales orders
  Sales0,       \* the sales orders at first
  MaxTx,        \* bound: ids of transactions
  Transactions0,\* the transactions at first: a sequence
  Bills,        \* payments users send: an amount, and a list of allocations
  Amounts,      \* prices users send
  Entries,      \* transactions users note or receive, and what they correct one to
  Updates,      \* sets of columns a correction may name
  Outsourced,   \* the purchase orders of type OUTSOURCING
  Callers,      \* requests in progress at once
  Kinds,        \* kinds of request the users make
  MaxCalls,     \* bound: requests in a behaviour
  NoOrder, NoTx

TxIds == 1..MaxTx
AllKinds == {"pay", "bulk", "receive", "note", "correct", "approve", "delete", "price", "edit", "pool",
             "remove", "clear"}

\* A purchase order: its total, what is paid, the pool it is in, and whether it is a pool.
Purchase == [total : Nat, paid : Nat, pool : Purchases \cup {NoOrder}, pooled : BOOLEAN]
Sale == [total : Nat, status : {"UNPAID", "PARTIAL_PAID", "PAID"}]
Allotment == [order : Purchases, amount : Nat]
Transaction == [type : {"INCOME", "EXPENSE"}, amount : Nat, ref : Sales \cup {NoOrder},
                sales : BOOLEAN, status : {"DRAFT", "COMPLETED"},
                shares : Seq(Allotment)]
Bill == [amount : Nat, list : Seq(Allotment)]
Columns == {"type", "amount", "ref", "sales", "status", "shares"}

ASSUME NullAssumption ==
  NoOrder \notin Purchases \cup Sales \cup Purchase \cup Sale /\ NoTx \notin Transaction
ASSUME BoundsAssumption == MaxTx \in Nat /\ MaxCalls \in Nat /\ Kinds \subseteq AllKinds
ASSUME AmountsAssumption == Amounts \subseteq Nat /\ Bills \subseteq Bill
ASSUME EntriesAssumption == Entries \subseteq Transaction /\ Updates \subseteq SUBSET Columns
ASSUME PurchasesAssumption ==
  IsFiniteSet(Purchases) /\ Purchases0 \in [Purchases -> Purchase \cup {NoOrder}]
ASSUME SalesAssumption == Sales0 \in [Sales -> Sale]
ASSUME TransactionsAssumption == \E k \in 0..MaxTx : Transactions0 \in [1..k -> Transaction]

VARIABLES
  purchases,  \* purchase_orders: a row, or NoOrder
  sales,      \* sales_orders
  txs,        \* transactions: a row, or NoTx
  newTx,      \* the next id
  call,       \* what each request is doing
  calls,      \* requests so far
  given,      \* history: what was ever added to the paid amount of each purchase order
  undone,     \* history: allocations taken back so far
  alone,      \* history: requests during which no other was in progress
  steady      \* history: no two overlapped, no pool or price was changed, and what deleting
              \* the transactions takes back was changed by payments and deletions only

vars == <<purchases, sales, txs, newTx, call, calls, given, undone, alone, steady>>
ledger == <<txs, newTx>>
history == <<calls, alone, steady>>

-----------------------------------------------------------------------------
(* Shares *)

Most(a, b) == IF a >= b THEN a ELSE b

\* Math.round of n / d, for any n and a positive d: halves go up, also below zero.
Round(n, d) == (2 * n + d) \div (2 * d)

Children(rows, p) == {k \in Purchases : rows[k] # NoOrder /\ rows[k].pool = p}

\* What an amount for a pool adds to one of its orders.
Share(amount, rows, p, k) ==
  IF rows[p].total > 0 THEN Round(amount * rows[k].total, rows[p].total)
  ELSE Round(amount, Cardinality(Children(rows, p)))

\* Math.max(0, paid + amount).  Mutation: without the max.
AddedUnclamped(row, amount) == [row EXCEPT !.paid = @ + amount]
Added(row, amount) == [row EXCEPT !.paid = Most(0, @ + amount)]

SumTotals(rows, K) == Sum([k \in K |-> rows[k].total], K)

\* The status the payments of a sales order call for.  Mutation: drafts count.
CompletedOrDraft(t) == TRUE
Completed(t) == t.status = "COMPLETED"
PaymentsOf(o) ==
  {i \in TxIds : txs[i] # NoTx /\ txs[i].ref = o /\ txs[i].type = "INCOME" /\ Completed(txs[i])}
IncomeOf(o) == Sum([i \in PaymentsOf(o) |-> txs[i].amount], PaymentsOf(o))
Due(income, total) ==
  IF income >= total /\ total > 0 THEN "PAID"
  ELSE IF income > 0 THEN "PARTIAL_PAID" ELSE "UNPAID"

-----------------------------------------------------------------------------
(* Requests *)

\* The kind of request and the step it is at; its transaction; the allocations it has still to
\* treat, taken back when sign is -1; the rows it has loaded, and those it has still to save; the
\* sales order it is about.
Idle == [kind |-> "none", at |-> "idle", tx |-> 0, order |-> NoOrder, sign |-> 1, todo |-> <<>>,
         copies |-> [p \in Purchases |-> NoOrder], kids |-> {}, amount |-> 0, sale |-> NoOrder,
         due |-> "UNPAID", old |-> NoTx]

\* The allocations that are taken back when a transaction is deleted.
Taken(t) == IF t # NoTx /\ t.type = "EXPENSE" THEN t.shares ELSE <<>>

At(c, at) == call[c].at = at
Quiet == \A c \in Callers : call[c] = Idle
Goes(c, job) == call' = [call EXCEPT ![c] = job]
Ends(c) == Goes(c, Idle)

Begins(c, kind, job) ==
  /\ kind \in Kinds
  /\ call[c] = Idle /\ calls < MaxCalls
  /\ calls' = calls + 1
  /\ alone' = IF Quiet THEN {c} ELSE {}
  /\ steady' = (steady /\ Quiet /\ kind \notin {"bulk", "edit", "pool", "remove", "clear"}
                /\ (kind \in {"receive", "note", "correct"} =>
                      \A i \in TxIds : Taken(txs'[i]) = Taken(txs[i])))
  /\ Goes(c, IF job = Idle THEN Idle ELSE [job EXCEPT !.kind = kind])

NewTx(row) == newTx <= MaxTx /\ txs' = [txs EXCEPT ![newTx] = row] /\ newTx' = newTx + 1

\* createPOPayment and createBulkPoPayment; one order may also be paid without a list of
\* allocations.
Expense(n, list) == [type |-> "EXPENSE", amount |-> n, ref |-> NoOrder, sales |-> FALSE,
                     status |-> "COMPLETED", shares |-> list]
Pay(c) ==
  /\ \E bill \in Bills :
       LET job == [Idle EXCEPT !.at = "next", !.todo = bill.list]
       IN \/ Begins(c, "pay", job) /\ NewTx(Expense(bill.amount, bill.list))
          \/ /\ Len(bill.list) = 1 /\ bill.list[1].amount = bill.amount
             /\ Begins(c, "bulk", job) /\ NewTx(Expense(bill.amount, <<>>))
  /\ UNCHANGED <<purchases, sales, given, undone>>

\* createPayment keeps the type and the allocations that were sent, and pays nothing.
Receive(c) ==
  /\ \E e \in Entries :
       /\ NewTx([e EXCEPT !.sales = TRUE])
       /\ Begins(c, "receive", IF e.ref = NoOrder THEN Idle
                               ELSE [Idle EXCEPT !.at = "sum", !.order = e.ref])
  /\ UNCHANGED <<purchases, sales, given, undone>>

\* createTransaction stores what was sent and leaves the status of the sales order alone.
Note(c) ==
  /\ \E e \in Entries : NewTx(e) /\ Begins(c, "note", Idle)
  /\ UNCHANGED <<purchases, sales, given, undone>>

\* updateTransaction writes the columns F the request names; the row read back decides whether
\* the sales order is looked at.
Updated(t, e, F) ==
  [type   |-> IF "type" \in F THEN e.type ELSE t.type,
   amount |-> IF "amount" \in F THEN e.amount ELSE t.amount,
   ref    |-> IF "ref" \in F THEN e.ref ELSE t.ref,
   sales  |-> IF "sales" \in F THEN e.sales ELSE t.sales,
   status |-> IF "status" \in F THEN e.status ELSE t.status,
   shares |-> IF "shares" \in F THEN e.shares ELSE t.shares]
Correct(c) ==
  /\ \E i \in TxIds, e \in Entries, F \in Updates :
       /\ txs[i] # NoTx
       /\ txs' = [txs EXCEPT ![i] = Updated(txs[i], e, F)]
       /\ Begins(c, "correct", [Idle EXCEPT !.at = "reread", !.tx = i])
  /\ UNCHANGED <<purchases, sales, newTx, given, undone>>

Reread(c) ==
  /\ At(c, "reread")
  /\ LET t == txs[call[c].tx]
     IN IF t # NoTx /\ t.type = "INCOME" /\ t.ref # NoOrder /\ t.sales
        THEN Goes(c, [Idle EXCEPT !.kind = "correct", !.at = "sum", !.order = t.ref])
        ELSE Ends(c)
  /\ UNCHANGED <<purchases, sales, ledger, given, undone, history>>

\* approveTransaction saves the whole row it loaded, also one that is deleted meanwhile.
Approve(c) ==
  /\ \E i \in TxIds :
       /\ txs[i] # NoTx
       /\ Begins(c, "approve", [Idle EXCEPT !.at = "approve", !.tx = i, !.old = txs[i]])
  /\ UNCHANGED <<purchases, sales, ledger, given, undone>>

SaveApproved(c) ==
  /\ At(c, "approve")
  /\ txs' = [txs EXCEPT ![call[c].tx] = [call[c].old EXCEPT !.status = "COMPLETED"]]
  /\ Ends(c)
  /\ UNCHANGED <<purchases, sales, newTx, given, undone, history>>

\* deleteTransaction takes the allocations back one by one before the row goes.
DeleteTransaction(c) ==
  /\ \E i \in TxIds :
       /\ txs[i] # NoTx
       /\ Begins(c, "delete",
            [Idle EXCEPT !.at = "next", !.tx = i, !.old = txs[i], !.sign = -1,
                         !.todo = Taken(txs[i])])
  /\ UNCHANGED <<purchases, sales, ledger, given, undone>>

Erase(c) ==
  /\ At(c, "next") /\ call[c].todo = <<>> /\ call[c].kind = "delete"
  /\ txs' = [txs EXCEPT ![call[c].tx] = NoTx]
  /\ IF call[c].old.type = "INCOME" /\ call[c].old.ref # NoOrder
     THEN Goes(c, [Idle EXCEPT !.kind = "delete", !.at = "sum", !.order = call[c].old.ref])
     ELSE Ends(c)
  /\ UNCHANGED <<purchases, sales, newTx, given, undone, history>>

Paid(c) ==
  /\ At(c, "next") /\ call[c].todo = <<>> /\ call[c].kind # "delete"
  /\ Ends(c)
  /\ UNCHANGED <<purchases, sales, ledger, given, undone, history>>

-----------------------------------------------------------------------------
(* Purchase orders *)

Loading(job, at, p) ==
  [job EXCEPT !.at = at, !.order = p, !.copies =
     [q \in Purchases |-> IF q = p \/ q \in Children(purchases, p) THEN purchases[q] ELSE NoOrder]]
Kids(c) == Children(call[c].copies, call[c].order)
Copy(c) == call[c].copies[call[c].order]

\* A row that refers to a pool that is gone cannot be saved, and the request fails.
Refused(row) == row.pool # NoOrder /\ purchases[row.pool] = NoOrder

\* Saving an order with the orders it was loaded with pools these, and no others.
SavedWith(p, row, K) ==
  [q \in Purchases |->
     IF q = p THEN row
     ELSE IF purchases[q] = NoOrder THEN NoOrder
     ELSE IF q \in K THEN [purchases[q] EXCEPT !.pool = p]
     ELSE IF purchases[q].pool = p THEN [purchases[q] EXCEPT !.pool = NoOrder]
     ELSE purchases[q]]

\* updatePayment and updatePaymentById, for the next allocation.
LoadPurchase(c) ==
  /\ At(c, "next") /\ call[c].todo # <<>>
  /\ LET p == Head(call[c].todo).order
     IN IF purchases[p] = NoOrder THEN Goes(c, [call[c] EXCEPT !.todo = Tail(@)])
        ELSE Goes(c, Loading(call[c], "add", p))
  /\ UNCHANGED <<purchases, sales, ledger, given, undone, history>>

Amount(c) == call[c].sign * Head(call[c].todo).amount

\* The orders of the pool that the amount is shared out among.  Mutation: what is taken back from
\* a pool stays with its orders.
SharersForward(c) == IF Copy(c).pooled /\ call[c].sign = 1 THEN Kids(c) ELSE {}
Sharers(c) == IF Copy(c).pooled THEN Kids(c) ELSE {}

Treated(c, kids) ==
  IF kids # {} THEN [call[c] EXCEPT !.at = "share", !.kids = kids]
  ELSE [call[c] EXCEPT !.at = "next", !.order = NoOrder, !.todo = Tail(@), !.kids = {},
                       !.copies = Idle.copies]

\* Mutation: what is taken back is added once more.
AddedAgain(p, row, amount, rows) ==
  /\ purchases' = [rows EXCEPT ![p] = Added(row, IF amount < 0 THEN -amount ELSE amount)]
  /\ given' = [given EXCEPT ![p] = @ + Most(0, amount)]
SaveAdded(p, row, amount, rows) ==
  /\ purchases' = [rows EXCEPT ![p] = Added(row, amount)]
  /\ given' = [given EXCEPT ![p] = @ + Most(0, amount)]

AddPayment(c) ==
  /\ At(c, "add")
  /\ IF Refused(Copy(c)) THEN Ends(c) /\ UNCHANGED <<purchases, given, undone>>
     ELSE /\ SaveAdded(call[c].order, Copy(c), Amount(c),
                       SavedWith(call[c].order, Copy(c), Kids(c)))
          /\ undone' = IF call[c].sign = -1 THEN undone + 1 ELSE undone
          /\ Goes(c, Treated(c, Sharers(c)))
  /\ UNCHANGED <<sales, ledger, history>>

AddShare(c) ==
  /\ At(c, "share")
  /\ \E k \in call[c].kids :
       LET row == call[c].copies[k]
       IN IF Refused(row) THEN Ends(c) /\ UNCHANGED <<purchases, given>>
          ELSE /\ SaveAdded(k, row, Share(Amount(c), call[c].copies, call[c].order, k), purchases)
               /\ Goes(c, Treated(c, call[c].kids \ {k}))
  /\ UNCHANGED <<sales, ledger, undone, history>>

\* updatePO with new prices, which gives the pool of the order a new total.
Edit(c) ==
  /\ \E p \in Purchases, n \in Amounts :
       /\ purchases[p] # NoOrder
       /\ Begins(c, "edit", [Loading(Idle, "price", p) EXCEPT !.amount = n])
  /\ UNCHANGED <<purchases, sales, ledger, given, undone>>

SavePrice(c) ==
  /\ At(c, "price")
  /\ IF Refused(Copy(c)) THEN Ends(c) /\ UNCHANGED purchases
     ELSE /\ purchases' = [purchases EXCEPT ![call[c].order] =
                             [Copy(c) EXCEPT !.total = call[c].amount]]
          /\ IF Copy(c).pool = NoOrder THEN Ends(c)
             ELSE Goes(c, [Idle EXCEPT !.kind = "edit", !.at = "pool", !.order = Copy(c).pool])
  /\ UNCHANGED <<sales, ledger, given, undone, history>>

LoadPool(c) ==
  /\ At(c, "pool")
  /\ IF purchases[call[c].order] = NoOrder THEN Ends(c)
     ELSE Goes(c, Loading(call[c], "total", call[c].order))
  /\ UNCHANGED <<purchases, sales, ledger, given, undone, history>>

PoolTotal(c) == SumTotals(call[c].copies, Kids(c))

SavePool(c) ==
  /\ At(c, "total")
  /\ IF Refused(Copy(c)) THEN UNCHANGED purchases
     ELSE purchases' = SavedWith(call[c].order, [Copy(c) EXCEPT !.total = PoolTotal(c)], Kids(c))
  /\ Ends(c)
  /\ UNCHANGED <<sales, ledger, given, undone, history>>

\* createPooledPO: the pool is inserted, then the orders are linked to it.
Pool(c) ==
  /\ \E p \in Purchases, K \in SUBSET {k \in Purchases : purchases[k] # NoOrder} :
       /\ purchases[p] = NoOrder /\ Purchases0[p] = NoOrder
       /\ K # {} /\ \A k \in K : ~purchases[k].pooled
       /\ purchases' = [purchases EXCEPT ![p] = [total |-> SumTotals(purchases, K), paid |-> 0,
                                                 pool |-> NoOrder, pooled |-> TRUE]]
       /\ Begins(c, "pool", [Idle EXCEPT !.at = "link", !.order = p, !.kids = K])
  /\ UNCHANGED <<sales, ledger, given, undone>>

\* An UPDATE of what is there; it fails when the new pool has gone.
Link(c) ==
  /\ At(c, "link")
  /\ purchases' = IF purchases[call[c].order] = NoOrder THEN purchases
                  ELSE [q \in Purchases |->
                          IF q \in call[c].kids /\ purchases[q] # NoOrder
                          THEN [purchases[q] EXCEPT !.pool = call[c].order] ELSE purchases[q]]
  /\ Ends(c)
  /\ UNCHANGED <<sales, ledger, given, undone, history>>

\* remove: the orders of a pool are saved without it, one by one, before it is deleted.
Remove(c) ==
  /\ \E p \in Purchases :
       /\ purchases[p] # NoOrder
       /\ Begins(c, "remove", [Loading(Idle, "unlink", p) EXCEPT !.kids = Children(purchases, p)])
  /\ UNCHANGED <<purchases, sales, ledger, given, undone>>

Unlink(c) ==
  /\ At(c, "unlink")
  /\ \E k \in call[c].kids :
       /\ purchases' = [purchases EXCEPT ![k] = [call[c].copies[k] EXCEPT !.pool = NoOrder]]
       /\ Goes(c, [call[c] EXCEPT !.kids = @ \ {k}])
  /\ UNCHANGED <<sales, ledger, given, undone, history>>

\* The database refuses to delete a pool that still has orders.
DeletePurchase(c) ==
  /\ At(c, "unlink") /\ call[c].kids = {}
  /\ purchases' = IF Children(purchases, call[c].order) # {} THEN purchases
                  ELSE [purchases EXCEPT ![call[c].order] = NoOrder]
  /\ Ends(c)
  /\ UNCHANGED <<sales, ledger, given, undone, history>>

\* clearPooledPOs unlinks the orders of one type, those of the other, and deletes the pools.
Unlinked(K) == [q \in Purchases |-> IF q \notin K \/ purchases[q] = NoOrder \/ purchases[q].pooled
                                    THEN purchases[q]
                                    ELSE [purchases[q] EXCEPT !.pool = NoOrder]]
Clear(c) ==
  /\ Begins(c, "clear", [Idle EXCEPT !.at = "outsourced"])
  /\ purchases' = Unlinked(Purchases \ Outsourced)
  /\ UNCHANGED <<sales, ledger, given, undone>>

ClearOutsourced(c) ==
  /\ At(c, "outsourced")
  /\ purchases' = Unlinked(Outsourced)
  /\ Goes(c, [call[c] EXCEPT !.at = "clear"])
  /\ UNCHANGED <<sales, ledger, given, undone, history>>

DeletePools(c) ==
  /\ At(c, "clear")
  /\ LET pools == {q \in Purchases : purchases[q] # NoOrder /\ purchases[q].pooled}
     IN purchases' = IF \E q \in pools : Children(purchases, q) # {} THEN purchases
                     ELSE [q \in Purchases |-> IF q \in pools THEN NoOrder ELSE purchases[q]]
  /\ Ends(c)
  /\ UNCHANGED <<sales, ledger, given, undone, history>>

-----------------------------------------------------------------------------
(* Sales orders *)

\* syncSOPaymentStatus loads the order, then its payments.
LoadSale(c) ==
  /\ At(c, "sum")
  /\ Goes(c, [call[c] EXCEPT !.at = "income", !.sale = sales[call[c].order]])
  /\ UNCHANGED <<purchases, sales, ledger, given, undone, history>>

SumPayments(c) ==
  /\ At(c, "income")
  /\ Goes(c, [call[c] EXCEPT !.at = "status",
                             !.due = Due(IncomeOf(call[c].order), call[c].sale.total)])
  /\ UNCHANGED <<purchases, sales, ledger, given, undone, history>>

SaveStatus(c) ==
  /\ At(c, "status")
  /\ sales' = IF call[c].sale.status = call[c].due THEN sales
              ELSE [sales EXCEPT ![call[c].order] = [call[c].sale EXCEPT !.status = call[c].due]]
  /\ Ends(c)
  /\ UNCHANGED <<purchases, ledger, given, undone, history>>

\* SalesService.update saves the order it loaded with a new total, and leaves the status alone.
Price(c) ==
  /\ \E o \in Sales, n \in Amounts :
       Begins(c, "price", [Idle EXCEPT !.at = "sale", !.order = o,
                                       !.sale = [sales[o] EXCEPT !.total = n]])
  /\ UNCHANGED <<purchases, sales, ledger, given, undone>>

SaveSale(c) ==
  /\ At(c, "sale")
  /\ sales' = [sales EXCEPT ![call[c].order] = call[c].sale]
  /\ Ends(c)
  /\ UNCHANGED <<purchases, ledger, given, undone, history>>

-----------------------------------------------------------------------------

Init ==
  /\ purchases = Purchases0
  /\ sales = Sales0
  /\ txs = [i \in TxIds |-> IF i \in DOMAIN Transactions0 THEN Transactions0[i] ELSE NoTx]
  /\ newTx = Len(Transactions0) + 1
  /\ call = [c \in Callers |-> Idle]
  /\ calls = 0
  /\ given = [p \in Purchases |-> IF Purchases0[p] = NoOrder THEN 0 ELSE Purchases0[p].paid]
  /\ undone = 0
  /\ alone = {}
  /\ steady = TRUE

FinanceStep(c) ==
  \/ Pay(c) \/ Receive(c) \/ Note(c) \/ Correct(c) \/ Reread(c) \/ Approve(c) \/ SaveApproved(c)
  \/ DeleteTransaction(c) \/ Erase(c) \/ Paid(c) \/ LoadSale(c) \/ SumPayments(c) \/ SaveStatus(c)
PurchaseStep(c) ==
  \/ LoadPurchase(c) \/ AddPayment(c) \/ AddShare(c) \/ Edit(c) \/ SavePrice(c) \/ LoadPool(c)
  \/ SavePool(c) \/ Pool(c) \/ Link(c) \/ Remove(c) \/ Unlink(c) \/ DeletePurchase(c)
  \/ Clear(c) \/ ClearOutsourced(c) \/ DeletePools(c)
SaleStep(c) == Price(c) \/ SaveSale(c)

Next == \E c \in Callers : FinanceStep(c) \/ PurchaseStep(c) \/ SaleStep(c)
Spec == Init /\ [][Next]_vars

-----------------------------------------------------------------------------
(* Properties *)

\* Rows and calls keep their types; nothing is paid or owed below zero.
TypeOK ==
  /\ \A p \in Purchases : purchases[p] # NoOrder => purchases[p] \in Purchase
  /\ sales \in [Sales -> Sale]
  /\ \A i \in TxIds : txs[i] # NoTx => txs[i] \in Transaction
  /\ newTx \in 1..(MaxTx + 1) /\ calls \in 0..MaxCalls /\ undone \in Nat
  /\ given \in [Purchases -> Nat]
  /\ \A c \in Callers : \A p \in Purchases :
       call[c].copies[p] # NoOrder => call[c].copies[p] \in Purchase

\* Whatever stale row is saved last, a purchase order never shows more paid than was paid on it.
NoMoneyInvented == \A p \in Purchases : purchases[p] # NoOrder => purchases[p].paid <= given[p]

\* What deleting the transactions that are left would take back from a purchase order, directly
\* or by its pool.
AllottedTo(p, allotment) ==
  IF allotment.order = p THEN allotment.amount
  ELSE IF allotment.order = purchases[p].pool
       THEN Share(allotment.amount, purchases, allotment.order, p)
  ELSE 0
Allocated(list, p) == Sum([i \in DOMAIN list |-> AllottedTo(p, list[i])], DOMAIN list)
SharesOf(i, p) == Allocated(Taken(txs[i]), p)

\* While requests come one by one and pools and prices stay, what is paid on a purchase order is
\* what deleting the transactions that are left would take back from it; only the rounding of
\* shares that were taken back may leave something, at most one for each.  It is not so of an
\* expense that createPayment or createTransaction stores with allocations, or that a correction
\* gives or takes: nothing is paid with it, and steady leaves such requests out.
PaidIsAllocated ==
  steady /\ Quiet => \A p \in Purchases : purchases[p] # NoOrder =>
    purchases[p].paid - Sum([i \in TxIds |-> SharesOf(i, p)], TxIds) \in 0..undone

\* The status a request leaves is the one that the completed income calls for.
StatusFits(c) ==
  At(c, "status") /\ call'[c] = Idle =>
    LET o == call[c].order
        completed == {i \in TxIds : txs[i] # NoTx /\ txs[i].ref = o /\ txs[i].type = "INCOME"
                                    /\ txs[i].status = "COMPLETED"}
        income == Sum([i \in completed |-> txs[i].amount], completed)
    IN /\ sales'[o].status = "PAID" <=> income >= sales[o].total /\ sales[o].total > 0
       /\ sales'[o].status = "UNPAID" => income = 0

\* A request that looks at the payments of a sales order, and runs alone, leaves the status that
\* the completed income calls for.
SyncIsRight == [][\A c \in alone' : StatusFits(c)]_vars
=============================================================================
