-------------------------- MODULE PaymentsProofs --------------------------
(***************************************************************************)
(* Money is neither invented nor lost track of: rows and the copies that   *)
(* requests hold of them never show more paid than was paid.               *)
(***************************************************************************)
EXTENDS Payments, SumsProofs, TLAPS

Rows == [Purchases -> Purchase \cup {NoOrder}]
Places == {"idle", "next", "reread", "sum", "income", "approve", "add", "share", "price", "pool",
           "total", "link", "unlink", "outsourced", "clear", "status", "sale"}
Statuses == {"UNPAID", "PARTIAL_PAID", "PAID"}
Job == [kind : AllKinds \cup {"none"}, at : Places, tx : 0..MaxTx,
        order : Purchases \cup Sales \cup {NoOrder}, sign : {1, -1}, todo : Seq(Allotment),
        copies : Rows, kids : SUBSET Purchases, amount : Nat, sale : Sale \cup {NoOrder},
        due : Statuses, old : Transaction \cup {NoTx}]

\* What a request holds where it is.
Needs(job) ==
  /\ job.at \in {"add", "share", "price", "total"} =>
       job.order \in Purchases /\ job.copies[job.order] # NoOrder
  /\ job.at \in {"add", "share"} => job.todo # <<>>
  /\ job.at = "share" => job.kids \subseteq Children(job.copies, job.order)
  /\ job.at \in {"pool", "link", "unlink"} => job.order \in Purchases
  /\ job.at = "unlink" => \A k \in job.kids : job.copies[k] # NoOrder
  /\ job.at \in {"sum", "income", "status", "sale"} => job.order \in Sales
  /\ job.at \in {"income", "status", "sale"} => job.sale # NoOrder
  /\ job.at \in {"approve", "reread"} => job.tx # 0
  /\ job.at = "approve" => job.old # NoTx
  /\ job.at \in {"next", "add", "share"} /\ job.kind = "delete" => job.tx # 0 /\ job.old # NoTx

\* No row shows more paid than was paid.
BackedBy(rows, total) == \A p \in Purchases : rows[p] # NoOrder => rows[p].paid <= total[p]

Books ==
  /\ purchases \in Rows /\ BackedBy(purchases, given)
  /\ sales \in [Sales -> Sale]
  /\ txs \in [TxIds -> Transaction \cup {NoTx}]
  /\ newTx \in 1..(MaxTx + 1) /\ calls \in 0..MaxCalls /\ undone \in Nat
  /\ given \in [Purchases -> Nat] /\ alone \subseteq Callers
Calls ==
  /\ call \in [Callers -> Job]
  /\ \A c \in Callers : Needs(call[c]) /\ BackedBy(call[c].copies, given)

\* The inductive invariant.
IInv == Books /\ Calls

USE NullAssumption, BoundsAssumption DEF TxIds

-----------------------------------------------------------------------------
LEMMA IdleTyped ==
  /\ Idle \in Job /\ Idle.at = "idle" /\ Idle.kind = "none" /\ Idle.copies \in Rows
  /\ \A p \in Purchases : Idle.copies[p] = NoOrder
  /\ Needs(Idle)
<1>1. <<>> \in Seq(Allotment)
  OBVIOUS
<1>2. 0 \in 0..MaxTx /\ 0 \in Nat /\ {} \in SUBSET Purchases
  OBVIOUS
<1>3. Idle \in Job /\ Idle.at = "idle" /\ Idle.kind = "none" /\ Idle.copies \in Rows
      /\ \A p \in Purchases : Idle.copies[p] = NoOrder
  BY <1>1, <1>2 DEF Idle, Job, Rows, Places, Statuses
<1> QED BY <1>3 DEF Needs

LEMMA StartsGood == Init => IInv
<1> SUFFICES ASSUME Init PROVE IInv
  OBVIOUS
<1>1. PICK k \in 0..MaxTx : Transactions0 \in [1..k -> Transaction]
  BY TransactionsAssumption
<1>2. Len(Transactions0) = k /\ k \in Nat
  BY <1>1
<1>3. txs \in [TxIds -> Transaction \cup {NoTx}]
  BY <1>1 DEF Init
<1>4. purchases \in Rows /\ given \in [Purchases -> Nat] /\ BackedBy(purchases, given)
  BY PurchasesAssumption DEF Init, Rows, Purchase, BackedBy
<1>5. Books
  BY <1>2, <1>3, <1>4, SalesAssumption DEF Init, Books
<1>6. Calls
  BY IdleTyped DEF Init, Calls, BackedBy
<1> QED BY <1>5, <1>6 DEF IInv

\* The other requests keep what they hold when one goes on.
LEMMA CallsKept ==
  ASSUME IInv, NEW c \in Callers, NEW job \in Job, Needs(job), BackedBy(job.copies, given'),
         Goes(c, job), \A p \in Purchases : given[p] <= given'[p], given' \in [Purchases -> Nat]
  PROVE  Calls'
<1>1. call' \in [Callers -> Job] /\ \A d \in Callers : call'[d] = IF d = c THEN job ELSE call[d]
  BY DEF Goes, IInv, Calls
<1>2. ASSUME NEW d \in Callers PROVE Needs(call'[d]) /\ BackedBy(call'[d].copies, given')
  <2>1. CASE d = c
    BY <1>1, <2>1
  <2>2. CASE d # c
    <3>1. call'[d] = call[d] /\ call[d] \in Job /\ Needs(call[d]) /\ BackedBy(call[d].copies, given)
      BY <1>1, <2>2 DEF IInv, Calls
    <3>2. ASSUME NEW p \in Purchases, call[d].copies[p] # NoOrder
          PROVE  call[d].copies[p].paid <= given'[p]
      <4>1. call[d].copies[p] \in Purchase
        BY <3>1, <3>2 DEF Job, Rows
      <4>2. call[d].copies[p].paid \in Nat /\ given[p] \in Nat /\ given'[p] \in Nat
        BY <4>1 DEF Purchase, IInv, Books
      <4>3. call[d].copies[p].paid <= given[p] /\ given[p] <= given'[p]
        BY <3>1, <3>2 DEF BackedBy
      <4> QED BY <4>2, <4>3
    <3> QED BY <3>1, <3>2 DEF BackedBy
  <2> QED BY <2>1, <2>2
<1> QED BY <1>1, <1>2 DEF Calls

\* The same, when nothing is paid.
LEMMA CallsGo ==
  ASSUME IInv, NEW c \in Callers, NEW job \in Job, Needs(job), BackedBy(job.copies, given),
         Goes(c, job), UNCHANGED given
  PROVE  Calls'
<1>1. \A p \in Purchases : given[p] \in Nat /\ given[p] <= given[p]
  BY DEF IInv, Books
<1> QED BY <1>1, CallsKept DEF IInv, Books

LEMMA CallsEnd == ASSUME IInv, NEW c \in Callers, Ends(c), UNCHANGED given PROVE Calls'
BY IdleTyped, CallsGo DEF Ends, BackedBy

\* What a request begins with; one that is done at once leaves its caller idle.
LEMMA Begun ==
  ASSUME IInv, NEW c \in Callers, NEW kind, NEW job \in Job, Begins(c, kind, job)
  PROVE  /\ calls' \in 0..MaxCalls /\ alone' \subseteq Callers /\ call[c] = Idle
         /\ \E new \in Job :
              /\ Goes(c, new) /\ new.kind \in {kind, "none"} /\ (job # Idle => new.kind = kind)
              /\ new.at = job.at /\ new.tx = job.tx
              /\ new.order = job.order /\ new.todo = job.todo /\ new.copies = job.copies
              /\ new.kids = job.kids /\ new.sale = job.sale /\ new.old = job.old
              /\ new.sign = job.sign
<1>1. PICK new : new = IF job = Idle THEN Idle ELSE [job EXCEPT !.kind = kind]
  OBVIOUS
<1>2. kind \in AllKinds
  BY DEF Begins
<1>3. /\ new \in Job /\ new.kind \in {kind, "none"} /\ (job # Idle => new.kind = kind)
      /\ new.at = job.at /\ new.tx = job.tx
      /\ new.order = job.order /\ new.todo = job.todo /\ new.copies = job.copies
      /\ new.kids = job.kids /\ new.sale = job.sale /\ new.old = job.old /\ new.sign = job.sign
  <2>1. CASE job = Idle
    BY <1>1, <2>1, IdleTyped
  <2>2. CASE job # Idle
    BY <1>1, <1>2, <2>2 DEF Job
  <2> QED BY <2>1, <2>2
<1>4. calls' \in 0..MaxCalls /\ alone' \subseteq Callers /\ call[c] = Idle
  BY DEF Begins, IInv, Books
<1>5. Goes(c, new)
  BY <1>1 DEF Begins
<1> QED BY <1>3, <1>4, <1>5

LEMMA IdleBacked == ASSUME NEW g PROVE BackedBy(Idle.copies, g)
BY IdleTyped DEF BackedBy

LEMMA Starts ==
  ASSUME IInv, NEW c \in Callers, NEW kind, kind # "delete", NEW job \in Job, Needs(job),
         BackedBy(job.copies, given), Begins(c, kind, job), UNCHANGED given
  PROVE  Calls' /\ calls' \in 0..MaxCalls /\ alone' \subseteq Callers
<1>1. calls' \in 0..MaxCalls /\ alone' \subseteq Callers
  BY Begun
<1>2. PICK new \in Job :
           /\ Goes(c, new) /\ new.kind \in {kind, "none"} /\ new.at = job.at /\ new.tx = job.tx
           /\ new.order = job.order /\ new.todo = job.todo /\ new.copies = job.copies
           /\ new.kids = job.kids /\ new.sale = job.sale /\ new.old = job.old
  BY Begun
<1>3. Needs(new)
  BY <1>2 DEF Needs
<1>4. BackedBy(new.copies, given)
  BY <1>2
<1> QED BY <1>1, <1>2, <1>3, <1>4, CallsGo

\* The books when nothing is paid.
LEMMA BooksKept ==
  ASSUME IInv, UNCHANGED <<purchases, given, undone>>, sales' \in [Sales -> Sale],
         txs' \in [TxIds -> Transaction \cup {NoTx}], newTx' \in 1..(MaxTx + 1),
         calls' \in 0..MaxCalls, alone' \subseteq Callers
  PROVE  Books'
BY DEF IInv, Books, BackedBy

LEMMA TxInserted ==
  ASSUME IInv, NEW row \in Transaction, NewTx(row)
  PROVE  txs' \in [TxIds -> Transaction \cup {NoTx}] /\ newTx' \in 1..(MaxTx + 1)
BY DEF NewTx, IInv, Books

-----------------------------------------------------------------------------
(* Transactions *)

LEMMA ExpenseTyped ==
  ASSUME NEW bill \in Bills
  PROVE  /\ bill.list \in Seq(Allotment)
         /\ Expense(bill.amount, bill.list) \in Transaction
         /\ Expense(bill.amount, bill.list).type = "EXPENSE"
         /\ Expense(bill.amount, bill.list).shares = bill.list
         /\ Expense(bill.amount, <<>>) \in Transaction
<1>1. bill \in Bill
  BY AmountsAssumption
<1>2. bill.amount \in Nat /\ bill.list \in Seq(Allotment) /\ <<>> \in Seq(Allotment)
  BY <1>1 DEF Bill
<1> QED BY <1>2 DEF Expense, Transaction

LEMMA Pays == ASSUME IInv, NEW c \in Callers, Pay(c) PROVE IInv'
<1>1. PICK bill \in Bills :
        LET job == [Idle EXCEPT !.at = "next", !.todo = bill.list]
        IN \/ Begins(c, "pay", job) /\ NewTx(Expense(bill.amount, bill.list))
           \/ Begins(c, "bulk", job) /\ NewTx(Expense(bill.amount, <<>>))
  BY DEF Pay
<1>2. PICK list \in Seq(Allotment) : list = bill.list
  BY ExpenseTyped
<1>3. PICK row \in Transaction : NewTx(row)
  BY <1>1, ExpenseTyped
<1>4. PICK idle \in Job : idle = Idle
  BY IdleTyped
<1>5. PICK job : job = [idle EXCEPT !.at = "next", !.todo = list]
  OBVIOUS
<1>6. /\ job \in Job /\ job.at = "next" /\ job.kind = "none" /\ job.copies = Idle.copies
  BY <1>2, <1>4, <1>5, IdleTyped DEF Job, Places
<1>7. Needs(job) /\ BackedBy(job.copies, given)
  BY <1>6, IdleBacked DEF Needs
<1>8. \E kind : kind # "delete" /\ Begins(c, kind, job)
  BY <1>1, <1>2, <1>4, <1>5
<1>9. /\ txs' \in [TxIds -> Transaction \cup {NoTx}] /\ newTx' \in 1..(MaxTx + 1)
  BY <1>3, TxInserted
<1>10. Calls' /\ calls' \in 0..MaxCalls /\ alone' \subseteq Callers
  BY <1>6, <1>7, <1>8, Starts DEF Pay
<1>11. Books'
  BY <1>9, <1>10, BooksKept DEF Pay, IInv, Books
<1> QED BY <1>10, <1>11 DEF IInv

\* What createPayment and createTransaction store, and what the former looks at then.
LEMMA Stored ==
  ASSUME NEW c \in Callers, Receive(c) \/ Note(c)
  PROVE  \E row \in Transaction, kind \in {"receive", "note"}, job \in Job :
           /\ NewTx(row) /\ Begins(c, kind, job) /\ job.at \in {"sum", "idle"}
           /\ job.copies = Idle.copies /\ (job.at = "sum" => job.order \in Sales)
<1>1. PICK idle \in Job : idle = Idle
  BY IdleTyped
<1>2. CASE Note(c)
  <2>1. PICK e \in Entries : NewTx(e) /\ Begins(c, "note", Idle)
    BY <1>2 DEF Note
  <2> QED BY <1>1, <2>1, IdleTyped, EntriesAssumption
<1>3. CASE Receive(c)
  <2>1. PICK e \in Entries :
          /\ NewTx([e EXCEPT !.sales = TRUE])
          /\ Begins(c, "receive", IF e.ref = NoOrder THEN Idle
                                  ELSE [Idle EXCEPT !.at = "sum", !.order = e.ref])
    BY <1>3 DEF Receive
  <2>2. e \in Transaction
    BY EntriesAssumption
  <2>3. PICK row : row = [e EXCEPT !.sales = TRUE]
    OBVIOUS
  <2>4. row \in Transaction /\ NewTx(row)
    BY <2>1, <2>2, <2>3 DEF Transaction
  <2>5. CASE e.ref = NoOrder
    BY <1>1, <2>1, <2>4, <2>5, IdleTyped
  <2>6. CASE e.ref # NoOrder
    <3>1. PICK o \in Sales : o = e.ref
      BY <2>2, <2>6 DEF Transaction
    <3>2. PICK job : job = [idle EXCEPT !.at = "sum", !.order = o]
      OBVIOUS
    <3>3. job \in Job /\ job.at = "sum" /\ job.order = o /\ job.copies = Idle.copies
      BY <1>1, <3>2 DEF Job, Places
    <3>4. Begins(c, "receive", job)
      BY <1>1, <2>1, <2>6, <3>1, <3>2
    <3> QED BY <2>4, <3>3, <3>4
  <2> QED BY <2>5, <2>6
<1> QED BY <1>2, <1>3

LEMMA Receives == ASSUME IInv, NEW c \in Callers, Receive(c) \/ Note(c) PROVE IInv'
<1>1. \E row \in Transaction, kind \in {"receive", "note"}, job \in Job :
        /\ NewTx(row) /\ Begins(c, kind, job) /\ job.at \in {"sum", "idle"}
        /\ job.copies = Idle.copies /\ (job.at = "sum" => job.order \in Sales)
  BY Stored
<1>2. PICK row \in Transaction, kind \in {"receive", "note"}, job \in Job :
        /\ NewTx(row) /\ Begins(c, kind, job) /\ job.at \in {"sum", "idle"}
        /\ job.copies = Idle.copies /\ (job.at = "sum" => job.order \in Sales)
  BY <1>1
<1>3. Needs(job) /\ BackedBy(job.copies, given)
  BY <1>2, IdleBacked DEF Needs
<1>4. Calls' /\ calls' \in 0..MaxCalls /\ alone' \subseteq Callers
  BY <1>2, <1>3, Starts DEF Receive, Note
<1>5. txs' \in [TxIds -> Transaction \cup {NoTx}] /\ newTx' \in 1..(MaxTx + 1)
  BY <1>2, TxInserted
<1>6. Books'
  BY <1>4, <1>5, BooksKept DEF Receive, Note, IInv, Books
<1> QED BY <1>4, <1>6 DEF IInv

LEMMA Corrects == ASSUME IInv, NEW c \in Callers, Correct(c) PROVE IInv'
<1>1. PICK i \in TxIds, e \in Entries, F \in Updates :
        /\ txs[i] # NoTx
        /\ txs' = [txs EXCEPT ![i] = Updated(txs[i], e, F)]
        /\ Begins(c, "correct", [Idle EXCEPT !.at = "reread", !.tx = i])
  BY DEF Correct
<1>2. txs[i] \in Transaction /\ e \in Transaction
  BY <1>1, EntriesAssumption DEF IInv, Books
<1>3. Updated(txs[i], e, F) \in Transaction
  BY <1>2 DEF Updated, Transaction
<1>4. txs' \in [TxIds -> Transaction \cup {NoTx}]
  BY <1>1, <1>3 DEF IInv, Books
<1>5. i \in 0..MaxTx
  OBVIOUS
<1>6. PICK idle \in Job : idle = Idle
  BY IdleTyped
<1>7. PICK job : job = [idle EXCEPT !.at = "reread", !.tx = i]
  OBVIOUS
<1>8. job \in Job /\ job.at = "reread" /\ job.tx = i /\ job.copies = Idle.copies
  BY <1>5, <1>6, <1>7 DEF Job, Places
<1>9. Needs(job) /\ BackedBy(job.copies, given)
  BY <1>8, IdleBacked DEF Needs
<1>10. Calls' /\ calls' \in 0..MaxCalls /\ alone' \subseteq Callers
  BY <1>1, <1>6, <1>7, <1>8, <1>9, Starts DEF Correct
<1>11. Books'
  BY <1>4, <1>10, BooksKept DEF Correct, IInv, Books
<1> QED BY <1>10, <1>11 DEF IInv

\* A request that goes on to look at the payments of a sales order.
LEMMA GoesToSum ==
  ASSUME IInv, NEW c \in Callers, NEW kind \in AllKinds, NEW o \in Sales, UNCHANGED given,
         Goes(c, [Idle EXCEPT !.kind = kind, !.at = "sum", !.order = o])
  PROVE  Calls'
<1>1. PICK idle \in Job : idle = Idle
  BY IdleTyped
<1>2. PICK job : job = [idle EXCEPT !.kind = kind, !.at = "sum", !.order = o]
  OBVIOUS
<1>3. job \in Job /\ job.at = "sum" /\ job.order = o /\ job.copies = Idle.copies
  BY <1>1, <1>2 DEF Job, Places
<1>4. Needs(job) /\ BackedBy(job.copies, given)
  BY <1>3, IdleBacked DEF Needs
<1> QED BY <1>1, <1>2, <1>3, <1>4, CallsGo

LEMMA Rereads == ASSUME IInv, NEW c \in Callers, Reread(c) PROVE IInv'
<1>1. call[c].tx \in TxIds
  <2>1. call[c].tx \in 0..MaxTx /\ call[c].tx # 0
    BY DEF Reread, At, IInv, Calls, Needs, Job
  <2> QED BY <2>1
<1>2. PICK t : t = txs[call[c].tx]
  OBVIOUS
<1>3. t # NoTx => t.ref \in Sales \cup {NoOrder}
  BY <1>1, <1>2 DEF IInv, Books, Transaction
<1>4. \/ Ends(c)
      \/ t # NoTx /\ t.ref # NoOrder
         /\ Goes(c, [Idle EXCEPT !.kind = "correct", !.at = "sum", !.order = t.ref])
  BY <1>2 DEF Reread
<1>5. Calls'
  BY <1>3, <1>4, GoesToSum, CallsEnd DEF Reread, AllKinds
<1>6. Books'
  BY BooksKept DEF Reread, ledger, history, IInv, Books
<1> QED BY <1>5, <1>6 DEF IInv

LEMMA Approves == ASSUME IInv, NEW c \in Callers, Approve(c) PROVE IInv'
<1>1. PICK i \in TxIds : /\ txs[i] # NoTx
                         /\ Begins(c, "approve", [Idle EXCEPT !.at = "approve", !.tx = i, !.old = txs[i]])
  BY DEF Approve
<1>2. txs[i] \in Transaction
  BY <1>1 DEF IInv, Books
<1>tx. i \in 0..MaxTx
  OBVIOUS
<1>3. PICK idle \in Job : idle = Idle
  BY IdleTyped
<1>4. PICK job : job = [idle EXCEPT !.at = "approve", !.tx = i, !.old = txs[i]]
  OBVIOUS
<1>5. /\ job \in Job /\ job.at = "approve" /\ job.tx = i /\ job.old = txs[i]
      /\ job.copies = Idle.copies
  BY <1>tx, <1>2, <1>3, <1>4 DEF Job, Places
<1>6. Needs(job) /\ BackedBy(job.copies, given)
  BY <1>1, <1>5, IdleBacked DEF Needs
<1>7. Calls' /\ calls' \in 0..MaxCalls /\ alone' \subseteq Callers
  BY <1>1, <1>3, <1>4, <1>5, <1>6, Starts DEF Approve
<1>8. Books'
  BY <1>7, BooksKept DEF Approve, ledger, IInv, Books
<1> QED BY <1>7, <1>8 DEF IInv

LEMMA ApprovalSaved == ASSUME IInv, NEW c \in Callers, SaveApproved(c) PROVE IInv'
<1>1. PICK old : old = call[c].old
  OBVIOUS
<1>2. call[c].tx \in 0..MaxTx /\ call[c].tx # 0 /\ old \in Transaction
  BY <1>1 DEF SaveApproved, At, IInv, Calls, Needs, Job
<1>3. PICK row : row = [old EXCEPT !.status = "COMPLETED"]
  OBVIOUS
<1>4. row \in Transaction
  BY <1>2, <1>3 DEF Transaction
<1>5. txs' \in [TxIds -> Transaction \cup {NoTx}]
  BY <1>1, <1>2, <1>3, <1>4 DEF SaveApproved, IInv, Books
<1>6. Books'
  BY <1>5, BooksKept DEF SaveApproved, history, IInv, Books
<1>7. Calls'
  BY CallsEnd DEF SaveApproved
<1> QED BY <1>6, <1>7 DEF IInv

LEMMA TakenTyped ==
  ASSUME NEW t \in Transaction \cup {NoTx} PROVE Taken(t) \in Seq(Allotment)
<1>1. <<>> \in Seq(Allotment)
  OBVIOUS
<1> QED BY <1>1 DEF Taken, Transaction

LEMMA Deletes == ASSUME IInv, NEW c \in Callers, DeleteTransaction(c) PROVE IInv'
<1>1. PICK i \in TxIds :
        /\ txs[i] # NoTx
        /\ Begins(c, "delete", [Idle EXCEPT !.at = "next", !.tx = i, !.old = txs[i], !.sign = -1,
                                            !.todo = Taken(txs[i])])
  BY DEF DeleteTransaction
<1>2. txs[i] \in Transaction
  BY <1>1 DEF IInv, Books
<1>tx. i \in 0..MaxTx
  OBVIOUS
<1>3. PICK list : list = Taken(txs[i])
  OBVIOUS
<1>4. list \in Seq(Allotment)
  BY <1>2, <1>3, TakenTyped
<1>5. PICK idle \in Job : idle = Idle
  BY IdleTyped
<1>6. PICK job : job = [idle EXCEPT !.at = "next", !.tx = i, !.old = txs[i], !.sign = -1,
                          !.todo = list]
  OBVIOUS
<1>7. /\ job \in Job /\ job.at = "next" /\ job.tx = i /\ job.old = txs[i]
      /\ job.copies = Idle.copies
  BY <1>tx, <1>2, <1>4, <1>5, <1>6 DEF Job, Places
<1>8. Begins(c, "delete", job)
  BY <1>1, <1>3, <1>5, <1>6
<1>9. calls' \in 0..MaxCalls /\ alone' \subseteq Callers
  BY <1>7, <1>8, Begun
<1>10. PICK new \in Job : /\ Goes(c, new) /\ new.at = "next" /\ new.tx = i /\ new.old = txs[i]
                          /\ new.copies = Idle.copies
  BY <1>7, <1>8, Begun
<1>11. Needs(new) /\ BackedBy(new.copies, given)
  BY <1>1, <1>10, IdleBacked DEF Needs
<1>12. Calls'
  BY <1>10, <1>11, CallsGo DEF DeleteTransaction
<1>13. Books'
  BY <1>9, BooksKept DEF DeleteTransaction, ledger, IInv, Books
<1> QED BY <1>12, <1>13 DEF IInv

LEMMA Erases == ASSUME IInv, NEW c \in Callers, Erase(c) PROVE IInv'
<1>1. PICK old : old = call[c].old
  OBVIOUS
<1>2. old \in Transaction
  BY <1>1 DEF Erase, At, IInv, Calls, Needs, Job
<1>3. \/ Ends(c)
      \/ old.ref # NoOrder /\ Goes(c, [Idle EXCEPT !.kind = "delete", !.at = "sum", !.order = old.ref])
  BY <1>1 DEF Erase
<1>4. old.ref \in Sales \cup {NoOrder}
  BY <1>2 DEF Transaction
<1>5. Calls'
  BY <1>3, <1>4, GoesToSum, CallsEnd DEF Erase, AllKinds
<1>6. txs' \in [TxIds -> Transaction \cup {NoTx}]
  BY DEF Erase, IInv, Books
<1>7. Books'
  BY <1>6, BooksKept DEF Erase, history, IInv, Books
<1> QED BY <1>5, <1>7 DEF IInv

LEMMA EndsPaid == ASSUME IInv, NEW c \in Callers, Paid(c) PROVE IInv'
<1>1. Calls'
  BY CallsEnd DEF Paid
<1>2. Books'
  BY BooksKept DEF Paid, ledger, history, IInv, Books
<1> QED BY <1>1, <1>2 DEF IInv

-----------------------------------------------------------------------------
(* Shares of a payment *)

LEMMA RoundTyped == ASSUME NEW n \in Int, NEW d \in Nat \ {0} PROVE Round(n, d) \in Int
BY DEF Round

LEMMA ShareTyped ==
  ASSUME NEW amount \in Int, NEW rows \in Rows, NEW p \in Purchases, rows[p] # NoOrder,
         NEW k \in Children(rows, p)
  PROVE  Share(amount, rows, p, k) \in Int
<1>1. k \in Purchases /\ rows[p] \in Purchase /\ rows[k] \in Purchase
  BY DEF Children, Rows
<1>2. rows[p].total \in Nat /\ rows[k].total \in Nat
  BY <1>1 DEF Purchase
<1>3. amount * rows[k].total \in Int
  BY <1>2
<1>4. CASE rows[p].total > 0
  BY <1>2, <1>3, <1>4, RoundTyped DEF Share
<1>5. CASE ~(rows[p].total > 0)
  <2>1. Children(rows, p) \subseteq Purchases /\ Children(rows, p) # {}
    BY DEF Children
  <2>2. IsFiniteSet(Children(rows, p))
    BY <2>1, PurchasesAssumption, FS_Subset
  <2>3. Cardinality(Children(rows, p)) \in Nat \ {0}
    BY <2>1, <2>2, FS_CardinalityType, FS_EmptySet
  <2> QED BY <1>5, <2>3, RoundTyped DEF Share
<1> QED BY <1>4, <1>5

\* Math.max(0, ...) adds no more than the amount, and takes nothing that was not there.
LEMMA AddedGood ==
  ASSUME NEW row \in Purchase, NEW amount \in Int, NEW g \in Nat, row.paid <= g
  PROVE  /\ Added(row, amount) \in Purchase
         /\ Added(row, amount).paid <= g + Most(0, amount)
         /\ g + Most(0, amount) \in Nat /\ g <= g + Most(0, amount)
<1>1. row.paid \in Nat
  BY DEF Purchase
<1>2. PICK paid \in Nat : paid = Most(0, row.paid + amount)
  BY <1>1 DEF Most
<1>3. Added(row, amount) = [row EXCEPT !.paid = paid]
  BY <1>2 DEF Added
<1>4. Added(row, amount) \in Purchase /\ Added(row, amount).paid = paid
  BY <1>3 DEF Purchase
<1>5. paid <= g + Most(0, amount)
  BY <1>1, <1>2 DEF Most
<1>6. g + Most(0, amount) \in Nat /\ g <= g + Most(0, amount)
  BY DEF Most
<1> QED BY <1>4, <1>5, <1>6

\* A payment saved on a row that is backed is backed by what was paid.
LEMMA SaveAddedGood ==
  ASSUME IInv, NEW p \in Purchases, NEW row \in Purchase, row.paid <= given[p], NEW amount \in Int,
         NEW rows \in Rows, BackedBy(rows, given), SaveAdded(p, row, amount, rows)
  PROVE  /\ purchases' \in Rows /\ BackedBy(purchases', given')
         /\ given' \in [Purchases -> Nat] /\ \A q \in Purchases : given[q] <= given'[q]
<1>1. /\ given \in [Purchases -> Nat]
      /\ purchases' = [rows EXCEPT ![p] = Added(row, amount)]
      /\ given' = [given EXCEPT ![p] = @ + Most(0, amount)]
  BY DEF SaveAdded, IInv, Books
<1>2. PICK new, g : new = Added(row, amount) /\ g = given[p] + Most(0, amount)
  OBVIOUS
<1>3. new \in Purchase /\ new.paid <= g /\ g \in Nat /\ given[p] <= g
  BY <1>1, <1>2, AddedGood
<1>4. \A q \in Purchases : /\ given'[q] = IF q = p THEN g ELSE given[q]
                           /\ purchases'[q] = IF q = p THEN new ELSE rows[q]
                           /\ given[q] \in Nat
  BY <1>1, <1>2 DEF Rows
<1>5. given' \in [Purchases -> Nat] /\ \A q \in Purchases : given[q] <= given'[q]
  BY <1>1, <1>2, <1>3, <1>4
<1>6. purchases' \in Rows
  BY <1>1, <1>2, <1>3 DEF Rows
<1>7. BackedBy(purchases', given')
  BY <1>3, <1>4 DEF BackedBy
<1> QED BY <1>5, <1>6, <1>7

-----------------------------------------------------------------------------
(* Purchase orders *)

\* What a request loads is a part of the table.
LEMMA LoadingGood ==
  ASSUME IInv, NEW job \in Job, NEW at \in Places, NEW p \in Purchases
  PROVE  \E new \in Job :
           /\ new = Loading(job, at, p)
           /\ new.kind = job.kind /\ new.at = at /\ new.tx = job.tx /\ new.order = p
           /\ new.todo = job.todo /\ new.kids = job.kids /\ new.sale = job.sale
           /\ new.old = job.old /\ BackedBy(new.copies, given)
           /\ \A q \in Purchases : q = p \/ q \in Children(purchases, p) => new.copies[q] = purchases[q]
<1>1. PICK copies : copies = [q \in Purchases |-> IF q = p \/ q \in Children(purchases, p)
                                                 THEN purchases[q] ELSE NoOrder]
  OBVIOUS
<1>2. PICK new : new = [job EXCEPT !.at = at, !.order = p, !.copies = copies]
  OBVIOUS
<1>3. copies \in Rows /\ BackedBy(copies, given)
      /\ \A q \in Purchases : q = p \/ q \in Children(purchases, p) => copies[q] = purchases[q]
  BY <1>1 DEF IInv, Books, Rows, BackedBy
<1>4. /\ new \in Job /\ new.kind = job.kind /\ new.at = at /\ new.tx = job.tx /\ new.order = p
      /\ new.todo = job.todo /\ new.kids = job.kids /\ new.sale = job.sale
      /\ new.old = job.old /\ new.copies = copies
  BY <1>2, <1>3 DEF Job
<1>5. new = Loading(job, at, p)
  BY <1>1, <1>2 DEF Loading
<1> QED BY <1>3, <1>4, <1>5

LEMMA SavedWithGood ==
  ASSUME IInv, NEW p \in Purchases, NEW row \in Purchase, row.paid <= given[p], NEW K
  PROVE  SavedWith(p, row, K) \in Rows /\ BackedBy(SavedWith(p, row, K), given)
<1>1. \A q \in Purchases : purchases[q] # NoOrder =>
        purchases[q] \in Purchase /\ purchases[q].paid <= given[q]
  BY DEF IInv, Books, Rows, BackedBy
<1>2. ASSUME NEW q \in Purchases, SavedWith(p, row, K)[q] # NoOrder
      PROVE  SavedWith(p, row, K)[q] \in Purchase /\ SavedWith(p, row, K)[q].paid <= given[q]
  <2>1. CASE q = p
    BY <2>1 DEF SavedWith
  <2>2. CASE q # p
    <3>1. purchases[q] \in Purchase /\ purchases[q].paid <= given[q]
      BY <1>1, <1>2, <2>2 DEF SavedWith
    <3>2. PICK also, gone : /\ also = [purchases[q] EXCEPT !.pool = p]
                            /\ gone = [purchases[q] EXCEPT !.pool = NoOrder]
      OBVIOUS
    <3>3. /\ also \in Purchase /\ also.paid = purchases[q].paid
          /\ gone \in Purchase /\ gone.paid = purchases[q].paid
      BY <3>1, <3>2 DEF Purchase
    <3>4. SavedWith(p, row, K)[q] \in {also, gone, purchases[q]}
      BY <1>2, <2>2, <3>2 DEF SavedWith
    <3> QED BY <3>1, <3>3, <3>4
  <2> QED BY <2>1, <2>2
<1>3. DOMAIN SavedWith(p, row, K) = Purchases
      /\ SavedWith(p, row, K) = [q \in Purchases |-> SavedWith(p, row, K)[q]]
  BY DEF SavedWith
<1>4. SavedWith(p, row, K) \in Rows
  BY <1>2, <1>3 DEF Rows
<1> QED BY <1>2, <1>4 DEF BackedBy

\* The row of an order, and the copies of those it pools, that a request holds.
LEMMA CopiesGood ==
  ASSUME IInv, NEW c \in Callers
  PROVE  /\ call[c] \in Job /\ Needs(call[c]) /\ BackedBy(call[c].copies, given)
         /\ call[c].copies \in Rows
         /\ \A q \in Purchases : call[c].copies[q] # NoOrder =>
              call[c].copies[q] \in Purchase /\ call[c].copies[q].paid <= given[q]
<1>1. call[c] \in Job /\ Needs(call[c]) /\ BackedBy(call[c].copies, given)
  BY DEF IInv, Calls
<1>2. call[c].copies \in Rows
  BY <1>1 DEF Job
<1> QED BY <1>1, <1>2 DEF Rows, BackedBy

LEMMA LoadsPurchase == ASSUME IInv, NEW c \in Callers, LoadPurchase(c) PROVE IInv'
<1>1. call[c] \in Job /\ Needs(call[c]) /\ BackedBy(call[c].copies, given)
  BY CopiesGood
<1>2. call[c].at = "next" /\ call[c].todo # <<>> /\ call[c].todo \in Seq(Allotment)
  BY <1>1 DEF LoadPurchase, At, Job
<1>3. Head(call[c].todo) \in Allotment /\ Tail(call[c].todo) \in Seq(Allotment)
  BY <1>2
<1>4. PICK p \in Purchases : p = Head(call[c].todo).order
  BY <1>3 DEF Allotment
<1>5. CASE purchases[p] = NoOrder
  <2>1. PICK job : job = [call[c] EXCEPT !.todo = Tail(@)]
    OBVIOUS
  <2>2. /\ job \in Job /\ job.at = "next" /\ job.kind = call[c].kind /\ job.tx = call[c].tx
        /\ job.old = call[c].old /\ job.copies = call[c].copies
    BY <1>1, <1>2, <1>3, <2>1 DEF Job
  <2>3. Needs(job) /\ BackedBy(job.copies, given)
    BY <1>1, <1>2, <2>2 DEF Needs
  <2>4. Goes(c, job) /\ UNCHANGED given
    BY <1>4, <1>5, <2>1 DEF LoadPurchase
  <2>5. Calls'
    BY <2>2, <2>3, <2>4, CallsGo
  <2> QED BY <2>5, BooksKept DEF LoadPurchase, ledger, history, IInv, Books
<1>6. CASE purchases[p] # NoOrder
  <2>1. PICK job \in Job :
           /\ job = Loading(call[c], "add", p)
           /\ job.kind = call[c].kind /\ job.at = "add" /\ job.tx = call[c].tx /\ job.order = p
           /\ job.todo = call[c].todo /\ job.old = call[c].old /\ BackedBy(job.copies, given)
           /\ job.copies[p] = purchases[p]
    <3>1. "add" \in Places
      BY DEF Places
    <3>2. PICK job \in Job :
           /\ job = Loading(call[c], "add", p)
           /\ job.kind = call[c].kind /\ job.at = "add" /\ job.tx = call[c].tx /\ job.order = p
           /\ job.todo = call[c].todo /\ job.kids = call[c].kids /\ job.sale = call[c].sale
           /\ job.old = call[c].old /\ BackedBy(job.copies, given)
           /\ \A q \in Purchases : q = p \/ q \in Children(purchases, p) => job.copies[q] = purchases[q]
      BY <1>1, <3>1, LoadingGood
    <3> QED BY <3>2
  <2>2. Needs(job)
    BY <1>1, <1>2, <1>6, <2>1 DEF Needs
  <2>3. Goes(c, job) /\ UNCHANGED given
    BY <1>4, <1>6, <2>1 DEF LoadPurchase
  <2>4. Calls'
    BY <2>1, <2>2, <2>3, CallsGo
  <2> QED BY <2>4, BooksKept DEF LoadPurchase, ledger, history, IInv, Books
<1> QED BY <1>5, <1>6

\* A request goes on to the next order of the pool, or to its next allocation.
LEMMA TreatedGood ==
  ASSUME IInv, NEW c \in Callers, call[c].at \in {"add", "share"},
         NEW kids, kids \subseteq Children(call[c].copies, call[c].order)
  PROVE  Treated(c, kids) \in Job /\ Needs(Treated(c, kids))
         /\ (Treated(c, kids).copies = call[c].copies \/ Treated(c, kids).copies = Idle.copies)
<1>1. call[c] \in Job /\ Needs(call[c])
  BY CopiesGood
<1>2. call[c].todo # <<>> /\ call[c].todo \in Seq(Allotment) /\ Tail(call[c].todo) \in Seq(Allotment)
  BY <1>1 DEF Needs, Job
<1>3. kids \in SUBSET Purchases
  BY DEF Children
<1>4. CASE kids # {}
  <2>1. PICK job : job = [call[c] EXCEPT !.at = "share", !.kids = kids]
    OBVIOUS
  <2>2. /\ job \in Job /\ job.at = "share" /\ job.kids = kids /\ job.order = call[c].order
        /\ job.copies = call[c].copies /\ job.todo = call[c].todo /\ job.kind = call[c].kind
        /\ job.tx = call[c].tx /\ job.old = call[c].old
    BY <1>1, <1>3, <2>1 DEF Job, Places
  <2>3. Needs(job)
    BY <1>1, <1>2, <2>2 DEF Needs
  <2> QED BY <1>4, <2>1, <2>2, <2>3 DEF Treated
<1>5. CASE kids = {}
  <2>1. PICK job : job = [call[c] EXCEPT !.at = "next", !.order = NoOrder, !.todo = Tail(@),
                                         !.kids = {}, !.copies = Idle.copies]
    OBVIOUS
  <2>2. /\ job \in Job /\ job.at = "next" /\ job.kind = call[c].kind
        /\ job.tx = call[c].tx /\ job.old = call[c].old /\ job.copies = Idle.copies
    BY <1>1, <1>2, <2>1, IdleTyped DEF Job, Places
  <2>3. Needs(job)
    BY <1>1, <1>2, <2>2 DEF Needs
  <2> QED BY <1>5, <2>1, <2>2, <2>3 DEF Treated
<1> QED BY <1>4, <1>5

LEMMA AmountTyped ==
  ASSUME IInv, NEW c \in Callers, call[c].at \in {"add", "share"} PROVE Amount(c) \in Int
<1>1. call[c] \in Job /\ Needs(call[c])
  BY CopiesGood
<1>2. call[c].todo # <<>> /\ call[c].todo \in Seq(Allotment) /\ call[c].sign \in {1, -1}
  BY <1>1 DEF Needs, Job
<1>3. Head(call[c].todo) \in Allotment
  BY <1>2
<1>4. Head(call[c].todo).amount \in Nat
  BY <1>3 DEF Allotment
<1> QED BY <1>2, <1>4 DEF Amount

\* A payment is saved on a row a request holds, and the request goes on.
LEMMA PaymentSaved ==
  ASSUME IInv, NEW c \in Callers, NEW p \in Purchases, NEW row \in Purchase, row.paid <= given[p],
         NEW amount \in Int, NEW rows \in Rows, BackedBy(rows, given), SaveAdded(p, row, amount, rows),
         call[c].at \in {"add", "share"}, NEW kids, kids \subseteq Children(call[c].copies, call[c].order),
         Goes(c, Treated(c, kids)), undone' \in Nat, UNCHANGED <<sales, ledger, history>>
  PROVE  IInv'
<1>1. /\ purchases' \in Rows /\ BackedBy(purchases', given')
      /\ given' \in [Purchases -> Nat] /\ \A q \in Purchases : given[q] <= given'[q]
  BY SaveAddedGood
<1>2. PICK job : job = Treated(c, kids)
  OBVIOUS
<1>3. /\ job \in Job /\ Needs(job)
      /\ job.copies = call[c].copies \/ job.copies = Idle.copies
  BY <1>2, TreatedGood
<1>4. BackedBy(job.copies, given')
  <2>1. \A q \in Purchases : call[c].copies[q] # NoOrder => call[c].copies[q].paid <= given'[q]
    <3> SUFFICES ASSUME NEW q \in Purchases, call[c].copies[q] # NoOrder
                 PROVE  call[c].copies[q].paid <= given'[q]
      OBVIOUS
    <3>1. call[c].copies[q] \in Purchase /\ call[c].copies[q].paid <= given[q]
      BY CopiesGood
    <3>2. call[c].copies[q].paid \in Nat /\ given[q] \in Nat /\ given'[q] \in Nat /\ given[q] <= given'[q]
      BY <1>1, <3>1 DEF Purchase, IInv, Books
    <3> QED BY <3>1, <3>2
  <2> QED BY <1>3, <2>1, IdleBacked DEF BackedBy
<1>5. Calls'
  BY <1>1, <1>2, <1>3, <1>4, CallsKept
<1>6. Books'
  BY <1>1 DEF IInv, Books, ledger, history
<1> QED BY <1>5, <1>6 DEF IInv

\* A request whose row is refused ends.
LEMMA RefusedEnds ==
  ASSUME IInv, NEW c \in Callers, Ends(c), UNCHANGED <<purchases, sales, ledger, given, undone, history>>
  PROVE  IInv'
<1>1. Calls'
  BY CallsEnd
<1>2. Books'
  BY BooksKept DEF ledger, history, IInv, Books
<1> QED BY <1>1, <1>2 DEF IInv

LEMMA AddsPayment == ASSUME IInv, NEW c \in Callers, AddPayment(c) PROVE IInv'
<1>1. PICK p : p = call[c].order
  OBVIOUS
<1>2. /\ call[c].at = "add" /\ p \in Purchases
      /\ Copy(c) \in Purchase /\ Copy(c).paid <= given[p]
  BY <1>1, CopiesGood DEF AddPayment, At, Needs, Copy
<1>3. CASE Refused(Copy(c))
  BY <1>3, RefusedEnds DEF AddPayment
<1>4. CASE ~Refused(Copy(c))
  <2>1. /\ SaveAdded(p, Copy(c), Amount(c), SavedWith(p, Copy(c), Kids(c)))
        /\ undone' = IF call[c].sign = -1 THEN undone + 1 ELSE undone
        /\ Goes(c, Treated(c, Sharers(c))) /\ UNCHANGED <<sales, ledger, history>>
    BY <1>1, <1>4 DEF AddPayment
  <2>2. undone' \in Nat
    BY <2>1 DEF IInv, Books
  <2>3. PICK rows \in Rows : rows = SavedWith(p, Copy(c), Kids(c)) /\ BackedBy(rows, given)
    BY <1>2, SavedWithGood
  <2>4. Sharers(c) \subseteq Children(call[c].copies, call[c].order)
    BY DEF Sharers, Kids
  <2>5. Amount(c) \in Int
    BY <1>2, AmountTyped
  <2> QED BY <1>2, <2>1, <2>2, <2>3, <2>4, <2>5, PaymentSaved
<1> QED BY <1>3, <1>4

LEMMA AddsShare == ASSUME IInv, NEW c \in Callers, AddShare(c) PROVE IInv'
<1>1. PICK p : p = call[c].order
  OBVIOUS
<1>2. /\ call[c].at = "share" /\ p \in Purchases /\ call[c].copies[p] # NoOrder
      /\ call[c].kids \subseteq Children(call[c].copies, p) /\ call[c].copies \in Rows
  BY <1>1, CopiesGood DEF AddShare, At, Needs
<1>3. PICK k \in call[c].kids :
        IF Refused(call[c].copies[k]) THEN Ends(c) /\ UNCHANGED <<purchases, given>>
        ELSE /\ SaveAdded(k, call[c].copies[k], Share(Amount(c), call[c].copies, p, k), purchases)
             /\ Goes(c, Treated(c, call[c].kids \ {k}))
  BY <1>1 DEF AddShare
<1>4. CASE Refused(call[c].copies[k])
  BY <1>3, <1>4, RefusedEnds DEF AddShare
<1>5. CASE ~Refused(call[c].copies[k])
  <2>1. k \in Purchases /\ k \in Children(call[c].copies, p) /\ call[c].copies[k] # NoOrder
    BY <1>2, <1>3 DEF Children
  <2>2. call[c].copies[k] \in Purchase /\ call[c].copies[k].paid <= given[k]
    BY <2>1, CopiesGood
  <2>3. Amount(c) \in Int
    BY <1>2, AmountTyped
  <2>4. Share(Amount(c), call[c].copies, p, k) \in Int
    BY <1>2, <2>1, <2>3, ShareTyped
  <2>5. call[c].kids \ {k} \subseteq Children(call[c].copies, call[c].order)
    BY <1>1, <1>2
  <2>6. purchases \in Rows /\ BackedBy(purchases, given) /\ undone' \in Nat
    BY DEF IInv, Books, AddShare
  <2>7. UNCHANGED <<sales, ledger, history>>
    BY DEF AddShare
  <2> QED BY <1>2, <1>3, <1>5, <2>1, <2>2, <2>4, <2>5, <2>6, <2>7, PaymentSaved
<1> QED BY <1>4, <1>5

\* What pools and prices change of the table keeps what is paid, or takes rows away.
Kept(row, old) ==
  row # NoOrder => row \in Purchase /\ old # NoOrder /\ row.paid = old.paid

LEMMA RowsKept ==
  ASSUME IInv, NEW rows, rows = [q \in Purchases |-> rows[q]],
         \A q \in Purchases : Kept(rows[q], purchases[q])
  PROVE  rows \in Rows /\ BackedBy(rows, given)
<1>1. \A q \in Purchases : purchases[q] # NoOrder => purchases[q].paid <= given[q]
  BY DEF IInv, Books, BackedBy
<1>2. BackedBy(rows, given)
  BY <1>1 DEF BackedBy, Kept
<1>3. \A q \in Purchases : rows[q] \in Purchase \cup {NoOrder}
  BY DEF Kept
<1> QED BY <1>2, <1>3 DEF Rows

\* The row of an order in a pool, or in none.
LEMMA PoolSet ==
  ASSUME NEW row \in Purchase, NEW g \in Purchases \cup {NoOrder}
  PROVE  [row EXCEPT !.pool = g] \in Purchase /\ [row EXCEPT !.pool = g].paid = row.paid
BY DEF Purchase

\* The books when rows are saved and nothing is paid.
LEMMA RowsSaved ==
  ASSUME IInv, purchases' \in Rows, BackedBy(purchases', given), UNCHANGED <<sales, ledger, given, undone>>,
         calls' \in 0..MaxCalls, alone' \subseteq Callers
  PROVE  Books'
BY DEF IInv, Books, ledger

LEMMA HistoryKept ==
  ASSUME IInv, UNCHANGED history PROVE calls' \in 0..MaxCalls /\ alone' \subseteq Callers
BY DEF IInv, Books, history

LEMMA Edits == ASSUME IInv, NEW c \in Callers, Edit(c) PROVE IInv'
<1>1. PICK p \in Purchases, n \in Amounts :
        purchases[p] # NoOrder /\ Begins(c, "edit", [Loading(Idle, "price", p) EXCEPT !.amount = n])
  BY DEF Edit
<1>2. "price" \in Places /\ Idle \in Job /\ n \in Nat
  BY IdleTyped, AmountsAssumption DEF Places
<1>3. PICK base \in Job :
         /\ base = Loading(Idle, "price", p)
         /\ base.kind = Idle.kind /\ base.at = "price" /\ base.tx = Idle.tx /\ base.order = p
         /\ base.todo = Idle.todo /\ base.kids = Idle.kids /\ base.sale = Idle.sale
         /\ base.old = Idle.old /\ BackedBy(base.copies, given)
         /\ \A q \in Purchases : q = p \/ q \in Children(purchases, p) => base.copies[q] = purchases[q]
  BY <1>2, LoadingGood
<1>4. PICK job : job = [base EXCEPT !.amount = n]
  OBVIOUS
<1>5. job \in Job /\ job.at = "price" /\ job.order = p /\ job.copies = base.copies
  BY <1>2, <1>3, <1>4 DEF Job
<1>6. Needs(job) /\ BackedBy(job.copies, given)
  BY <1>1, <1>3, <1>5 DEF Needs
<1>7. Calls' /\ calls' \in 0..MaxCalls /\ alone' \subseteq Callers
  BY <1>1, <1>3, <1>4, <1>5, <1>6, Starts DEF Edit
<1>8. Books'
  BY <1>7, BooksKept DEF Edit, ledger, IInv, Books
<1> QED BY <1>7, <1>8 DEF IInv

LEMMA PriceSaved == ASSUME IInv, NEW c \in Callers, SavePrice(c) PROVE IInv'
<1>1. PICK p, row, n : p = call[c].order /\ row = Copy(c) /\ n = call[c].amount
  OBVIOUS
<1>2. p \in Purchases /\ row \in Purchase /\ row.paid <= given[p] /\ n \in Nat
  <2>1. call[c] \in Job /\ Needs(call[c]) /\ call[c].at = "price"
    BY CopiesGood DEF SavePrice, At
  <2>2. p \in Purchases /\ call[c].copies[p] # NoOrder /\ row = call[c].copies[p]
    BY <1>1, <2>1 DEF Needs, Copy
  <2> QED BY <1>1, <2>1, <2>2, CopiesGood DEF Job
<1>3. CASE Refused(Copy(c))
  BY <1>3, RefusedEnds DEF SavePrice
<1>4. CASE ~Refused(Copy(c))
  <2>1. PICK new : new = [row EXCEPT !.total = n]
    OBVIOUS
  <2>2. new \in Purchase /\ new.paid = row.paid
    BY <1>2, <2>1 DEF Purchase
  <2>3. purchases' = [purchases EXCEPT ![p] = new] /\ purchases \in Rows
    BY <1>1, <1>4, <2>1 DEF SavePrice, IInv, Books
  <2>4. purchases' \in Rows
    BY <1>2, <2>2, <2>3 DEF Rows
  <2>5. BackedBy(purchases', given)
    BY <1>2, <2>2, <2>3 DEF BackedBy, Rows, IInv, Books
  <2>6. Books'
    BY <2>4, <2>5, RowsSaved, HistoryKept DEF SavePrice
  <2>7. CASE row.pool = NoOrder
    BY <1>1, <1>4, <2>6, <2>7, CallsEnd DEF SavePrice, IInv
  <2>8. CASE row.pool # NoOrder
    <3>1. PICK idle \in Job : idle = Idle
      BY IdleTyped
    <3>2. PICK g \in Purchases : g = row.pool
      BY <1>2, <2>8 DEF Purchase
    <3>3. PICK job : job = [idle EXCEPT !.kind = "edit", !.at = "pool", !.order = g]
      OBVIOUS
    <3>4. job \in Job /\ job.at = "pool" /\ job.order = g /\ job.copies = Idle.copies
      BY <3>1, <3>3 DEF Job, Places, AllKinds
    <3>5. Needs(job) /\ BackedBy(job.copies, given)
      BY <3>4, IdleBacked DEF Needs
    <3>6. Goes(c, job)
      BY <1>1, <1>4, <2>8, <3>1, <3>2, <3>3 DEF SavePrice
    <3>7. Calls'
      BY <3>4, <3>5, <3>6, CallsGo DEF SavePrice
    <3> QED BY <2>6, <3>7 DEF IInv
  <2> QED BY <2>7, <2>8
<1> QED BY <1>3, <1>4

LEMMA LoadsPool == ASSUME IInv, NEW c \in Callers, LoadPool(c) PROVE IInv'
<1>1. PICK p : p = call[c].order
  OBVIOUS
<1>2. call[c] \in Job /\ p \in Purchases
  BY <1>1, CopiesGood DEF LoadPool, At, Needs
<1>3. CASE purchases[p] = NoOrder
  BY <1>1, <1>3, RefusedEnds DEF LoadPool
<1>4. CASE purchases[p] # NoOrder
  <2>1. "total" \in Places
    BY DEF Places
  <2>2. PICK job \in Job :
         /\ job = Loading(call[c], "total", p)
         /\ job.kind = call[c].kind /\ job.at = "total" /\ job.tx = call[c].tx /\ job.order = p
         /\ job.todo = call[c].todo /\ job.kids = call[c].kids /\ job.sale = call[c].sale
         /\ job.old = call[c].old /\ BackedBy(job.copies, given)
         /\ \A q \in Purchases : q = p \/ q \in Children(purchases, p) => job.copies[q] = purchases[q]
    BY <1>2, <2>1, LoadingGood
  <2>3. Needs(job)
    BY <1>2, <1>4, <2>2 DEF Needs
  <2>4. Goes(c, job)
    BY <1>1, <1>4, <2>2 DEF LoadPool
  <2>5. Calls'
    BY <2>2, <2>3, <2>4, CallsGo DEF LoadPool
  <2> QED BY <2>5, BooksKept DEF LoadPool, ledger, history, IInv, Books
<1> QED BY <1>3, <1>4

LEMMA SumTotalsTyped ==
  ASSUME NEW rows \in Rows, NEW K \in SUBSET Purchases, \A k \in K : rows[k] # NoOrder
  PROVE  SumTotals(rows, K) \in Nat
<1> DEFINE f == [k \in K |-> rows[k].total]
<1>1. \A k \in K : f[k] \in Nat
  BY DEF Rows, Purchase
<1>2. IsFiniteSet(K)
  BY PurchasesAssumption, FS_Subset
<1> HIDE DEF f
<1>3. Sum(f, K) \in Nat
  BY <1>1, <1>2, SumNat
<1> QED BY <1>3 DEF SumTotals, f

LEMMA PoolSaved == ASSUME IInv, NEW c \in Callers, SavePool(c) PROVE IInv'
<1>1. PICK p, row : p = call[c].order /\ row = Copy(c)
  OBVIOUS
<1>2. p \in Purchases /\ row \in Purchase /\ row.paid <= given[p] /\ call[c].copies \in Rows
  <2>1. call[c] \in Job /\ Needs(call[c]) /\ call[c].at = "total" /\ call[c].copies \in Rows
    BY CopiesGood DEF SavePool, At
  <2>2. p \in Purchases /\ call[c].copies[p] # NoOrder /\ row = call[c].copies[p]
    BY <1>1, <2>1 DEF Needs, Copy
  <2> QED BY <1>1, <2>1, <2>2, CopiesGood
<1>3. CASE Refused(Copy(c))
  BY <1>3, RefusedEnds DEF SavePool
<1>4. CASE ~Refused(Copy(c))
  <2>1. Kids(c) \in SUBSET Purchases /\ \A k \in Kids(c) : call[c].copies[k] # NoOrder
    BY DEF Kids, Children
  <2>2. PoolTotal(c) \in Nat
    BY <1>2, <2>1, SumTotalsTyped DEF PoolTotal
  <2>3. PICK new : new = [row EXCEPT !.total = PoolTotal(c)]
    OBVIOUS
  <2>4. new \in Purchase /\ new.paid <= given[p]
    BY <1>2, <2>2, <2>3 DEF Purchase
  <2>5. purchases' = SavedWith(p, new, Kids(c))
    BY <1>1, <1>4, <2>3 DEF SavePool
  <2>6. purchases' \in Rows /\ BackedBy(purchases', given)
    BY <1>2, <2>4, <2>5, SavedWithGood
  <2>7. Books'
    BY <2>6, RowsSaved, HistoryKept DEF SavePool
  <2> QED BY <2>7, CallsEnd DEF SavePool, IInv
<1> QED BY <1>3, <1>4

LEMMA Pools == ASSUME IInv, NEW c \in Callers, Pool(c) PROVE IInv'
<1>1. PICK p \in Purchases, K \in SUBSET {k \in Purchases : purchases[k] # NoOrder} :
        /\ purchases' = [purchases EXCEPT ![p] = [total |-> SumTotals(purchases, K), paid |-> 0,
                                                  pool |-> NoOrder, pooled |-> TRUE]]
        /\ Begins(c, "pool", [Idle EXCEPT !.at = "link", !.order = p, !.kids = K])
  BY DEF Pool
<1>2. purchases \in Rows /\ given \in [Purchases -> Nat]
  BY DEF IInv, Books
<1>3. SumTotals(purchases, K) \in Nat
  BY <1>2, SumTotalsTyped
<1>4. PICK new : new = [total |-> SumTotals(purchases, K), paid |-> 0, pool |-> NoOrder, pooled |-> TRUE]
  OBVIOUS
<1>5. new \in Purchase /\ new.paid = 0
  BY <1>3, <1>4 DEF Purchase
<1>6. purchases' \in Rows
  BY <1>1, <1>2, <1>4, <1>5 DEF Rows
<1>7. BackedBy(purchases', given)
  <2> SUFFICES ASSUME NEW q \in Purchases, purchases'[q] # NoOrder PROVE purchases'[q].paid <= given[q]
    BY DEF BackedBy
  <2>1. purchases'[q] = IF q = p THEN new ELSE purchases[q]
    BY <1>1, <1>2, <1>4 DEF Rows
  <2>2. given[q] \in Nat /\ (purchases[q] # NoOrder => purchases[q].paid <= given[q])
    BY <1>2 DEF IInv, Books, BackedBy
  <2> QED BY <1>5, <2>1, <2>2
<1>8. PICK idle \in Job : idle = Idle
  BY IdleTyped
<1>9. PICK job : job = [idle EXCEPT !.at = "link", !.order = p, !.kids = K]
  OBVIOUS
<1>10. job \in Job /\ job.at = "link" /\ job.order = p /\ job.copies = Idle.copies
  BY <1>8, <1>9 DEF Job, Places
<1>11. Needs(job) /\ BackedBy(job.copies, given)
  BY <1>10, IdleBacked DEF Needs
<1>12. Calls' /\ calls' \in 0..MaxCalls /\ alone' \subseteq Callers
  BY <1>1, <1>8, <1>9, <1>10, <1>11, Starts DEF Pool
<1>13. Books'
  BY <1>6, <1>7, <1>12, RowsSaved DEF Pool
<1> QED BY <1>12, <1>13 DEF IInv

LEMMA Links == ASSUME IInv, NEW c \in Callers, Link(c) PROVE IInv'
<1>1. PICK p : p = call[c].order
  OBVIOUS
<1>2. p \in Purchases /\ purchases \in Rows
  BY <1>1, CopiesGood DEF Link, At, Needs, IInv, Books
<1>3. purchases' \in Rows /\ BackedBy(purchases', given)
  <2>1. CASE purchases[p] = NoOrder
    BY <1>1, <2>1 DEF Link, IInv, Books
  <2>2. CASE purchases[p] # NoOrder
    <3>1. purchases' = [q \in Purchases |-> IF q \in call[c].kids /\ purchases[q] # NoOrder
                                             THEN [purchases[q] EXCEPT !.pool = p] ELSE purchases[q]]
      BY <1>1, <2>2 DEF Link
    <3>2. \A q \in Purchases : Kept(purchases'[q], purchases[q])
      BY <1>2, <3>1, PoolSet DEF Kept, Rows
    <3>3. purchases' = [q \in Purchases |-> purchases'[q]]
      BY <3>1
    <3> QED BY <3>2, <3>3, RowsKept
  <2> QED BY <2>1, <2>2
<1>4. Books'
  BY <1>3, RowsSaved, HistoryKept DEF Link
<1> QED BY <1>4, CallsEnd DEF Link, IInv

LEMMA Removes == ASSUME IInv, NEW c \in Callers, Remove(c) PROVE IInv'
<1>1. PICK p \in Purchases :
        /\ purchases[p] # NoOrder
        /\ Begins(c, "remove", [Loading(Idle, "unlink", p) EXCEPT !.kids = Children(purchases, p)])
  BY DEF Remove
<1>2. "unlink" \in Places /\ Idle \in Job
  BY IdleTyped DEF Places
<1>3. PICK base \in Job :
         /\ base = Loading(Idle, "unlink", p)
         /\ base.kind = Idle.kind /\ base.at = "unlink" /\ base.tx = Idle.tx /\ base.order = p
         /\ base.todo = Idle.todo /\ base.kids = Idle.kids /\ base.sale = Idle.sale
         /\ base.old = Idle.old /\ BackedBy(base.copies, given)
         /\ \A q \in Purchases : q = p \/ q \in Children(purchases, p) => base.copies[q] = purchases[q]
  BY <1>2, LoadingGood
<1>4. PICK K : K = Children(purchases, p)
  OBVIOUS
<1>5. K \in SUBSET Purchases /\ \A k \in K : base.copies[k] # NoOrder
  BY <1>3, <1>4 DEF Children
<1>6. PICK job : job = [base EXCEPT !.kids = K]
  OBVIOUS
<1>7. job \in Job /\ job.at = "unlink" /\ job.order = p /\ job.copies = base.copies /\ job.kids = K
  BY <1>3, <1>5, <1>6 DEF Job
<1>8. Needs(job) /\ BackedBy(job.copies, given)
  BY <1>3, <1>5, <1>7 DEF Needs
<1>9. Calls' /\ calls' \in 0..MaxCalls /\ alone' \subseteq Callers
  BY <1>1, <1>3, <1>4, <1>6, <1>7, <1>8, Starts DEF Remove
<1>10. Books'
  BY <1>9, BooksKept DEF Remove, ledger, IInv, Books
<1> QED BY <1>9, <1>10 DEF IInv

LEMMA Unlinks == ASSUME IInv, NEW c \in Callers, Unlink(c) PROVE IInv'
<1>1. PICK k \in call[c].kids :
        /\ purchases' = [purchases EXCEPT ![k] = [call[c].copies[k] EXCEPT !.pool = NoOrder]]
        /\ Goes(c, [call[c] EXCEPT !.kids = @ \ {k}])
  BY DEF Unlink
<1>2. call[c] \in Job /\ Needs(call[c]) /\ call[c].at = "unlink" /\ BackedBy(call[c].copies, given)
  BY CopiesGood DEF Unlink, At
<1>3. k \in Purchases /\ call[c].copies[k] # NoOrder
  BY <1>2 DEF Job, Needs
<1>4. PICK row : row = call[c].copies[k]
  OBVIOUS
<1>5. row \in Purchase /\ row.paid <= given[k]
  BY <1>3, <1>4, CopiesGood
<1>6. PICK new : new = [row EXCEPT !.pool = NoOrder]
  OBVIOUS
<1>7. new \in Purchase /\ new.paid <= given[k]
  BY <1>5, <1>6 DEF Purchase
<1>8. purchases' = [purchases EXCEPT ![k] = new] /\ purchases \in Rows
  BY <1>1, <1>4, <1>6 DEF IInv, Books
<1>9. purchases' \in Rows /\ BackedBy(purchases', given)
  BY <1>3, <1>7, <1>8 DEF Rows, BackedBy, IInv, Books
<1>10. PICK job : job = [call[c] EXCEPT !.kids = @ \ {k}]
  OBVIOUS
<1>11. /\ job \in Job /\ job.at = "unlink" /\ job.order = call[c].order
       /\ job.copies = call[c].copies /\ job.kids = call[c].kids \ {k}
  BY <1>2, <1>10 DEF Job
<1>12. Needs(job) /\ BackedBy(job.copies, given)
  BY <1>2, <1>11 DEF Needs
<1>13. Calls'
  BY <1>1, <1>10, <1>11, <1>12, CallsGo DEF Unlink
<1>14. Books'
  BY <1>9, RowsSaved, HistoryKept DEF Unlink
<1> QED BY <1>13, <1>14 DEF IInv

LEMMA DeletesPurchase ==
  ASSUME IInv, NEW c \in Callers, DeletePurchase(c) \/ DeletePools(c) PROVE IInv'
<1>1. purchases \in Rows /\ BackedBy(purchases, given)
  BY DEF IInv, Books
<1>2. purchases' = [q \in Purchases |-> purchases'[q]]
      /\ \A q \in Purchases : purchases'[q] = purchases[q] \/ purchases'[q] = NoOrder
  BY <1>1 DEF DeletePurchase, DeletePools, Rows
<1>3. purchases' \in Rows /\ BackedBy(purchases', given)
  BY <1>1, <1>2 DEF Rows, BackedBy
<1>4. Books'
  BY <1>3, RowsSaved, HistoryKept DEF DeletePurchase, DeletePools
<1> QED BY <1>4, CallsEnd DEF DeletePurchase, DeletePools, IInv

LEMMA UnlinkedGood ==
  ASSUME IInv, NEW K, purchases' = Unlinked(K) PROVE purchases' \in Rows /\ BackedBy(purchases', given)
<1>1. purchases \in Rows
  BY DEF IInv, Books
<1>2. purchases' = [q \in Purchases |-> IF q \notin K \/ purchases[q] = NoOrder \/ purchases[q].pooled
                                        THEN purchases[q]
                                        ELSE [purchases[q] EXCEPT !.pool = NoOrder]]
  BY DEF Unlinked
<1>3. \A q \in Purchases : Kept(purchases'[q], purchases[q])
  BY <1>1, <1>2, PoolSet DEF Kept, Rows
<1> QED BY <1>2, <1>3, RowsKept

LEMMA Clears == ASSUME IInv, NEW c \in Callers, Clear(c) PROVE IInv'
<1>1. purchases' \in Rows /\ BackedBy(purchases', given)
  BY UnlinkedGood DEF Clear
<1>2. PICK idle \in Job : idle = Idle
  BY IdleTyped
<1>3. PICK job : job = [idle EXCEPT !.at = "outsourced"]
  OBVIOUS
<1>4. job \in Job /\ job.at = "outsourced" /\ job.copies = Idle.copies
  BY <1>2, <1>3 DEF Job, Places
<1>5. Needs(job) /\ BackedBy(job.copies, given)
  BY <1>4, IdleBacked DEF Needs
<1>6. Calls' /\ calls' \in 0..MaxCalls /\ alone' \subseteq Callers
  BY <1>2, <1>3, <1>4, <1>5, Starts DEF Clear
<1>7. Books'
  BY <1>1, <1>6, RowsSaved DEF Clear
<1> QED BY <1>6, <1>7 DEF IInv

LEMMA ClearsOutsourced == ASSUME IInv, NEW c \in Callers, ClearOutsourced(c) PROVE IInv'
<1>1. purchases' \in Rows /\ BackedBy(purchases', given)
  BY UnlinkedGood DEF ClearOutsourced
<1>2. call[c] \in Job /\ Needs(call[c]) /\ BackedBy(call[c].copies, given)
  BY CopiesGood
<1>3. PICK job : job = [call[c] EXCEPT !.at = "clear"]
  OBVIOUS
<1>4. job \in Job /\ job.at = "clear" /\ job.copies = call[c].copies
  BY <1>2, <1>3 DEF Job, Places
<1>5. Needs(job) /\ BackedBy(job.copies, given)
  BY <1>2, <1>4 DEF Needs
<1>6. Calls'
  BY <1>3, <1>4, <1>5, CallsGo DEF ClearOutsourced
<1>7. Books'
  BY <1>1, RowsSaved, HistoryKept DEF ClearOutsourced
<1> QED BY <1>6, <1>7 DEF IInv

-----------------------------------------------------------------------------
(* Sales orders *)

LEMMA DueTyped == ASSUME NEW income, NEW total PROVE Due(income, total) \in Statuses
BY DEF Due, Statuses

LEMMA LoadsSale == ASSUME IInv, NEW c \in Callers, LoadSale(c) PROVE IInv'
<1>1. PICK o, sale : o = call[c].order /\ sale = sales[call[c].order]
  OBVIOUS
<1>2. call[c] \in Job /\ Needs(call[c]) /\ BackedBy(call[c].copies, given) /\ o \in Sales
  BY <1>1, CopiesGood DEF LoadSale, At, Needs
<1>3. sale \in Sale
  BY <1>1, <1>2 DEF IInv, Books
<1>4. PICK job : job = [call[c] EXCEPT !.at = "income", !.sale = sale]
  OBVIOUS
<1>5. /\ job \in Job /\ job.at = "income" /\ job.order = o /\ job.sale = sale
      /\ job.copies = call[c].copies
  BY <1>1, <1>2, <1>3, <1>4 DEF Job, Places
<1>6. Needs(job) /\ BackedBy(job.copies, given)
  BY <1>2, <1>3, <1>5 DEF Needs
<1>7. Calls'
  BY <1>1, <1>4, <1>5, <1>6, CallsGo DEF LoadSale
<1>8. Books'
  BY BooksKept DEF LoadSale, ledger, history, IInv, Books
<1> QED BY <1>7, <1>8 DEF IInv

LEMMA SumsPayments == ASSUME IInv, NEW c \in Callers, SumPayments(c) PROVE IInv'
<1>1. PICK o, sale : o = call[c].order /\ sale = call[c].sale
  OBVIOUS
<1>2. /\ call[c] \in Job /\ Needs(call[c]) /\ BackedBy(call[c].copies, given) /\ o \in Sales
      /\ sale # NoOrder
  BY <1>1, CopiesGood DEF SumPayments, At, Needs
<1>3. PICK due \in Statuses : due = Due(IncomeOf(o), sale.total)
  BY DueTyped
<1>4. PICK job : job = [call[c] EXCEPT !.at = "status", !.due = due]
  OBVIOUS
<1>5. /\ job \in Job /\ job.at = "status" /\ job.order = o /\ job.sale = sale
      /\ job.copies = call[c].copies
  BY <1>1, <1>2, <1>4 DEF Job, Places
<1>6. Needs(job) /\ BackedBy(job.copies, given)
  BY <1>2, <1>5 DEF Needs
<1>7. Goes(c, job)
  BY <1>1, <1>3, <1>4 DEF SumPayments
<1>8. Calls'
  BY <1>5, <1>6, <1>7, CallsGo DEF SumPayments
<1>9. Books'
  BY BooksKept DEF SumPayments, ledger, history, IInv, Books
<1> QED BY <1>8, <1>9 DEF IInv

LEMMA StatusSaved == ASSUME IInv, NEW c \in Callers, SaveStatus(c) \/ SaveSale(c) PROVE IInv'
<1>1. PICK o, sale, due : o = call[c].order /\ sale = call[c].sale /\ due = call[c].due
  OBVIOUS
<1>2. o \in Sales /\ sale \in Sale /\ due \in Statuses
  <2>1. call[c] \in Job /\ Needs(call[c]) /\ call[c].at \in {"status", "sale"}
    BY CopiesGood DEF SaveStatus, SaveSale, At
  <2> QED BY <1>1, <2>1 DEF Job, Needs
<1>3. PICK new : new = [sale EXCEPT !.status = due]
  OBVIOUS
<1>4. new \in Sale
  BY <1>2, <1>3 DEF Sale, Statuses
<1>5. sales' = sales \/ sales' = [sales EXCEPT ![o] = new] \/ sales' = [sales EXCEPT ![o] = sale]
  BY <1>1, <1>3 DEF SaveStatus, SaveSale
<1>6. sales' \in [Sales -> Sale]
  BY <1>2, <1>4, <1>5 DEF IInv, Books
<1>7. Books'
  BY <1>6, BooksKept DEF SaveStatus, SaveSale, ledger, history, IInv, Books
<1> QED BY <1>7, CallsEnd DEF SaveStatus, SaveSale, IInv

LEMMA Prices == ASSUME IInv, NEW c \in Callers, Price(c) PROVE IInv'
<1>1. PICK o \in Sales, n \in Amounts :
        Begins(c, "price", [Idle EXCEPT !.at = "sale", !.order = o,
                                        !.sale = [sales[o] EXCEPT !.total = n]])
  BY DEF Price
<1>2. sales[o] \in Sale /\ n \in Nat
  BY AmountsAssumption DEF IInv, Books
<1>3. PICK sale : sale = [sales[o] EXCEPT !.total = n]
  OBVIOUS
<1>4. sale \in Sale
  BY <1>2, <1>3 DEF Sale
<1>5. PICK idle \in Job : idle = Idle
  BY IdleTyped
<1>6. PICK job : job = [idle EXCEPT !.at = "sale", !.order = o, !.sale = sale]
  OBVIOUS
<1>7. /\ job \in Job /\ job.at = "sale" /\ job.order = o /\ job.sale = sale
      /\ job.copies = Idle.copies
  BY <1>4, <1>5, <1>6 DEF Job, Places
<1>8. Needs(job) /\ BackedBy(job.copies, given)
  BY <1>4, <1>7, IdleBacked DEF Needs
<1>9. Calls' /\ calls' \in 0..MaxCalls /\ alone' \subseteq Callers
  BY <1>1, <1>3, <1>5, <1>6, <1>7, <1>8, Starts DEF Price
<1>10. Books'
  BY <1>9, BooksKept DEF Price, ledger, IInv, Books
<1> QED BY <1>9, <1>10 DEF IInv

-----------------------------------------------------------------------------
LEMMA StepKeeps == IInv /\ [Next]_vars => IInv'
<1> SUFFICES ASSUME IInv, [Next]_vars PROVE IInv'
  OBVIOUS
<1>1. ASSUME NEW c \in Callers, FinanceStep(c) PROVE IInv'
  BY <1>1, Pays, Receives, Corrects, Rereads, Approves, ApprovalSaved, Deletes, Erases, EndsPaid,
     LoadsSale, SumsPayments, StatusSaved DEF FinanceStep
<1>2. ASSUME NEW c \in Callers, PurchaseStep(c) PROVE IInv'
  BY <1>2, LoadsPurchase, AddsPayment, AddsShare, Edits, PriceSaved, LoadsPool, PoolSaved, Pools,
     Links, Removes, Unlinks, DeletesPurchase, Clears, ClearsOutsourced DEF PurchaseStep
<1>3. ASSUME NEW c \in Callers, SaleStep(c) PROVE IInv'
  BY <1>3, Prices, StatusSaved DEF SaleStep
<1>4. CASE UNCHANGED vars
  BY <1>4 DEF vars, ledger, IInv, Books, Calls
<1> QED BY <1>1, <1>2, <1>3, <1>4 DEF Next

LEMMA InvHolds == Spec => []IInv
<1>1. Init => IInv
  BY StartsGood
<1> QED BY <1>1, StepKeeps, PTL DEF Spec

\* Whatever requests overlap and however stale the rows are that they save, rows and copies keep
\* their types, nothing is paid or owed below zero, and ids stay within the table.
THEOREM PaymentsTyped == Spec => []TypeOK
<1>1. IInv => TypeOK
  BY DEF IInv, Books, Calls, Rows, Job, TypeOK
<1> QED BY <1>1, InvHolds, PTL

\* Whatever stale row is saved last, a purchase order never shows more paid than was ever paid on
\* it, itself or as its share of a pool (updatePayment and updatePaymentById load a row, add to it
\* and save it whole; edits, pools and removals save rows as they were loaded).
THEOREM MoneyIsNotInvented == Spec => []NoMoneyInvented
<1>1. IInv => NoMoneyInvented
  BY DEF IInv, Books, BackedBy, NoMoneyInvented
<1> QED BY <1>1, InvHolds, PTL

-----------------------------------------------------------------------------
(* A request that runs alone *)

Lonely(c) == \A d \in Callers \ {c} : call[d] = Idle

\* What a request that runs alone found is still so when it saves the status.
Informed(c) ==
  /\ call[c].at \in {"income", "status"} =>
       call[c].order \in Sales /\ call[c].sale = sales[call[c].order]
  /\ At(c, "status") => call[c].due = Due(IncomeOf(call[c].order), sales[call[c].order].total)
AloneInv == \A c \in alone : call[c] # Idle => Lonely(c) /\ Informed(c)

\* How a request begins, and how it goes on.
Enters(c) ==
  /\ call[c] = Idle /\ alone' = IF Quiet THEN {c} ELSE {}
  /\ \E job : Goes(c, job) /\ job.at \notin {"income", "status"}
Advances(c) ==
  /\ call[c].at # "idle" /\ alone' = alone
  /\ \E job : /\ Goes(c, job) /\ (job.at = "income" => LoadSale(c))
              /\ (job.at = "status" => SumPayments(c))
  /\ At(c, "status") => SaveStatus(c)

\* The place of a job is what it was last set to.
LEMMA BeginsEnter ==
  ASSUME IInv, NEW c \in Callers, NEW kind, NEW job \in Job, job.at \notin {"income", "status"},
         Begins(c, kind, job)
  PROVE  Enters(c)
<1>1. PICK new \in Job : Goes(c, new) /\ new.at = job.at
  BY Begun
<1> QED BY <1>1 DEF Begins, Enters

LEMMA PayEnters == ASSUME IInv, NEW c \in Callers, Pay(c) PROVE Enters(c)
<1>1. PICK bill \in Bills :
        \E kind : Begins(c, kind, [Idle EXCEPT !.at = "next", !.todo = bill.list])
  BY DEF Pay
<1>2. PICK list \in Seq(Allotment) : list = bill.list
  BY ExpenseTyped
<1>3. PICK idle \in Job : idle = Idle
  BY IdleTyped
<1>4. PICK job : job = [idle EXCEPT !.at = "next", !.todo = list]
  OBVIOUS
<1>5. job \in Job /\ job.at = "next"
  BY <1>2, <1>3, <1>4 DEF Job, Places
<1> QED BY <1>1, <1>2, <1>3, <1>4, <1>5, BeginsEnter

LEMMA ReceiveEnters == ASSUME IInv, NEW c \in Callers, Receive(c) \/ Note(c) PROVE Enters(c)
<1>1. \E row \in Transaction, kind \in {"receive", "note"}, job \in Job :
        /\ NewTx(row) /\ Begins(c, kind, job) /\ job.at \in {"sum", "idle"}
        /\ job.copies = Idle.copies /\ (job.at = "sum" => job.order \in Sales)
  BY Stored
<1> QED BY <1>1, BeginsEnter

LEMMA CorrectEnters == ASSUME IInv, NEW c \in Callers, Correct(c) PROVE Enters(c)
<1>1. PICK i \in TxIds : \E kind : Begins(c, kind, [Idle EXCEPT !.at = "reread", !.tx = i])
  BY DEF Correct
<1>2. i \in 0..MaxTx
  OBVIOUS
<1>3. PICK idle \in Job : idle = Idle
  BY IdleTyped
<1>4. PICK job : job = [idle EXCEPT !.at = "reread", !.tx = i]
  OBVIOUS
<1>5. job \in Job /\ job.at = "reread"
  BY <1>2, <1>3, <1>4 DEF Job, Places
<1> QED BY <1>1, <1>3, <1>4, <1>5, BeginsEnter

LEMMA ApproveEnters == ASSUME IInv, NEW c \in Callers, Approve(c) PROVE Enters(c)
<1>1. PICK i \in TxIds : /\ txs[i] # NoTx
                         /\ Begins(c, "approve", [Idle EXCEPT !.at = "approve", !.tx = i, !.old = txs[i]])
  BY DEF Approve
<1>2. i \in 0..MaxTx /\ txs[i] \in Transaction
  BY <1>1 DEF IInv, Books
<1>3. PICK idle \in Job : idle = Idle
  BY IdleTyped
<1>4. PICK job : job = [idle EXCEPT !.at = "approve", !.tx = i, !.old = txs[i]]
  OBVIOUS
<1>5. job \in Job /\ job.at = "approve"
  BY <1>2, <1>3, <1>4 DEF Job, Places
<1> QED BY <1>1, <1>3, <1>4, <1>5, BeginsEnter

LEMMA DeleteEnters == ASSUME IInv, NEW c \in Callers, DeleteTransaction(c) PROVE Enters(c)
<1>1. PICK i \in TxIds :
        /\ txs[i] # NoTx
        /\ Begins(c, "delete", [Idle EXCEPT !.at = "next", !.tx = i, !.old = txs[i], !.sign = -1,
                                            !.todo = Taken(txs[i])])
  BY DEF DeleteTransaction
<1>2. i \in 0..MaxTx /\ txs[i] \in Transaction
  BY <1>1 DEF IInv, Books
<1>3. PICK list \in Seq(Allotment) : list = Taken(txs[i])
  BY <1>2, TakenTyped
<1>4. PICK idle \in Job : idle = Idle
  BY IdleTyped
<1>5. PICK job : job = [idle EXCEPT !.at = "next", !.tx = i, !.old = txs[i], !.sign = -1,
                                    !.todo = list]
  OBVIOUS
<1>6. job \in Job /\ job.at = "next"
  BY <1>2, <1>3, <1>4, <1>5 DEF Job, Places
<1> QED BY <1>1, <1>3, <1>4, <1>5, <1>6, BeginsEnter

LEMMA PoolEnters == ASSUME IInv, NEW c \in Callers, Pool(c) PROVE Enters(c)
<1>1. PICK p \in Purchases, K \in SUBSET Purchases :
        Begins(c, "pool", [Idle EXCEPT !.at = "link", !.order = p, !.kids = K])
  BY DEF Pool
<1>2. PICK idle \in Job : idle = Idle
  BY IdleTyped
<1>3. PICK job : job = [idle EXCEPT !.at = "link", !.order = p, !.kids = K]
  OBVIOUS
<1>4. job \in Job /\ job.at = "link"
  BY <1>2, <1>3 DEF Job, Places
<1> QED BY <1>1, <1>2, <1>3, <1>4, BeginsEnter

LEMMA ClearEnters == ASSUME IInv, NEW c \in Callers, Clear(c) PROVE Enters(c)
<1>1. Begins(c, "clear", [Idle EXCEPT !.at = "outsourced"])
  BY DEF Clear
<1>2. PICK idle \in Job : idle = Idle
  BY IdleTyped
<1>3. PICK job : job = [idle EXCEPT !.at = "outsourced"]
  OBVIOUS
<1>4. job \in Job /\ job.at = "outsourced"
  BY <1>2, <1>3 DEF Job, Places
<1> QED BY <1>1, <1>2, <1>3, <1>4, BeginsEnter

LEMMA PriceEnters == ASSUME IInv, NEW c \in Callers, Price(c) PROVE Enters(c)
<1>1. PICK o \in Sales, n \in Amounts :
        Begins(c, "price", [Idle EXCEPT !.at = "sale", !.order = o,
                                        !.sale = [sales[o] EXCEPT !.total = n]])
  BY DEF Price
<1>2. sales[o] \in Sale /\ n \in Nat
  BY AmountsAssumption DEF IInv, Books
<1>3. PICK sale : sale = [sales[o] EXCEPT !.total = n]
  OBVIOUS
<1>4. sale \in Sale
  BY <1>2, <1>3 DEF Sale
<1>5. PICK idle \in Job : idle = Idle
  BY IdleTyped
<1>6. PICK job : job = [idle EXCEPT !.at = "sale", !.order = o, !.sale = sale]
  OBVIOUS
<1>7. job \in Job /\ job.at = "sale"
  BY <1>4, <1>5, <1>6 DEF Job, Places
<1> QED BY <1>1, <1>3, <1>5, <1>6, <1>7, BeginsEnter

LEMMA EditEnters == ASSUME IInv, NEW c \in Callers, Edit(c) PROVE Enters(c)
<1>1. PICK p \in Purchases, n \in Nat : \E kind : Begins(c, kind, [Loading(Idle, "price", p) EXCEPT !.amount = n])
  BY AmountsAssumption DEF Edit
<1>2. "price" \in Places /\ Idle \in Job /\ p \in Purchases
  BY <1>1, IdleTyped DEF Places
<1>3. PICK base \in Job : base = Loading(Idle, "price", p) /\ base.at = "price"
  <2>1. PICK idle \in Job, at \in Places : idle = Idle /\ at = "price"
    BY <1>2
  <2>2. \E new \in Job : new = Loading(idle, at, p) /\ new.at = at
    BY <1>2, LoadingGood
  <2> QED BY <2>1, <2>2
<1>4. PICK job : job = [base EXCEPT !.amount = n]
  OBVIOUS
<1>5. job \in Job /\ job.at = "price"
  BY <1>3, <1>4 DEF Job
<1> QED BY <1>1, <1>3, <1>4, <1>5, BeginsEnter

LEMMA RemoveEnters == ASSUME IInv, NEW c \in Callers, Remove(c) PROVE Enters(c)
<1>1. PICK p \in Purchases, n \in SUBSET Purchases : \E kind : Begins(c, kind, [Loading(Idle, "unlink", p) EXCEPT !.kids = n])
  BY DEF Remove, Children
<1>2. "unlink" \in Places /\ Idle \in Job /\ p \in Purchases
  BY <1>1, IdleTyped DEF Places
<1>3. PICK base \in Job : base = Loading(Idle, "unlink", p) /\ base.at = "unlink"
  <2>1. PICK idle \in Job, at \in Places : idle = Idle /\ at = "unlink"
    BY <1>2
  <2>2. \E new \in Job : new = Loading(idle, at, p) /\ new.at = at
    BY <1>2, LoadingGood
  <2> QED BY <2>1, <2>2
<1>4. PICK job : job = [base EXCEPT !.kids = n]
  OBVIOUS
<1>5. job \in Job /\ job.at = "unlink"
  BY <1>3, <1>4 DEF Job
<1> QED BY <1>1, <1>3, <1>4, <1>5, BeginsEnter

LEMMA EndsAdvance ==
  ASSUME NEW c \in Callers, Ends(c), UNCHANGED history, call[c].at # "idle",
         At(c, "status") => SaveStatus(c)
  PROVE  Advances(c)
BY IdleTyped DEF Ends, Advances, history

\* The place of a request that goes on is what it is set to.
LEMMA GoesAdvance ==
  ASSUME IInv, NEW c \in Callers, NEW job, Goes(c, job), job.at \notin {"income", "status"},
         UNCHANGED history, call[c].at \notin {"idle", "status"}
  PROVE  Advances(c)
BY DEF Advances, history, At

LEMMA TransactionsAdvance ==
  ASSUME IInv, NEW c \in Callers,
         Reread(c) \/ SaveApproved(c) \/ Erase(c) \/ Paid(c) \/ SaveStatus(c) \/ LoadSale(c)
         \/ SumPayments(c)
  PROVE  Advances(c)
<1>1. CASE SaveApproved(c) \/ Paid(c) \/ SaveStatus(c)
  BY <1>1, EndsAdvance DEF SaveApproved, Paid, SaveStatus, At
<1>2. CASE Reread(c) \/ Erase(c)
  <2>1. call[c].at \in {"reread", "next"} /\ UNCHANGED history
    BY <1>2 DEF Reread, Erase, At
  <2>2. PICK kind, o : Ends(c) \/ Goes(c, [Idle EXCEPT !.kind = kind, !.at = "sum", !.order = o])
    BY <1>2 DEF Reread, Erase
  <2>3. PICK idle \in Job : idle = Idle
    BY IdleTyped
  <2>4. PICK job : job = [idle EXCEPT !.kind = kind, !.at = "sum", !.order = o]
    OBVIOUS
  <2>5. job.at = "sum"
    BY <2>4 DEF Job
  <2> QED BY <2>1, <2>2, <2>3, <2>4, <2>5, EndsAdvance, GoesAdvance DEF At
<1>3. CASE LoadSale(c) \/ SumPayments(c)
  <2>1. call[c] \in Job /\ call[c].at \in {"sum", "income"} /\ alone' = alone
    BY <1>3, CopiesGood DEF LoadSale, SumPayments, At, history
  <2>2. CASE LoadSale(c)
    <3>1. PICK job : job = [call[c] EXCEPT !.at = "income", !.sale = sales[call[c].order]]
      OBVIOUS
    <3>2. Goes(c, job)
      BY <2>2, <3>1 DEF LoadSale
    <3>3. job.at = "income"
      BY <2>1, <3>1 DEF Job
    <3>4. ~At(c, "status")
      BY <2>1 DEF At
    <3> QED BY <2>1, <2>2, <3>2, <3>3, <3>4 DEF Advances
  <2>3. CASE SumPayments(c)
    <3>1. PICK due : due = Due(IncomeOf(call[c].order), call[c].sale.total)
      OBVIOUS
    <3>2. PICK job : job = [call[c] EXCEPT !.at = "status", !.due = due]
      OBVIOUS
    <3>3. Goes(c, job)
      BY <2>3, <3>1, <3>2 DEF SumPayments
    <3>4. job.at = "status"
      BY <2>1, <3>2 DEF Job
    <3>5. ~At(c, "status")
      BY <2>1 DEF At
    <3> QED BY <2>1, <2>3, <3>3, <3>4, <3>5 DEF Advances
  <2> QED BY <1>3, <2>2, <2>3
<1> QED BY <1>1, <1>2, <1>3

LEMMA PaymentsAdvance ==
  ASSUME IInv, NEW c \in Callers, LoadPurchase(c) \/ AddPayment(c) \/ AddShare(c)
  PROVE  Advances(c)
<1>1. call[c] \in Job /\ call[c].at \in {"next", "add", "share"} /\ UNCHANGED history
  BY CopiesGood DEF LoadPurchase, AddPayment, AddShare, At
<1>2. \/ Ends(c)
      \/ \E list : Goes(c, [call[c] EXCEPT !.todo = list])
      \/ \E p \in Purchases : Goes(c, Loading(call[c], "add", p))
      \/ \E kids : Goes(c, Treated(c, kids))
  <2>1. CASE LoadPurchase(c)
    <3>1. call[c].todo # <<>> /\ call[c].todo \in Seq(Allotment)
      BY <1>1, <2>1 DEF LoadPurchase, Job
    <3>2. Head(call[c].todo) \in Allotment
      BY <3>1
    <3> QED BY <2>1, <3>2 DEF LoadPurchase, Allotment
  <2>2. CASE AddPayment(c) \/ AddShare(c)
    BY <2>2 DEF AddPayment, AddShare
  <2> QED BY <2>1, <2>2
<1>3. CASE Ends(c)
  BY <1>1, <1>3, EndsAdvance DEF At
<1>4. CASE \E list : Goes(c, [call[c] EXCEPT !.todo = list])
  <2>1. PICK list, job : job = [call[c] EXCEPT !.todo = list] /\ Goes(c, job)
    BY <1>4
  <2>2. job.at = call[c].at
    BY <1>1, <2>1 DEF Job
  <2> QED BY <1>1, <2>1, <2>2, GoesAdvance
<1>5. CASE \E p \in Purchases : Goes(c, Loading(call[c], "add", p))
  <2>1. PICK p \in Purchases : Goes(c, Loading(call[c], "add", p))
    BY <1>5
  <2>2. "add" \in Places
    BY DEF Places
  <2>3. PICK job \in Job : job = Loading(call[c], "add", p) /\ job.at = "add"
    BY <1>1, <2>2, LoadingGood
  <2> QED BY <1>1, <2>1, <2>3, GoesAdvance
<1>6. CASE \E kids : Goes(c, Treated(c, kids))
  <2>1. PICK kids, job : job = Treated(c, kids) /\ Goes(c, job)
    BY <1>6
  <2>2. PICK more, less :
           /\ more = [call[c] EXCEPT !.at = "share", !.kids = kids]
           /\ less = [call[c] EXCEPT !.at = "next", !.order = NoOrder, !.todo = Tail(@), !.kids = {},
                                     !.copies = Idle.copies]
    OBVIOUS
  <2>3. more.at = "share" /\ less.at = "next"
    BY <1>1, <2>2 DEF Job
  <2>4. job \in {more, less}
    BY <2>1, <2>2 DEF Treated
  <2> QED BY <1>1, <2>1, <2>3, <2>4, GoesAdvance
<1> QED BY <1>2, <1>3, <1>4, <1>5, <1>6

LEMMA OrdersAdvance ==
  ASSUME IInv, NEW c \in Callers,
         SavePrice(c) \/ LoadPool(c) \/ SavePool(c) \/ Link(c) \/ Unlink(c) \/ DeletePurchase(c)
         \/ ClearOutsourced(c) \/ DeletePools(c) \/ SaveSale(c)
  PROVE  Advances(c)
<1>1. /\ call[c] \in Job /\ Needs(call[c]) /\ UNCHANGED history
      /\ call[c].at \in {"price", "pool", "total", "link", "unlink", "outsourced", "clear", "sale"}
  BY CopiesGood DEF SavePrice, LoadPool, SavePool, Link, Unlink, DeletePurchase, ClearOutsourced,
     DeletePools, SaveSale, At
<1>2. \/ Ends(c)
      \/ \E p : Goes(c, [Idle EXCEPT !.kind = "edit", !.at = "pool", !.order = p])
      \/ call[c].at = "pool" /\ Goes(c, Loading(call[c], "total", call[c].order))
      \/ \E kids : Goes(c, [call[c] EXCEPT !.kids = kids])
      \/ Goes(c, [call[c] EXCEPT !.at = "clear"])
  BY DEF SavePrice, LoadPool, SavePool, Link, Unlink, DeletePurchase, ClearOutsourced, DeletePools,
         SaveSale, At
<1>3. CASE Ends(c)
  BY <1>1, <1>3, EndsAdvance DEF At
<1>4. CASE \E p : Goes(c, [Idle EXCEPT !.kind = "edit", !.at = "pool", !.order = p])
  <2>1. PICK idle \in Job : idle = Idle
    BY IdleTyped
  <2>2. PICK p, job : job = [idle EXCEPT !.kind = "edit", !.at = "pool", !.order = p] /\ Goes(c, job)
    BY <1>4, <2>1
  <2>3. job.at = "pool"
    BY <2>2 DEF Job
  <2> QED BY <1>1, <2>2, <2>3, GoesAdvance
<1>5. CASE call[c].at = "pool" /\ Goes(c, Loading(call[c], "total", call[c].order))
  <2>1. call[c].order \in Purchases /\ "total" \in Places
    BY <1>1, <1>5 DEF Needs, Places
  <2>2. PICK job \in Job : job = Loading(call[c], "total", call[c].order) /\ job.at = "total"
    BY <1>1, <2>1, LoadingGood
  <2> QED BY <1>1, <1>5, <2>2, GoesAdvance
<1>6. CASE \E kids : Goes(c, [call[c] EXCEPT !.kids = kids])
  <2>1. PICK kids, job : job = [call[c] EXCEPT !.kids = kids] /\ Goes(c, job)
    BY <1>6
  <2>2. job.at = call[c].at
    BY <1>1, <2>1 DEF Job
  <2> QED BY <1>1, <2>1, <2>2, GoesAdvance
<1>7. CASE Goes(c, [call[c] EXCEPT !.at = "clear"])
  <2>1. PICK job : job = [call[c] EXCEPT !.at = "clear"]
    OBVIOUS
  <2>2. job.at = "clear"
    BY <1>1, <2>1 DEF Job
  <2> QED BY <1>1, <1>7, <2>1, <2>2, GoesAdvance
<1> QED BY <1>2, <1>3, <1>4, <1>5, <1>6, <1>7

\* Every step begins a request or lets one go on, and only the saving of a status ends there.
LEMMA StepShape ==
  ASSUME IInv, NEW c \in Callers, FinanceStep(c) \/ PurchaseStep(c) \/ SaleStep(c)
  PROVE  Enters(c) \/ Advances(c)
<1>1. CASE FinanceStep(c)
  BY <1>1, PayEnters, ReceiveEnters, CorrectEnters, ApproveEnters, DeleteEnters,
     TransactionsAdvance DEF FinanceStep
<1>2. CASE PurchaseStep(c)
  BY <1>2, EditEnters, PoolEnters, RemoveEnters, ClearEnters, PaymentsAdvance, OrdersAdvance
     DEF PurchaseStep
<1>3. CASE SaleStep(c)
  BY <1>3, PriceEnters, OrdersAdvance DEF SaleStep
<1> QED BY <1>1, <1>2, <1>3

LEMMA AloneStays ==
  ASSUME IInv, AloneInv, NEW c \in Callers, FinanceStep(c) \/ PurchaseStep(c) \/ SaleStep(c)
  PROVE  AloneInv'
<1>1. call \in [Callers -> Job] /\ alone \subseteq Callers
  BY DEF IInv, Calls, Books
<1>2. CASE Enters(c)
  <2>1. PICK job : Goes(c, job) /\ job.at \notin {"income", "status"}
    BY <1>2 DEF Enters
  <2>2. call'[c].at \notin {"income", "status"} /\ \A d \in Callers \ {c} : call'[d] = call[d]
    BY <1>1, <2>1 DEF Goes
  <2>3. alone' = IF Quiet THEN {c} ELSE {}
    BY <1>2 DEF Enters
  <2> QED BY <2>2, <2>3 DEF AloneInv, Lonely, Informed, At, Quiet
<1>3. CASE Advances(c)
  <2>1. PICK job : /\ Goes(c, job) /\ (job.at = "income" => LoadSale(c))
                   /\ (job.at = "status" => SumPayments(c))
    BY <1>3 DEF Advances
  <2>2. call'[c] = job /\ \A d \in Callers \ {c} : call'[d] = call[d]
    BY <1>1, <2>1 DEF Goes
  <2>3. alone' = alone /\ call[c] # Idle
    BY <1>3, IdleTyped DEF Advances
  <2>4. \A d \in alone : call[d] # Idle => d = c
    BY <1>1, <2>3 DEF AloneInv, Lonely
  <2>5. c \in alone => Lonely(c)'
    BY <2>2, <2>3 DEF AloneInv, Lonely
  <2>6. ASSUME c \in alone PROVE Informed(c)'
    <3>0. Informed(c)
      BY <2>3, <2>6 DEF AloneInv
    <3>1. CASE call'[c].at = "income"
      <4>1. LoadSale(c)
        BY <2>1, <2>2, <3>1
      <4>2. PICK o, sale : o = call[c].order /\ sale = sales[o]
        OBVIOUS
      <4>3. call'[c] = [call[c] EXCEPT !.at = "income", !.sale = sale]
        BY <1>1, <4>1, <4>2 DEF LoadSale, Goes
      <4>4. call'[c].order = o /\ call'[c].sale = sale
        BY <1>1, <4>2, <4>3 DEF Job
      <4>5. o \in Sales /\ UNCHANGED sales
        BY <4>1, <4>2, CopiesGood DEF LoadSale, At, Needs
      <4> QED BY <3>1, <4>2, <4>4, <4>5 DEF Informed, At
    <3>2. CASE call'[c].at = "status"
      <4>1. SumPayments(c)
        BY <2>1, <2>2, <3>2
      <4>2. PICK o, sale, due : /\ o = call[c].order /\ sale = call[c].sale
                                /\ due = Due(IncomeOf(o), sale.total)
        OBVIOUS
      <4>3. call'[c] = [call[c] EXCEPT !.at = "status", !.due = due]
        BY <1>1, <4>1, <4>2 DEF SumPayments, Goes
      <4>4. call'[c].order = o /\ call'[c].sale = sale /\ call'[c].due = due
        BY <1>1, <4>2, <4>3 DEF Job
      <4>5. UNCHANGED <<sales, txs>> /\ call[c].at = "income"
        BY <4>1 DEF SumPayments, ledger, At
      <4>6. \A x : IncomeOf(x)' = IncomeOf(x)
        BY <4>5 DEF IncomeOf, PaymentsOf
      <4>7. o \in Sales /\ sale = sales[o]
        BY <3>0, <4>2, <4>5 DEF Informed
      <4> QED BY <4>2, <4>4, <4>5, <4>6, <4>7 DEF Informed, At
    <3> QED BY <3>1, <3>2 DEF Informed, At
  <2> QED BY <1>1, <2>2, <2>3, <2>4, <2>5, <2>6 DEF AloneInv
<1> QED BY <1>2, <1>3, StepShape

LEMMA AloneHolds == Spec => []AloneInv
<1>1. Init => AloneInv
  BY DEF Init, AloneInv
<1>2. IInv /\ AloneInv /\ [Next]_vars => AloneInv'
  <2> SUFFICES ASSUME IInv, AloneInv, [Next]_vars PROVE AloneInv'
    OBVIOUS
  <2>1. CASE UNCHANGED vars
    BY <2>1 DEF vars, AloneInv, Lonely, Informed, At, IncomeOf, PaymentsOf
  <2> QED BY <2>1, AloneStays DEF Next
<1> QED BY <1>1, <1>2, InvHolds, PTL DEF Spec

LEMMA IncomeTyped == ASSUME IInv, NEW o PROVE IncomeOf(o) \in Nat
<1> DEFINE f == [i \in PaymentsOf(o) |-> txs[i].amount]
<1>1. IsFiniteSet(PaymentsOf(o))
  <2>1. IsFiniteSet(1..MaxTx)
    BY FS_Interval
  <2>2. PaymentsOf(o) \subseteq 1..MaxTx
    BY DEF PaymentsOf
  <2> QED BY <2>1, <2>2, FS_Subset
<1>2. \A i \in PaymentsOf(o) : f[i] \in Nat
  BY DEF PaymentsOf, IInv, Books, Transaction
<1> HIDE DEF f
<1>3. Sum(f, PaymentsOf(o)) \in Nat
  BY <1>1, <1>2, SumNat
<1> QED BY <1>3 DEF IncomeOf, f

\* The status that an income and a total call for.
LEMMA DueIsRight ==
  ASSUME NEW income \in Nat, NEW total \in Nat
  PROVE  /\ Due(income, total) = "PAID" <=> income >= total /\ total > 0
         /\ Due(income, total) = "UNPAID" => income = 0
BY DEF Due

\* A request that looks at the payments of a sales order (syncSOPaymentStatus), and runs without
\* another beside it, leaves the status that the completed income on the order calls for.
THEOREM LonelySyncIsRight == Spec => SyncIsRight
<1>1. ASSUME IInv, AloneInv, [Next]_vars, NEW c \in alone' PROVE StatusFits(c)
  <2> SUFFICES ASSUME At(c, "status"), call'[c] = Idle PROVE StatusFits(c)
    BY DEF StatusFits
  <2>1. call[c] # Idle
    BY IdleTyped DEF At
  <2>2. PICK d \in Callers : FinanceStep(d) \/ PurchaseStep(d) \/ SaleStep(d)
    <3>1. ~UNCHANGED vars
      BY <2>1 DEF vars
    <3> QED BY <1>1, <3>1 DEF Next
  <2>3. Enters(d) \/ Advances(d)
    BY <1>1, <2>2, StepShape
  <2>4. ~Enters(d)
    BY <1>1, <2>1 DEF Enters
  <2>5. alone' = alone /\ call[d] # Idle
    BY <2>3, <2>4, IdleTyped DEF Advances
  <2>6. Lonely(c) /\ Informed(c) /\ c \in Callers
    BY <1>1, <2>1, <2>5 DEF AloneInv, IInv, Books
  <2>7. d = c
    BY <2>5, <2>6 DEF Lonely
  <2>8. SaveStatus(c)
    BY <2>3, <2>4, <2>7 DEF Advances
  <2>9. PICK o, due : o = call[c].order /\ due = call[c].due
    OBVIOUS
  <2>10. o \in Sales /\ sales \in [Sales -> Sale]
    BY <1>1, <2>6, <2>9, CopiesGood DEF At, Needs, IInv, Books
  <2>11. call[c].sale = sales[o] /\ due = Due(IncomeOf(o), sales[o].total)
    BY <2>6, <2>9 DEF Informed, At
  <2>12. sales'[o].status = due
    <3>1. sales[o] \in Sale
      BY <2>10
    <3> QED BY <2>8, <2>9, <2>10, <2>11, <3>1 DEF SaveStatus, Sale
  <2>13. IncomeOf(o) \in Nat /\ sales[o].total \in Nat
    BY <1>1, <2>10, IncomeTyped DEF Sale
  <2>14. /\ sales'[o].status = "PAID" <=> IncomeOf(o) >= sales[o].total /\ sales[o].total > 0
         /\ sales'[o].status = "UNPAID" => IncomeOf(o) = 0
    BY <2>11, <2>12, <2>13, DueIsRight
  <2> QED BY <2>9, <2>14 DEF StatusFits, IncomeOf, PaymentsOf, Completed
<1>2. IInv /\ AloneInv /\ [Next]_vars => [\A c \in alone' : StatusFits(c)]_vars
  BY <1>1
<1> QED BY <1>2, InvHolds, AloneHolds, PTL DEF Spec, SyncIsRight

-----------------------------------------------------------------------------
(* What is paid is what is allocated *)

\* The orders that are pooled are not pools, and their pool is one.
PoolsAreSound ==
  \A p \in Purchases : Purchases0[p] # NoOrder /\ Purchases0[p].pool # NoOrder =>
    LET pool == Purchases0[p].pool
    IN ~Purchases0[p].pooled /\ Purchases0[pool] # NoOrder /\ Purchases0[pool].pooled

\* What an allotment, a list of them and the expenses of a table allocate to an order, with the
\* pools and prices of the beginning.
Allotted(p, allotment) ==
  IF allotment.order = p THEN allotment.amount
  ELSE IF allotment.order = Purchases0[p].pool
       THEN Share(allotment.amount, Purchases0, allotment.order, p)
  ELSE 0
Listed(list, p) == Sum([i \in DOMAIN list |-> Allotted(p, list[i])], DOMAIN list)
Entry(table, i, p) == Listed(Taken(table[i]), p)
Recorded(table, p) == Sum([i \in TxIds |-> Entry(table, i, p)], TxIds)

\* A row with the total and the pool it had at first.
Like(row, first) == row.total = first.total /\ row.pool = first.pool /\ row.pooled = first.pooled
LikeFirst(rows) ==
  \A p \in Purchases : /\ rows[p] = NoOrder <=> Purchases0[p] = NoOrder
                       /\ rows[p] # NoOrder => Like(rows[p], Purchases0[p])
Pooled0(p) == Children(Purchases0, p)

\* The request is paying, or taking back, the allotments of a list.
Paying(job) == job.at \in {"next", "add", "share"}
Rest(job, p) ==
  IF job.at = "share"
  THEN Listed(Tail(job.todo), p) + (IF p \in job.kids THEN Allotted(p, Head(job.todo)) ELSE 0)
  ELSE Listed(job.todo, p)
\* What should be paid by now, and how much more it may be.
Owed(job, table, p) ==
  IF job.kind = "delete" THEN Recorded([table EXCEPT ![job.tx] = NoTx], p) + Rest(job, p)
  ELSE Recorded(table, p) - Rest(job, p)
Slack(job, back, p) ==
  IF job.kind = "delete" /\ job.at = "share" /\ p \in job.kids THEN back - 1 ELSE back

\* The copies that a request holds of an order and the orders it pools.
Copied(job, rows) ==
  /\ job.order = Head(job.todo).order
  /\ \A q \in Purchases :
       IF q = job.order \/ q \in Pooled0(job.order)
       THEN job.copies[q] # NoOrder /\ Purchases0[q] # NoOrder /\ Like(job.copies[q], Purchases0[q])
       ELSE job.copies[q] = NoOrder
  /\ job.at = "add" => \A q \in Purchases : job.copies[q] # NoOrder => job.copies[q] = rows[q]
  /\ job.at = "share" => /\ Purchases0[job.order].pooled
                         /\ \A k \in job.kids : job.copies[k] = rows[k]

\* What a request does while pools and prices stay.
Sound(job, rows, table) ==
  /\ job.kind \in {"none", "pay", "receive", "note", "correct", "approve", "delete", "price"}
  /\ job.at \in {"idle", "next", "reread", "sum", "income", "approve", "add", "share", "status",
                "sale"}
  /\ Paying(job) => /\ job.kind \in {"pay", "delete"}
                    /\ job.sign = IF job.kind = "delete" THEN -1 ELSE 1
  /\ job.at = "approve" => job.old # NoTx /\ table[job.tx] = job.old
  /\ job.at \in {"add", "share"} => Copied(job, rows)

Account(rows, p, owed, slack) == rows[p] # NoOrder => rows[p].paid - owed \in 0..slack

SteadyInv ==
  steady =>
    /\ LikeFirst(purchases)
    /\ \A i \in TxIds : i >= newTx => txs[i] = NoTx
    /\ \A c, d \in Callers : call[c] # Idle /\ call[d] # Idle => c = d
    /\ \A c \in Callers : Sound(call[c], purchases, txs)
    /\ \A c \in Callers : Paying(call[c]) =>
         \A p \in Purchases :
           Account(purchases, p, Owed(call[c], txs, p), Slack(call[c], undone, p))
    /\ (\A c \in Callers : ~Paying(call[c])) =>
         \A p \in Purchases : Account(purchases, p, Recorded(txs, p), undone)

\* Taking a rounded quotient back takes it, or one less: halves go up on both sides of zero.
LEMMA RoundBack ==
  ASSUME NEW n \in Nat, NEW d \in Nat \ {0}
  PROVE  Round(n, d) \in Nat /\ Round(-n, d) + Round(n, d) \in {0, 1}
<1>1. PICK m, a : m = 2 * d /\ a = 2 * n + d
  OBVIOUS
<1>2. m \in Nat \ {0} /\ a \in Nat /\ 2 * (-n) + d = m - a
  BY <1>1
<1>3. PICK q, r : q = a \div m /\ r = (m - a) \div m
  OBVIOUS
<1>4. q \in Int /\ m * q <= a /\ a < m * q + m
  BY <1>2, <1>3
<1>5. r \in Int /\ m * r <= m - a /\ m - a < m * r + m
  BY <1>2, <1>3
<1>6. q >= 0
  <2>1. ASSUME q <= -1 PROVE FALSE
    <3>1. m * q <= m * (-1)
      BY <1>2, <1>4, <2>1
    <3> QED BY <1>2, <1>4, <3>1
  <2> QED BY <1>4, <2>1
<1>7. r + q \in {0, 1}
  <2>1. PICK s \in Int : s = r + q
    BY <1>4, <1>5
  <2>2. m * s = m * r + m * q
    BY <1>2, <1>4, <1>5, <2>1
  <2>3. m * r \in Int /\ m * q \in Int /\ m * s <= m /\ m * s > -m
    BY <1>2, <1>4, <1>5, <2>2
  <2>4. ~(s >= 2)
    <3> SUFFICES ASSUME s >= 2 PROVE FALSE
      OBVIOUS
    <3>1. m * s >= m * 2 /\ m * 2 = m + m
      BY <1>2
    <3> QED BY <1>2, <2>3, <3>1
  <2>5. ~(s <= -1)
    <3> SUFFICES ASSUME s <= -1 PROVE FALSE
      OBVIOUS
    <3>1. m * s <= m * (-1) /\ m * (-1) = -m
      BY <1>2
    <3> QED BY <1>2, <2>3, <3>1
  <2> QED BY <2>1, <2>4, <2>5
<1> QED BY <1>1, <1>2, <1>3, <1>4, <1>6, <1>7 DEF Round

\* The same of the share an order has of its pool.
LEMMA ShareBack ==
  ASSUME NEW n \in Nat, NEW p \in Purchases, Purchases0[p] # NoOrder, NEW k \in Pooled0(p)
  PROVE  /\ Share(n, Purchases0, p, k) \in Nat
         /\ Share(-n, Purchases0, p, k) + Share(n, Purchases0, p, k) \in {0, 1}
         /\ Share(-n, Purchases0, p, k) \in Int
<1>1. Purchases0 \in [Purchases -> Purchase \cup {NoOrder}] /\ IsFiniteSet(Purchases)
  BY PurchasesAssumption
<1>2. /\ Purchases0[p] \in Purchase /\ k \in Purchases /\ Purchases0[k] \in Purchase
      /\ Pooled0(p) \subseteq Purchases
  BY <1>1 DEF Pooled0, Children
<1>3. PICK t, u : t = Purchases0[k].total /\ u = Purchases0[p].total
  OBVIOUS
<1>4. t \in Nat /\ u \in Nat /\ n * t \in Nat /\ (-n) * t = -(n * t)
  BY <1>2, <1>3 DEF Purchase
<1>5. ASSUME NEW x \in Nat, NEW d \in Nat \ {0}
      PROVE  Round(x, d) \in Nat /\ Round(-x, d) \in Int /\ Round(-x, d) + Round(x, d) \in {0, 1}
  BY RoundBack, RoundTyped
<1>6. CASE u > 0
  BY <1>3, <1>4, <1>5, <1>6 DEF Share
<1>7. CASE ~(u > 0)
  <2>1. IsFiniteSet(Pooled0(p)) /\ Pooled0(p) # {}
    BY <1>1, <1>2, FS_Subset
  <2>2. Cardinality(Pooled0(p)) \in Nat \ {0}
    BY <2>1, FS_CardinalityType, FS_EmptySet
  <2> QED BY <1>3, <1>4, <1>5, <1>7, <2>2 DEF Share, Pooled0
<1> QED BY <1>6, <1>7

\* What an allotment allocates to an order that exists.
LEMMA AllottedTyped ==
  ASSUME PoolsAreSound, NEW p \in Purchases, Purchases0[p] # NoOrder, NEW a \in Allotment
  PROVE  Allotted(p, a) \in Nat
<1>1. a.order \in Purchases /\ a.amount \in Nat
  BY DEF Allotment
<1>2. CASE a.order # p /\ a.order = Purchases0[p].pool
  <2>1. a.order # NoOrder
    BY <1>1, NullAssumption
  <2>2. Purchases0[a.order] # NoOrder /\ p \in Pooled0(a.order)
    BY <1>2, <2>1 DEF PoolsAreSound, Pooled0, Children
  <2> QED BY <1>1, <1>2, <2>2, ShareBack DEF Allotted
<1> QED BY <1>1, <1>2 DEF Allotted

-----------------------------------------------------------------------------
(* Lists of allotments *)

LEMMA ListedEmpty == ASSUME NEW p PROVE Listed(<<>>, p) = 0
<1>1. DOMAIN <<>> = {}
  OBVIOUS
<1> QED BY <1>1, SumEmpty DEF Listed

LEMMA ListedTyped ==
  ASSUME PoolsAreSound, NEW p \in Purchases, Purchases0[p] # NoOrder, NEW list \in Seq(Allotment)
  PROVE  Listed(list, p) \in Nat
<1> DEFINE f == [i \in DOMAIN list |-> Allotted(p, list[i])]
<1>1. \A i \in DOMAIN list : list[i] \in Allotment
  OBVIOUS
<1>2. \A i \in DOMAIN list : f[i] \in Nat
  BY <1>1, AllottedTyped
<1>3. IsFiniteSet(DOMAIN list)
  <2>1. DOMAIN list = 1..Len(list) /\ Len(list) \in Nat
    OBVIOUS
  <2> QED BY <2>1, FS_Interval
<1> HIDE DEF f
<1>4. Sum(f, DOMAIN list) \in Nat
  BY <1>2, <1>3, SumNat
<1> QED BY <1>4 DEF Listed, f

\* The first allotment of a list counts beside the others.
LEMMA ListedFirst ==
  ASSUME PoolsAreSound, NEW p \in Purchases, Purchases0[p] # NoOrder, NEW list \in Seq(Allotment),
         list # <<>>
  PROVE  Listed(list, p) = Allotted(p, Head(list)) + Listed(Tail(list), p)
<1> DEFINE n == Len(list)
           f == [i \in 1..n |-> Allotted(p, list[i])]
           g == [i \in 1..(n - 1) |-> Allotted(p, Tail(list)[i])]
           b == [i \in 1..(n - 1) |-> i + 1]
<1>1. /\ n \in Nat \ {0} /\ DOMAIN list = 1..n /\ DOMAIN Tail(list) = 1..(n - 1)
      /\ \A i \in 1..(n - 1) : Tail(list)[i] = list[i + 1]
      /\ list[1] = Head(list) /\ \A i \in 1..n : list[i] \in Allotment
  OBVIOUS
<1>2. \A i \in 1..n : f[i] \in Int
  BY <1>1, AllottedTyped
<1>3. \A i \in 1..(n - 1) : b[i] \in (1..n) \ {1} /\ g[i] = f[b[i]]
  BY <1>1
<1>4. \A i, j \in 1..(n - 1) : b[i] = b[j] => i = j
  BY <1>1
<1>5. \A x \in (1..n) \ {1} : \E i \in 1..(n - 1) : x = b[i]
  <2>1. ASSUME NEW x \in (1..n) \ {1} PROVE x - 1 \in 1..(n - 1) /\ b[x - 1] = x
    BY <1>1
  <2> QED BY <1>1, <2>1
<1>6. f[1] = Allotted(p, Head(list)) /\ 1 \in 1..n
  BY <1>1
<1>7. IsFiniteSet(1..n) /\ IsFiniteSet((1..n) \ {1}) /\ IsFiniteSet(1..(n - 1))
  <2> PICK k \in Nat : k = n
    BY <1>1
  <2>1. IsFiniteSet(1..k) /\ IsFiniteSet(1..(k - 1))
    BY FS_Interval
  <2>2. IsFiniteSet((1..k) \ {1})
    BY <2>1, FS_Subset
  <2> QED BY <2>1, <2>2
<1>8. Listed(list, p) = Sum(f, 1..n) /\ Listed(Tail(list), p) = Sum(g, 1..(n - 1))
  BY <1>1 DEF Listed
<1> HIDE DEF f, g, b
<1>9. Sum(f, 1..n) = f[1] + Sum(f, (1..n) \ {1})
  BY <1>2, <1>6, <1>7, SumRemove
<1>10. \A i \in 1..(n - 1) : g[i] \in Int
  BY <1>2, <1>3
<1>11. Sum(g, 1..(n - 1)) = Sum(f, (1..n) \ {1})
  <2>1. Renames(b, 1..(n - 1), (1..n) \ {1})
    BY <1>3, <1>4, <1>5 DEF Renames
  <2>2. CountsAs(g, f, b, 1..(n - 1))
    BY <1>3, <1>10 DEF CountsAs
  <2> QED BY <1>7, <2>1, <2>2, SumRenamed
<1> QED BY <1>6, <1>8, <1>9, <1>11

-----------------------------------------------------------------------------
(* What the transactions record *)

Tables == [TxIds -> Transaction \cup {NoTx}]

LEMMA TxIdsFinite == IsFiniteSet(TxIds)
BY FS_Interval

LEMMA EntryTyped ==
  ASSUME PoolsAreSound, NEW p \in Purchases, Purchases0[p] # NoOrder, NEW table \in Tables,
         NEW i \in TxIds
  PROVE  Entry(table, i, p) \in Nat
<1>1. table[i] \in Transaction \cup {NoTx}
  BY DEF Tables
<1>2. Taken(table[i]) \in Seq(Allotment)
  BY <1>1, TakenTyped
<1> QED BY <1>2, ListedTyped DEF Entry

LEMMA RecordedTyped ==
  ASSUME PoolsAreSound, NEW p \in Purchases, Purchases0[p] # NoOrder, NEW table \in Tables
  PROVE  Recorded(table, p) \in Nat
<1> DEFINE f == [i \in TxIds |-> Entry(table, i, p)]
<1>1. \A i \in TxIds : f[i] \in Nat
  BY EntryTyped
<1> HIDE DEF f
<1>2. Sum(f, TxIds) \in Nat
  BY <1>1, TxIdsFinite, SumNat
<1> QED BY <1>2 DEF Recorded, f

\* One transaction changes.
LEMMA RecordedChanged ==
  ASSUME PoolsAreSound, NEW p \in Purchases, Purchases0[p] # NoOrder, NEW table \in Tables,
         NEW i \in TxIds, NEW row \in Transaction \cup {NoTx}
  PROVE  LET new == [table EXCEPT ![i] = row]
         IN  /\ new \in Tables
             /\ Recorded(new, p) = Recorded(table, p) + Entry(new, i, p) - Entry(table, i, p)
<1> DEFINE f(t) == [j \in TxIds |-> Entry(t, j, p)]
<1>1. PICK new : new = [table EXCEPT ![i] = row]
  OBVIOUS
<1>2. new \in Tables /\ \A j \in TxIds \ {i} : new[j] = table[j]
  BY <1>1 DEF Tables
<1>3. \A j \in TxIds : f(table)[j] \in Int /\ f(new)[j] \in Int
  BY <1>2, EntryTyped
<1>4. \A j \in TxIds \ {i} : f(table)[j] = f(new)[j]
  BY <1>2 DEF Entry
<1>5. f(table)[i] = Entry(table, i, p) /\ f(new)[i] = Entry(new, i, p)
  OBVIOUS
<1>6. Sum(f(new), TxIds) = Sum(f(table), TxIds) + (f(new)[i] - f(table)[i])
  <2> PICK g, h : g = f(table) /\ h = f(new)
    OBVIOUS
  <2> QED BY <1>3, <1>4, TxIdsFinite, SumChanged
<1>7. Recorded(new, p) = Recorded(table, p) + (Entry(new, i, p) - Entry(table, i, p))
  BY <1>5, <1>6 DEF Recorded
<1>8. Recorded(table, p) \in Int /\ Entry(new, i, p) \in Int /\ Entry(table, i, p) \in Int
  BY <1>2, RecordedTyped, EntryTyped
<1>9. Recorded(new, p) = Recorded(table, p) + Entry(new, i, p) - Entry(table, i, p)
  BY <1>7, <1>8
<1> QED BY <1>1, <1>2, <1>9

\* Tables of which the same would be taken back record the same.
LEMMA RecordedSame ==
  ASSUME NEW p, NEW table, NEW new, \A i \in TxIds : Taken(new[i]) = Taken(table[i])
  PROVE  Recorded(new, p) = Recorded(table, p)
<1>1. \A i \in TxIds : Entry(new, i, p) = Entry(table, i, p)
  BY DEF Entry
<1>2. [i \in TxIds |-> Entry(new, i, p)] = [i \in TxIds |-> Entry(table, i, p)]
  BY <1>1
<1> QED BY <1>2 DEF Recorded

-----------------------------------------------------------------------------
(* Rows that have the totals and pools of the beginning *)

LEMMA ShareAlike ==
  ASSUME NEW rows, NEW p, NEW k, NEW n, rows[p].total = Purchases0[p].total,
         rows[k].total = Purchases0[k].total, Children(rows, p) = Pooled0(p)
  PROVE  Share(n, rows, p, k) = Share(n, Purchases0, p, k)
BY DEF Share, Pooled0

LEMMA ChildrenAlike ==
  ASSUME NEW rows, LikeFirst(rows), NEW p PROVE Children(rows, p) = Pooled0(p)
BY DEF LikeFirst, Like, Pooled0, Children

\* An order is not pooled by itself, and the order that pools another is a pool.
LEMMA PoolsApart ==
  ASSUME PoolsAreSound, NEW p \in Purchases, NEW k \in Pooled0(p)
  PROVE  k # p /\ k \in Purchases /\ Purchases0[k] # NoOrder /\ Purchases0[k].pool = p
         /\ Purchases0[p] # NoOrder /\ Purchases0[p].pooled
<1>1. p # NoOrder
  BY NullAssumption
<1> QED BY <1>1 DEF Pooled0, Children, PoolsAreSound

LEMMA ChildrenCopied ==
  ASSUME PoolsAreSound, NEW job, NEW rows, Copied(job, rows), job.order \in Purchases
  PROVE  Children(job.copies, job.order) = Pooled0(job.order)
<1>1. PICK p \in Purchases : p = job.order
  OBVIOUS
<1>2. \A q \in Purchases :
        IF q = p \/ q \in Pooled0(p)
        THEN job.copies[q] # NoOrder /\ Purchases0[q] # NoOrder /\ Like(job.copies[q], Purchases0[q])
        ELSE job.copies[q] = NoOrder
  BY <1>1 DEF Copied
<1>3. ASSUME NEW k \in Pooled0(p) PROVE k \in Children(job.copies, p)
  BY <1>2, <1>3, PoolsApart DEF Children, Like
<1>4. ASSUME NEW k \in Children(job.copies, p) PROVE k \in Pooled0(p)
  <2>1. k \in Purchases /\ job.copies[k] # NoOrder /\ job.copies[k].pool = p
    BY DEF Children
  <2>2. Purchases0[k] # NoOrder /\ Purchases0[k].pool = p
    BY <1>2, <2>1 DEF Like
  <2> QED BY <2>1, <2>2 DEF Pooled0, Children
<1> QED BY <1>1, <1>3, <1>4

LEMMA AllottedAlike ==
  ASSUME PoolsAreSound, LikeFirst(purchases), NEW p \in Purchases, purchases[p] # NoOrder,
         NEW a \in Allotment
  PROVE  AllottedTo(p, a) = Allotted(p, a)
<1>1. Purchases0[p] # NoOrder /\ purchases[p].pool = Purchases0[p].pool
      /\ purchases[p].total = Purchases0[p].total
  BY DEF LikeFirst, Like
<1>2. CASE a.order # p /\ a.order = Purchases0[p].pool
  <2>1. a.order \in Purchases /\ a.order # NoOrder
    BY NullAssumption DEF Allotment
  <2>2. Purchases0[a.order] # NoOrder
    BY <1>1, <1>2, <2>1 DEF PoolsAreSound
  <2>3. purchases[a.order].total = Purchases0[a.order].total
    BY <2>1, <2>2 DEF LikeFirst, Like
  <2>4. Children(purchases, a.order) = Pooled0(a.order)
    BY ChildrenAlike
  <2>5. Share(a.amount, purchases, a.order, p) = Share(a.amount, Purchases0, a.order, p)
    BY <1>1, <2>3, <2>4, ShareAlike
  <2> QED BY <1>1, <1>2, <2>5 DEF AllottedTo, Allotted
<1>3. CASE ~(a.order # p /\ a.order = Purchases0[p].pool)
  BY <1>1, <1>3 DEF AllottedTo, Allotted
<1> QED BY <1>2, <1>3

\* What the transactions allocate is what they record.
LEMMA SharesRecorded ==
  ASSUME IInv, PoolsAreSound, LikeFirst(purchases), NEW p \in Purchases, purchases[p] # NoOrder
  PROVE  Sum([i \in TxIds |-> SharesOf(i, p)], TxIds) = Recorded(txs, p)
<1>1. ASSUME NEW i \in TxIds PROVE SharesOf(i, p) = Entry(txs, i, p)
  <2>1. txs[i] \in Transaction \cup {NoTx}
    BY DEF IInv, Books
  <2>2. PICK list \in Seq(Allotment) : list = Taken(txs[i])
    BY <2>1, TakenTyped
  <2>3. \A j \in DOMAIN list : list[j] \in Allotment
    OBVIOUS
  <2>4. \A j \in DOMAIN list : AllottedTo(p, list[j]) = Allotted(p, list[j])
    BY <2>3, AllottedAlike
  <2>5. [j \in DOMAIN list |-> AllottedTo(p, list[j])] = [j \in DOMAIN list |-> Allotted(p, list[j])]
    BY <2>4
  <2>6. Allocated(list, p) = Listed(list, p)
    BY <2>5 DEF Allocated, Listed
  <2> QED BY <2>2, <2>6 DEF SharesOf, Entry
<1>2. [i \in TxIds |-> SharesOf(i, p)] = [i \in TxIds |-> Entry(txs, i, p)]
  BY <1>1
<1> QED BY <1>2 DEF Recorded

-----------------------------------------------------------------------------
(* Steps of the only request *)

LEMMA IdleSound == ASSUME NEW rows, NEW table PROVE Sound(Idle, rows, table) /\ ~Paying(Idle)
BY IdleTyped DEF Sound, Paying

\* What is left to show when one request goes on and the others are idle.
LEMMA Onward ==
  ASSUME IInv, NEW c \in Callers, NEW job, Goes(c, job), \A d \in Callers \ {c} : call[d] = Idle,
         NEW rows, rows = purchases', NEW table, table = txs',
         LikeFirst(rows), \A i \in TxIds : i >= newTx' => table[i] = NoTx,
         Sound(job, rows, table),
         \A p \in Purchases :
           IF Paying(job) THEN Account(rows, p, Owed(job, table, p), Slack(job, undone', p))
           ELSE Account(rows, p, Recorded(table, p), undone')
  PROVE  SteadyInv'
<1>1. call'[c] = job /\ \A d \in Callers \ {c} : call'[d] = Idle
  BY DEF Goes, IInv, Calls
<1>2. \A d \in Callers : Sound(call'[d], rows, table)
  BY <1>1, IdleSound
<1>3. \A d \in Callers : Paying(call'[d]) => d = c
  BY <1>1, IdleSound
<1>4. ASSUME NEW d \in Callers, Paying(call'[d]), NEW p \in Purchases
      PROVE  Account(rows, p, Owed(call'[d], table, p), Slack(call'[d], undone', p))
  BY <1>1, <1>3, <1>4
<1>5. ASSUME \A d \in Callers : ~Paying(call'[d]), NEW p \in Purchases
      PROVE  Account(rows, p, Recorded(table, p), undone')
  BY <1>1, <1>5
<1>6. \A d, e \in Callers : call'[d] # Idle /\ call'[e] # Idle => d = e
  BY <1>1
<1> QED BY <1>2, <1>4, <1>5, <1>6 DEF SteadyInv

\* What is known of the only request.
LEMMA Now ==
  ASSUME IInv, SteadyInv, steady, NEW c \in Callers, call[c] # Idle \/ Quiet
  PROVE  /\ \A d \in Callers \ {c} : call[d] = Idle
         /\ LikeFirst(purchases)
         /\ \A i \in TxIds : i >= newTx => txs[i] = NoTx
         /\ Sound(call[c], purchases, txs)
         /\ \A p \in Purchases :
              IF Paying(call[c])
              THEN Account(purchases, p, Owed(call[c], txs, p), Slack(call[c], undone, p))
              ELSE Account(purchases, p, Recorded(txs, p), undone)
         /\ txs \in Tables /\ purchases \in Rows
<1>1. \A d \in Callers \ {c} : call[d] = Idle
  BY DEF SteadyInv, Quiet
<1>2. \A d \in Callers \ {c} : ~Paying(call[d])
  BY <1>1, IdleSound
<1> QED BY <1>1, <1>2 DEF SteadyInv, IInv, Books, Tables

\* How a request begins while pools and prices stay.
LEMMA SteadyBegins ==
  ASSUME IInv, NEW c \in Callers, NEW kind, NEW job \in Job, Begins(c, kind, job), steady'
  PROVE  /\ steady /\ Quiet /\ call[c] = Idle /\ kind \in AllKinds
         /\ kind \notin {"bulk", "edit", "pool", "remove", "clear"}
         /\ kind \in {"receive", "note", "correct"} => \A i \in TxIds : Taken(txs'[i]) = Taken(txs[i])
         /\ \E new \in Job :
              /\ Goes(c, new) /\ new.kind \in {kind, "none"} /\ (job # Idle => new.kind = kind)
              /\ new.at = job.at /\ new.tx = job.tx
              /\ new.order = job.order /\ new.todo = job.todo /\ new.copies = job.copies
              /\ new.kids = job.kids /\ new.sale = job.sale /\ new.old = job.old
              /\ new.sign = job.sign
<1>1. /\ steady /\ Quiet /\ call[c] = Idle /\ kind \in AllKinds
      /\ kind \notin {"bulk", "edit", "pool", "remove", "clear"}
      /\ kind \in {"receive", "note", "correct"} => \A i \in TxIds : Taken(txs'[i]) = Taken(txs[i])
  BY DEF Begins
<1> QED BY <1>1, Begun

\* A step of a request that pays nothing, and that changes no allocation.
LEMMA Aside ==
  ASSUME IInv, SteadyInv, steady, NEW c \in Callers, call[c] # Idle \/ Quiet, ~Paying(call[c]),
         NEW job, Goes(c, job), ~Paying(job), UNCHANGED <<purchases, undone>>,
         NEW table, table = txs', \A i \in TxIds : i >= newTx' => table[i] = NoTx,
         Sound(job, purchases, table), \A i \in TxIds : Taken(table[i]) = Taken(txs[i])
  PROVE  SteadyInv'
<1>1. /\ \A d \in Callers \ {c} : call[d] = Idle
      /\ LikeFirst(purchases)
      /\ \A p \in Purchases : Account(purchases, p, Recorded(txs, p), undone)
  BY Now
<1>2. \A p \in Purchases : Account(purchases, p, Recorded(table, p), undone)
  <2>1. \A p : Recorded(table, p) = Recorded(txs, p)
    BY RecordedSame
  <2> QED BY <1>1, <2>1
<1>3. PICK rows : rows = purchases
  OBVIOUS
<1>4. PICK back : back = undone
  OBVIOUS
<1> QED BY <1>1, <1>2, <1>3, <1>4, Onward

LEMMA SteadyReceives ==
  ASSUME IInv, SteadyInv, steady', NEW c \in Callers, Receive(c) \/ Note(c)
  PROVE  SteadyInv'
<1>1. \E row \in Transaction, kind \in {"receive", "note"}, job \in Job :
        /\ NewTx(row) /\ Begins(c, kind, job) /\ job.at \in {"sum", "idle"}
        /\ job.copies = Idle.copies /\ (job.at = "sum" => job.order \in Sales)
  BY Stored
<1>2. PICK row \in Transaction, kind \in {"receive", "note"}, job \in Job :
        NewTx(row) /\ Begins(c, kind, job) /\ job.at \in {"sum", "idle"}
  BY <1>1
<1>3. /\ steady /\ Quiet /\ call[c] = Idle
      /\ \A i \in TxIds : Taken(txs'[i]) = Taken(txs[i])
  BY <1>2, SteadyBegins
<1>4. PICK new \in Job : Goes(c, new) /\ new.kind \in {kind, "none"} /\ new.at = job.at
  BY <1>2, SteadyBegins
<1>5. newTx \in TxIds /\ txs' = [txs EXCEPT ![newTx] = row] /\ newTx' = newTx + 1
  BY <1>2 DEF NewTx, IInv, Books
<1>6. PICK table : table = txs'
  OBVIOUS
<1>7. \A i \in TxIds : i >= newTx' => table[i] = NoTx
  <2>1. \A i \in TxIds : i >= newTx => txs[i] = NoTx
    BY <1>3 DEF SteadyInv
  <2> QED BY <1>5, <1>6, <2>1 DEF IInv, Books
<1>8. Sound(new, purchases, table) /\ ~Paying(new)
  BY <1>2, <1>4 DEF Sound, Paying
<1>9. UNCHANGED <<purchases, undone>>
  BY DEF Receive, Note
<1> QED BY <1>3, <1>4, <1>6, <1>7, <1>8, <1>9, IdleSound, Aside

LEMMA SteadyCorrects ==
  ASSUME IInv, SteadyInv, steady', NEW c \in Callers, Correct(c)
  PROVE  SteadyInv'
<1>1. PICK i \in TxIds, e \in Entries, F \in Updates :
        /\ txs[i] # NoTx
        /\ txs' = [txs EXCEPT ![i] = Updated(txs[i], e, F)]
        /\ Begins(c, "correct", [Idle EXCEPT !.at = "reread", !.tx = i])
  BY DEF Correct
<1>2. i \in 0..MaxTx
  OBVIOUS
<1>3. PICK idle \in Job : idle = Idle
  BY IdleTyped
<1>4. PICK job : job = [idle EXCEPT !.at = "reread", !.tx = i]
  OBVIOUS
<1>5. job \in Job /\ job.at = "reread" /\ Begins(c, "correct", job)
  BY <1>1, <1>2, <1>3, <1>4 DEF Job, Places
<1>6. /\ steady /\ Quiet /\ call[c] = Idle
      /\ \A j \in TxIds : Taken(txs'[j]) = Taken(txs[j])
  BY <1>5, SteadyBegins
<1>7. PICK new \in Job : Goes(c, new) /\ new.kind \in {"correct", "none"} /\ new.at = "reread"
  BY <1>5, SteadyBegins
<1>8. PICK table : table = txs'
  OBVIOUS
<1>9. \A j \in TxIds : j >= newTx' => table[j] = NoTx
  <2>1. newTx' = newTx /\ \A j \in TxIds : j >= newTx => txs[j] = NoTx
    BY <1>6 DEF SteadyInv, Correct
  <2> QED BY <1>1, <1>8, <2>1 DEF IInv, Books
<1>10. Sound(new, purchases, table) /\ ~Paying(new)
  BY <1>7 DEF Sound, Paying
<1>11. UNCHANGED <<purchases, undone>>
  BY DEF Correct
<1> QED BY <1>6, <1>7, <1>8, <1>9, <1>10, <1>11, IdleSound, Aside

\* Steps that leave the transactions alone and pay nothing.
LEMMA SteadyLooks ==
  ASSUME IInv, SteadyInv, steady, NEW c \in Callers, call[c] # Idle \/ Quiet, ~Paying(call[c]),
         NEW job, Goes(c, job), ~Paying(job), Sound(job, purchases, txs),
         UNCHANGED <<purchases, undone, txs, newTx>>
  PROVE  SteadyInv'
<1>1. \A i \in TxIds : i >= newTx => txs[i] = NoTx
  BY DEF SteadyInv
<1>2. PICK table : table = txs
  OBVIOUS
<1> QED BY <1>1, <1>2, Aside

LEMMA SteadyPrices ==
  ASSUME IInv, SteadyInv, steady', NEW c \in Callers, Price(c) \/ Approve(c)
  PROVE  SteadyInv'
<1>1. CASE Price(c)
  <2>1. PICK o \in Sales, n \in Amounts :
          Begins(c, "price", [Idle EXCEPT !.at = "sale", !.order = o,
                                          !.sale = [sales[o] EXCEPT !.total = n]])
    BY <1>1 DEF Price
  <2>2. sales[o] \in Sale /\ n \in Nat
    BY AmountsAssumption DEF IInv, Books
  <2>3. PICK sale : sale = [sales[o] EXCEPT !.total = n]
    OBVIOUS
  <2>4. sale \in Sale
    BY <2>2, <2>3 DEF Sale
  <2>5. PICK idle \in Job : idle = Idle
    BY IdleTyped
  <2>6. PICK job : job = [idle EXCEPT !.at = "sale", !.order = o, !.sale = sale]
    OBVIOUS
  <2>7. job \in Job /\ job.at = "sale"
    BY <2>4, <2>5, <2>6 DEF Job, Places
  <2>8. /\ steady /\ Quiet /\ call[c] = Idle
        /\ \E new \in Job : Goes(c, new) /\ new.kind \in {"price", "none"} /\ new.at = "sale"
    <3>1. Begins(c, "price", job)
      BY <2>1, <2>3, <2>5, <2>6
    <3> QED BY <2>7, <3>1, SteadyBegins
  <2>9. PICK new \in Job : Goes(c, new) /\ new.kind \in {"price", "none"} /\ new.at = "sale"
    BY <2>8
  <2>10. Sound(new, purchases, txs) /\ ~Paying(new)
    BY <2>9 DEF Sound, Paying
  <2>11. UNCHANGED <<purchases, undone, txs, newTx>>
    BY <1>1 DEF Price, ledger
  <2> QED BY <2>8, <2>9, <2>10, <2>11, IdleSound, SteadyLooks
<1>2. CASE Approve(c)
  <2>1. PICK i \in TxIds :
          /\ txs[i] # NoTx
          /\ Begins(c, "approve", [Idle EXCEPT !.at = "approve", !.tx = i, !.old = txs[i]])
    BY <1>2 DEF Approve
  <2>2. txs[i] \in Transaction
    BY <2>1 DEF IInv, Books
  <2>3. i \in 0..MaxTx
    OBVIOUS
  <2>5. PICK idle \in Job : idle = Idle
    BY IdleTyped
  <2>6. PICK job : job = [idle EXCEPT !.at = "approve", !.tx = i, !.old = txs[i]]
    OBVIOUS
  <2>7. job \in Job /\ job.at = "approve" /\ job.tx = i /\ job.old = txs[i]
    BY <2>2, <2>3, <2>5, <2>6 DEF Job, Places
  <2>8. /\ steady /\ Quiet /\ call[c] = Idle
        /\ \E new \in Job : Goes(c, new) /\ new.kind \in {"approve", "none"} /\ new.at = "approve"
                            /\ new.tx = i /\ new.old = txs[i]
    <3>1. Begins(c, "approve", job)
      BY <2>1, <2>5, <2>6
    <3> QED BY <2>7, <3>1, SteadyBegins
  <2>9. PICK new \in Job : Goes(c, new) /\ new.kind \in {"approve", "none"} /\ new.at = "approve"
                           /\ new.tx = i /\ new.old = txs[i]
    BY <2>8
  <2>10. Sound(new, purchases, txs) /\ ~Paying(new)
    BY <2>1, <2>9 DEF Sound, Paying
  <2>11. UNCHANGED <<purchases, undone, txs, newTx>>
    BY <1>2 DEF Approve, ledger
  <2> QED BY <2>8, <2>9, <2>10, <2>11, IdleSound, SteadyLooks
<1> QED BY <1>1, <1>2

LEMMA SteadyApproves ==
  ASSUME IInv, SteadyInv, PoolsAreSound, steady', NEW c \in Callers, SaveApproved(c)
  PROVE  SteadyInv'
<1>1. steady /\ call[c].at = "approve" /\ call[c] # Idle
  BY IdleTyped DEF SaveApproved, history, At
<1>2. Sound(call[c], purchases, txs) /\ txs \in Tables
      /\ \A i \in TxIds : i >= newTx => txs[i] = NoTx
  BY <1>1, Now
<1>3. PICK i, old : i = call[c].tx /\ old = call[c].old
  OBVIOUS
<1>4. i \in TxIds /\ old = txs[i] /\ old \in Transaction
  <2>1. call[c] \in Job /\ Needs(call[c])
    BY CopiesGood
  <2>2. i \in 0..MaxTx /\ i # 0 /\ old # NoTx /\ old \in Transaction
    BY <1>1, <1>3, <2>1 DEF Needs, Job
  <2> QED BY <1>1, <1>2, <1>3, <2>2 DEF Sound
<1>5. PICK row : row = [old EXCEPT !.status = "COMPLETED"]
  OBVIOUS
<1>6. /\ row \in Transaction /\ row.type = old.type /\ row.shares = old.shares
      /\ old # NoTx /\ row # NoTx
  BY <1>4, <1>5, NullAssumption DEF Transaction
<1>7. PICK table : table = [txs EXCEPT ![i] = row]
  OBVIOUS
<1>8. /\ txs' = table /\ newTx' = newTx /\ UNCHANGED <<purchases, undone>>
      /\ Goes(c, Idle)
  BY <1>3, <1>5, <1>7 DEF SaveApproved, Ends
<1>9. \A j \in TxIds : Taken(table[j]) = Taken(txs[j])
  BY <1>2, <1>4, <1>6, <1>7 DEF Tables, Taken
<1>10. \A j \in TxIds : j >= newTx => table[j] = NoTx
  BY <1>2, <1>4, <1>6, <1>7 DEF Tables
<1>11. ~Paying(call[c])
  BY <1>1 DEF Paying
<1> QED BY <1>1, <1>8, <1>9, <1>10, <1>11, IdleSound, Aside

LEMMA SteadySyncs ==
  ASSUME IInv, SteadyInv, steady', NEW c \in Callers,
         Reread(c) \/ LoadSale(c) \/ SumPayments(c) \/ SaveStatus(c) \/ SaveSale(c)
  PROVE  SteadyInv'
<1>1. steady /\ call[c].at \in {"reread", "sum", "income", "status", "sale"}
      /\ UNCHANGED <<purchases, undone, txs, newTx>>
  BY DEF Reread, LoadSale, SumPayments, SaveStatus, SaveSale, history, ledger, At
<1>2. call[c] # Idle /\ ~Paying(call[c])
  BY <1>1, IdleTyped DEF Paying
<1>3. Sound(call[c], purchases, txs) /\ call[c] \in Job
  BY <1>1, <1>2, Now, CopiesGood
<1>4. CASE Ends(c)
  BY <1>1, <1>2, <1>4, IdleSound, SteadyLooks DEF Ends
<1>5. CASE \E o : Goes(c, [Idle EXCEPT !.kind = "correct", !.at = "sum", !.order = o])
  <2>1. PICK idle \in Job : idle = Idle
    BY IdleTyped
  <2>2. PICK o, job : job = [idle EXCEPT !.kind = "correct", !.at = "sum", !.order = o] /\ Goes(c, job)
    BY <1>5, <2>1
  <2>3. job.at = "sum" /\ job.kind = "correct"
    BY <2>2 DEF Job
  <2>4. Sound(job, purchases, txs) /\ ~Paying(job)
    BY <2>3 DEF Sound, Paying
  <2> QED BY <1>1, <1>2, <2>2, <2>4, SteadyLooks
<1>6. CASE \E sale : Goes(c, [call[c] EXCEPT !.at = "income", !.sale = sale])
  <2>1. PICK sale, job : job = [call[c] EXCEPT !.at = "income", !.sale = sale] /\ Goes(c, job)
    BY <1>6
  <2>2. job.at = "income" /\ job.kind = call[c].kind
    BY <1>3, <2>1 DEF Job
  <2>3. Sound(job, purchases, txs) /\ ~Paying(job)
    BY <1>3, <2>2 DEF Sound, Paying
  <2> QED BY <1>1, <1>2, <2>1, <2>3, SteadyLooks
<1>7. CASE \E due : Goes(c, [call[c] EXCEPT !.at = "status", !.due = due])
  <2>1. PICK due, job : job = [call[c] EXCEPT !.at = "status", !.due = due] /\ Goes(c, job)
    BY <1>7
  <2>2. job.at = "status" /\ job.kind = call[c].kind
    BY <1>3, <2>1 DEF Job
  <2>3. Sound(job, purchases, txs) /\ ~Paying(job)
    BY <1>3, <2>2 DEF Sound, Paying
  <2> QED BY <1>1, <1>2, <2>1, <2>3, SteadyLooks
<1>8. Ends(c) \/ (\E o : Goes(c, [Idle EXCEPT !.kind = "correct", !.at = "sum", !.order = o]))
      \/ (\E sale : Goes(c, [call[c] EXCEPT !.at = "income", !.sale = sale]))
      \/ \E due : Goes(c, [call[c] EXCEPT !.at = "status", !.due = due])
  BY DEF Reread, LoadSale, SumPayments, SaveStatus, SaveSale
<1> QED BY <1>4, <1>5, <1>6, <1>7, <1>8

\* A new list of allotments is recorded before anything is paid.
LEMMA SteadyPays ==
  ASSUME IInv, SteadyInv, PoolsAreSound, steady', NEW c \in Callers, Pay(c)
  PROVE  SteadyInv'
<1>1. PICK bill \in Bills :
        LET job == [Idle EXCEPT !.at = "next", !.todo = bill.list]
        IN \/ Begins(c, "pay", job) /\ NewTx(Expense(bill.amount, bill.list))
           \/ Begins(c, "bulk", job) /\ NewTx(Expense(bill.amount, <<>>))
  BY DEF Pay
<1>2. PICK list \in Seq(Allotment) : list = bill.list
  BY ExpenseTyped
<1>3. PICK row : row = Expense(bill.amount, list)
  OBVIOUS
<1>4. row \in Transaction /\ row # NoTx /\ Taken(row) = list
  <2>1. row \in Transaction /\ row.type = "EXPENSE" /\ row.shares = list
    BY <1>2, <1>3, ExpenseTyped
  <2> QED BY <2>1, NullAssumption DEF Taken
<1>5. PICK idle \in Job : idle = Idle
  BY IdleTyped
<1>6. PICK job : job = [idle EXCEPT !.at = "next", !.todo = list]
  OBVIOUS
<1>7. job \in Job /\ job.at = "next" /\ job.todo = list /\ job.sign = 1
  <2>1. idle.sign = 1
    BY <1>5 DEF Idle
  <2> QED BY <1>2, <1>5, <1>6, <2>1 DEF Job, Places
<1>8. Begins(c, "pay", job) /\ NewTx(row)
  <2>1. (Begins(c, "pay", job) /\ NewTx(row)) \/ Begins(c, "bulk", job)
    BY <1>1, <1>2, <1>3, <1>5, <1>6
  <2>2. ~Begins(c, "bulk", job)
    BY <1>7, SteadyBegins
  <2> QED BY <2>1, <2>2
<1>9. steady /\ Quiet /\ call[c] = Idle
  BY <1>7, <1>8, SteadyBegins
<1>10. PICK new \in Job : /\ Goes(c, new) /\ new.kind = "pay" /\ new.at = "next"
                          /\ new.todo = list /\ new.sign = 1
  <2>1. job # Idle
    BY <1>7, IdleTyped
  <2> QED BY <1>7, <1>8, <2>1, SteadyBegins
<1>11. /\ newTx \in TxIds /\ txs[newTx] = NoTx /\ newTx' = newTx + 1
       /\ txs' = [txs EXCEPT ![newTx] = row]
  BY <1>8, <1>9 DEF NewTx, SteadyInv, IInv, Books
<1>12. PICK table : table = [txs EXCEPT ![newTx] = row]
  OBVIOUS
<1>13. /\ \A d \in Callers \ {c} : call[d] = Idle
       /\ LikeFirst(purchases) /\ txs \in Tables
       /\ \A i \in TxIds : i >= newTx => txs[i] = NoTx
       /\ \A p \in Purchases : Account(purchases, p, Recorded(txs, p), undone)
  BY <1>9, Now, IdleSound
<1>14. \A i \in TxIds : table[i] = IF i = newTx THEN row ELSE txs[i]
  BY <1>12, <1>13 DEF Tables
<1>15. \A i \in TxIds : i >= newTx' => table[i] = NoTx
  <2>1. newTx \in Int
    BY <1>11
  <2> QED BY <1>11, <1>13, <1>14, <2>1
<1>16. Sound(new, purchases, table) /\ Paying(new)
  BY <1>10 DEF Sound, Paying
<1>17. ASSUME NEW p \in Purchases
       PROVE  Account(purchases, p, Owed(new, table, p), Slack(new, undone, p))
  <2> SUFFICES ASSUME purchases[p] # NoOrder
               PROVE  Owed(new, table, p) = Recorded(txs, p) /\ Slack(new, undone, p) = undone
    BY <1>13 DEF Account
  <2>1. Purchases0[p] # NoOrder
    BY <1>13 DEF LikeFirst
  <2>2. Recorded(table, p) = Recorded(txs, p) + Entry(table, newTx, p) - Entry(txs, newTx, p)
    BY <1>4, <1>11, <1>12, <1>13, <2>1, RecordedChanged
  <2>4. Entry(txs, newTx, p) = 0 /\ Entry(table, newTx, p) = Listed(list, p)
    BY <1>4, <1>11, <1>14, ListedEmpty DEF Entry, Taken
  <2>5. Recorded(txs, p) \in Nat /\ Listed(list, p) \in Nat
    BY <1>2, <1>13, <2>1, RecordedTyped, ListedTyped
  <2>6. Owed(new, table, p) = Recorded(table, p) - Listed(list, p)
    BY <1>10 DEF Owed, Rest
  <2> QED BY <1>10, <2>2, <2>4, <2>5, <2>6 DEF Slack
<1>18. UNCHANGED <<purchases, undone>>
  BY DEF Pay
<1>19. PICK rows, back : rows = purchases /\ back = undone
  OBVIOUS
<1> QED BY <1>10, <1>11, <1>12, <1>13, <1>15, <1>16, <1>17, <1>18, <1>19, Onward

\* The table without a transaction.
LEMMA Without ==
  ASSUME PoolsAreSound, NEW p \in Purchases, Purchases0[p] # NoOrder, NEW table \in Tables,
         NEW i \in TxIds
  PROVE  LET less == [table EXCEPT ![i] = NoTx]
         IN less \in Tables /\ Recorded(table, p) = Recorded(less, p) + Entry(table, i, p)
<1>1. PICK less : less = [table EXCEPT ![i] = NoTx]
  OBVIOUS
<1>2. less \in Tables /\ Recorded(less, p) = Recorded(table, p) + Entry(less, i, p) - Entry(table, i, p)
  BY <1>1, RecordedChanged
<1>3. Entry(less, i, p) = 0
  BY <1>1, ListedEmpty DEF Entry, Tables, Taken
<1>4. Recorded(less, p) \in Nat /\ Recorded(table, p) \in Nat /\ Entry(table, i, p) \in Nat
  BY <1>2, RecordedTyped, EntryTyped
<1> QED BY <1>1, <1>2, <1>3, <1>4

LEMMA SteadyDeletes ==
  ASSUME IInv, SteadyInv, PoolsAreSound, steady', NEW c \in Callers, DeleteTransaction(c)
  PROVE  SteadyInv'
<1>1. PICK i \in TxIds :
        /\ txs[i] # NoTx
        /\ Begins(c, "delete", [Idle EXCEPT !.at = "next", !.tx = i, !.old = txs[i], !.sign = -1,
                                            !.todo = Taken(txs[i])])
  BY DEF DeleteTransaction
<1>2. txs[i] \in Transaction
  BY <1>1 DEF IInv, Books
<1>3. i \in 0..MaxTx
  OBVIOUS
<1>4. PICK list : list = Taken(txs[i])
  OBVIOUS
<1>5. list \in Seq(Allotment)
  BY <1>2, <1>4, TakenTyped
<1>6. PICK idle \in Job : idle = Idle
  BY IdleTyped
<1>7. PICK job : job = [idle EXCEPT !.at = "next", !.tx = i, !.old = txs[i], !.sign = -1,
                          !.todo = list]
  OBVIOUS
<1>8. /\ job \in Job /\ job.at = "next" /\ job.tx = i /\ job.todo = list /\ job.sign = -1
  BY <1>2, <1>3, <1>5, <1>6, <1>7 DEF Job, Places
<1>9. Begins(c, "delete", job)
  BY <1>1, <1>4, <1>6, <1>7
<1>10. steady /\ Quiet /\ call[c] = Idle
  BY <1>8, <1>9, SteadyBegins
<1>11. PICK new \in Job : /\ Goes(c, new) /\ new.kind = "delete" /\ new.at = "next" /\ new.tx = i
                          /\ new.todo = list /\ new.sign = -1
  <2>1. job # Idle
    BY <1>8, IdleTyped
  <2> QED BY <1>8, <1>9, <2>1, SteadyBegins
<1>12. /\ \A d \in Callers \ {c} : call[d] = Idle
       /\ LikeFirst(purchases) /\ txs \in Tables
       /\ \A j \in TxIds : j >= newTx => txs[j] = NoTx
       /\ \A p \in Purchases : Account(purchases, p, Recorded(txs, p), undone)
  BY <1>10, Now, IdleSound
<1>13. PICK table : table = txs
  OBVIOUS
<1>14. Sound(new, purchases, table) /\ Paying(new)
  BY <1>11 DEF Sound, Paying
<1>15. ASSUME NEW p \in Purchases
       PROVE  Account(purchases, p, Owed(new, table, p), Slack(new, undone, p))
  <2> SUFFICES ASSUME purchases[p] # NoOrder
               PROVE  Owed(new, table, p) = Recorded(txs, p) /\ Slack(new, undone, p) = undone
    BY <1>12 DEF Account
  <2>1. Purchases0[p] # NoOrder
    BY <1>12 DEF LikeFirst
  <2>2. Recorded(table, p) = Recorded([table EXCEPT ![i] = NoTx], p) + Entry(table, i, p)
    BY <1>12, <1>13, <2>1, Without
  <2>3. Entry(table, i, p) = Listed(list, p)
    BY <1>4, <1>13 DEF Entry
  <2>4. Owed(new, table, p) = Recorded([table EXCEPT ![i] = NoTx], p) + Listed(list, p)
    BY <1>11 DEF Owed, Rest
  <2> QED BY <1>11, <1>13, <2>2, <2>3, <2>4 DEF Slack
<1>16. UNCHANGED <<purchases, undone, txs, newTx>>
  BY DEF DeleteTransaction, ledger
<1>17. PICK rows, back : rows = purchases /\ back = undone
  OBVIOUS
<1> QED BY <1>11, <1>12, <1>13, <1>14, <1>15, <1>16, <1>17, Onward

\* The row goes, or the request ends, when every allotment is treated.
LEMMA SteadyErases ==
  ASSUME IInv, SteadyInv, PoolsAreSound, steady', NEW c \in Callers, Erase(c) \/ Paid(c)
  PROVE  SteadyInv'
<1>1. /\ steady /\ call[c].at = "next" /\ call[c].todo = <<>> /\ call[c] # Idle
      /\ UNCHANGED <<purchases, undone, newTx>>
  BY IdleTyped DEF Erase, Paid, history, ledger, At
<1>2. Paying(call[c]) /\ call[c] \in Job /\ Needs(call[c])
  BY <1>1, CopiesGood DEF Paying
<1>3. /\ \A d \in Callers \ {c} : call[d] = Idle
      /\ LikeFirst(purchases) /\ txs \in Tables
      /\ \A j \in TxIds : j >= newTx => txs[j] = NoTx
      /\ Sound(call[c], purchases, txs)
      /\ \A p \in Purchases : Account(purchases, p, Owed(call[c], txs, p), Slack(call[c], undone, p))
  BY <1>1, <1>2, Now
<1>4. PICK table : table = IF call[c].kind = "delete" THEN [txs EXCEPT ![call[c].tx] = NoTx] ELSE txs
  OBVIOUS
<1>5. txs' = table
  BY <1>4 DEF Erase, Paid, ledger
<1>6. \A j \in TxIds : j >= newTx' => table[j] = NoTx
  BY <1>1, <1>3, <1>4 DEF Tables
<1>7. ASSUME NEW p \in Purchases PROVE Account(purchases, p, Recorded(table, p), undone)
  <2> SUFFICES ASSUME purchases[p] # NoOrder
               PROVE  Owed(call[c], txs, p) = Recorded(table, p) /\ Slack(call[c], undone, p) = undone
    BY <1>3 DEF Account
  <2>1. Purchases0[p] # NoOrder
    BY <1>3 DEF LikeFirst
  <2>2. Rest(call[c], p) = 0
    BY <1>1, ListedEmpty DEF Rest
  <2>3. Recorded(table, p) \in Nat
    <3>1. table \in Tables
      BY <1>3, <1>4 DEF Tables
    <3> QED BY <2>1, <3>1, RecordedTyped
  <2>4. Owed(call[c], txs, p) = Recorded(table, p)
    BY <1>4, <2>2, <2>3 DEF Owed
  <2> QED BY <1>1, <2>4 DEF Slack
<1>8. \E job : Goes(c, job) /\ ~Paying(job) /\ Sound(job, purchases, table)
  <2>1. CASE Ends(c)
    BY <2>1, IdleSound DEF Ends
  <2>2. CASE \E o : Goes(c, [Idle EXCEPT !.kind = "delete", !.at = "sum", !.order = o])
    <3>1. PICK idle \in Job : idle = Idle
      BY IdleTyped
    <3>2. PICK o, job : job = [idle EXCEPT !.kind = "delete", !.at = "sum", !.order = o] /\ Goes(c, job)
      BY <2>2, <3>1
    <3>3. job.at = "sum" /\ job.kind = "delete"
      BY <3>2 DEF Job
    <3>4. Sound(job, purchases, table) /\ ~Paying(job)
      BY <3>3 DEF Sound, Paying
    <3> QED BY <3>2, <3>4
  <2> QED BY <2>1, <2>2 DEF Erase, Paid
<1>9. PICK rows, back : rows = purchases /\ back = undone
  OBVIOUS
<1> QED BY <1>1, <1>3, <1>5, <1>6, <1>7, <1>8, <1>9, Onward

-----------------------------------------------------------------------------
(* Steps of a payment *)

\* What is known of the only request while it pays.
LEMMA NowPaying ==
  ASSUME IInv, SteadyInv, steady, NEW c \in Callers, Paying(call[c])
  PROVE  /\ call[c] \in Job /\ Needs(call[c])
         /\ \A d \in Callers \ {c} : call[d] = Idle
         /\ LikeFirst(purchases)
         /\ \A i \in TxIds : i >= newTx => txs[i] = NoTx
         /\ Sound(call[c], purchases, txs)
         /\ \A p \in Purchases : Account(purchases, p, Owed(call[c], txs, p), Slack(call[c], undone, p))
         /\ txs \in Tables /\ purchases \in Rows
         /\ call[c].kind \in {"pay", "delete"} /\ (call[c].kind = "delete" => call[c].tx \in TxIds)
         /\ call[c].sign = (IF call[c].kind = "delete" THEN -1 ELSE 1)
<1>1. call[c] # Idle
  BY IdleSound
<1>2. call[c] \in Job /\ Needs(call[c])
  BY CopiesGood
<1>3. Sound(call[c], purchases, txs)
  BY <1>1, Now
<1>4. call[c].kind = "delete" => call[c].tx \in TxIds
  <2>1. call[c].tx \in 0..MaxTx /\ (call[c].kind = "delete" => call[c].tx # 0)
    BY <1>2 DEF Job, Needs, Paying
  <2> QED BY <2>1
<1>5. /\ call[c].kind \in {"pay", "delete"}
      /\ call[c].sign = (IF call[c].kind = "delete" THEN -1 ELSE 1)
  BY <1>3 DEF Sound
<1> QED BY <1>1, <1>2, <1>3, <1>4, <1>5, Now

\* What is owed changes by what is treated.
LEMMA OwedChanges ==
  ASSUME PoolsAreSound, NEW p \in Purchases, Purchases0[p] # NoOrder, NEW table \in Tables,
         NEW job, NEW new, job.kind \in {"pay", "delete"}, job.kind = "delete" => job.tx \in TxIds,
         new.kind = job.kind, new.tx = job.tx, NEW x \in Nat, Rest(new, p) \in Nat,
         Rest(job, p) = x + Rest(new, p)
  PROVE  /\ Owed(job, table, p) \in Int
         /\ Owed(new, table, p) = IF job.kind = "delete" THEN Owed(job, table, p) - x
                                  ELSE Owed(job, table, p) + x
         /\ job.kind = "delete" => Owed(job, table, p) >= x
<1>1. CASE job.kind = "delete"
  <2>1. PICK less : less = [table EXCEPT ![job.tx] = NoTx]
    OBVIOUS
  <2>2. less \in Tables
    BY <1>1, <2>1 DEF Tables
  <2>3. Recorded(less, p) \in Nat
    BY <2>2, RecordedTyped
  <2>4. /\ Owed(job, table, p) = Recorded(less, p) + Rest(job, p)
        /\ Owed(new, table, p) = Recorded(less, p) + Rest(new, p)
    BY <1>1, <2>1 DEF Owed
  <2> QED BY <1>1, <2>3, <2>4
<1>2. CASE job.kind = "pay"
  <2>1. Recorded(table, p) \in Nat
    BY RecordedTyped
  <2>2. /\ Owed(job, table, p) = Recorded(table, p) - Rest(job, p)
        /\ Owed(new, table, p) = Recorded(table, p) - Rest(new, p)
    BY <1>2 DEF Owed
  <2> QED BY <1>2, <2>1, <2>2
<1> QED BY <1>1, <1>2

\* A payment of x, or x taken back up to a rounding of e, keeps the account of an order.
LEMMA AccountAdded ==
  ASSUME NEW paid \in Nat, NEW owed \in Int, NEW x \in Nat, NEW e \in {0, 1}, NEW s \in Int,
         paid - owed \in 0..s, NEW back \in BOOLEAN, back => owed >= x, ~back => e = 0
  PROVE  Most(0, paid + (IF back THEN e - x ELSE x)) - (IF back THEN owed - x ELSE owed + x)
           \in 0..(s + e)
BY DEF Most

\* What the request does next, and what it has left to treat.
LEMMA TreatedRest ==
  ASSUME IInv, PoolsAreSound, NEW c \in Callers, call[c].at \in {"add", "share"}, NEW kids,
         kids \subseteq Children(call[c].copies, call[c].order)
  PROVE  \E new \in Job :
           /\ new = Treated(c, kids) /\ Paying(new)
           /\ new.kind = call[c].kind /\ new.tx = call[c].tx /\ new.sign = call[c].sign
           /\ \A p \in Purchases : Purchases0[p] # NoOrder =>
                Rest(new, p) = Listed(Tail(call[c].todo), p)
                               + (IF p \in kids THEN Allotted(p, Head(call[c].todo)) ELSE 0)
           /\ IF kids = {} THEN new.at = "next"
              ELSE /\ new.at = "share" /\ new.kids = kids /\ new.order = call[c].order
                   /\ new.copies = call[c].copies /\ new.todo = call[c].todo
<1>1. call[c] \in Job /\ Needs(call[c])
  BY CopiesGood
<1>2. call[c].todo # <<>> /\ call[c].todo \in Seq(Allotment)
  BY <1>1 DEF Needs, Job
<1>3. Tail(call[c].todo) \in Seq(Allotment) /\ kids \in SUBSET Purchases
  BY <1>2 DEF Children
<1>4. CASE kids # {}
  <2>1. PICK job : job = [call[c] EXCEPT !.at = "share", !.kids = kids]
    OBVIOUS
  <2>2. /\ job \in Job /\ job.at = "share" /\ job.kids = kids /\ job.order = call[c].order
        /\ job.copies = call[c].copies /\ job.todo = call[c].todo /\ job.kind = call[c].kind
        /\ job.tx = call[c].tx /\ job.sign = call[c].sign
    BY <1>1, <1>3, <2>1 DEF Job, Places
  <2>3. job = Treated(c, kids)
    BY <1>4, <2>1 DEF Treated
  <2>4. Paying(job)
    BY <2>2 DEF Paying
  <2>5. \A p \in Purchases :
          Rest(job, p) = Listed(Tail(call[c].todo), p)
                         + (IF p \in kids THEN Allotted(p, Head(call[c].todo)) ELSE 0)
    BY <2>2 DEF Rest
  <2> QED BY <1>4, <2>2, <2>3, <2>4, <2>5
<1>5. CASE kids = {}
  <2>1. PICK job : job = [call[c] EXCEPT !.at = "next", !.order = NoOrder, !.todo = Tail(@),
                                         !.kids = {}, !.copies = Idle.copies]
    OBVIOUS
  <2>2. /\ job \in Job /\ job.at = "next" /\ job.kind = call[c].kind
        /\ job.tx = call[c].tx /\ job.sign = call[c].sign /\ job.todo = Tail(call[c].todo)
    BY <1>1, <1>3, <2>1, IdleTyped DEF Job, Places
  <2>3. \A p \in Purchases : Purchases0[p] # NoOrder =>
          Rest(job, p) = Listed(Tail(call[c].todo), p)
                         + (IF p \in kids THEN Allotted(p, Head(call[c].todo)) ELSE 0)
    <3>1. \A p \in Purchases : Purchases0[p] # NoOrder => Listed(Tail(call[c].todo), p) \in Nat
      BY <1>3, ListedTyped
    <3> QED BY <1>5, <2>2, <3>1 DEF Rest
  <2>4. job = Treated(c, kids)
    BY <1>5, <2>1 DEF Treated
  <2>5. Paying(job)
    BY <2>2 DEF Paying
  <2> QED BY <1>5, <2>2, <2>3, <2>4, <2>5
<1> QED BY <1>4, <1>5

\* An order of a pool is never refused while the pools stay.
LEMMA NotRefused ==
  ASSUME PoolsAreSound, LikeFirst(purchases), NEW p \in Purchases, NEW row \in Purchase,
         Purchases0[p] # NoOrder, row.pool = Purchases0[p].pool
  PROVE  ~Refused(row)
<1>1. CASE row.pool = NoOrder
  BY <1>1 DEF Refused
<1>2. CASE row.pool # NoOrder
  <2>1. row.pool \in Purchases
    BY <1>2 DEF Purchase
  <2>2. Purchases0[row.pool] # NoOrder
    BY <1>2 DEF PoolsAreSound
  <2> QED BY <2>1, <2>2 DEF Refused, LikeFirst
<1> QED BY <1>1, <1>2

\* The amount a request adds.
LEMMA AmountIs ==
  ASSUME IInv, NEW c \in Callers, call[c].at \in {"add", "share"},
         call[c].sign = (IF call[c].kind = "delete" THEN -1 ELSE 1)
  PROVE  /\ Head(call[c].todo) \in Allotment /\ Head(call[c].todo).amount \in Nat
         /\ Amount(c) = IF call[c].kind = "delete" THEN -Head(call[c].todo).amount
                        ELSE Head(call[c].todo).amount
<1>1. call[c] \in Job /\ Needs(call[c])
  BY CopiesGood
<1>2. call[c].todo # <<>> /\ call[c].todo \in Seq(Allotment)
  BY <1>1 DEF Needs, Job
<1>3. Head(call[c].todo) \in Allotment
  BY <1>2
<1>4. Head(call[c].todo).amount \in Nat
  BY <1>3 DEF Allotment
<1> QED BY <1>3, <1>4 DEF Amount

\* The request goes on to new after paying x more on order k, or taking x back, of which e is
\* left: what is still to be treated gets x less, and the rest is as it was.
Settles(job, new, k, x, e, old, rows, before, back) ==
  /\ Purchases0[k] # NoOrder /\ (job.kind = "pay" => e = 0)
  /\ rows = [old EXCEPT ![k] = Added(@, IF job.kind = "delete" THEN e - x ELSE x)]
  /\ Paying(job) /\ Paying(new) /\ new.at # "add"
  /\ new.kind = job.kind /\ new.tx = job.tx /\ new.sign = job.sign
  /\ \A p \in Purchases : Purchases0[p] # NoOrder =>
       /\ Rest(new, p) \in Nat
       /\ Rest(job, p) = (IF p = k THEN x ELSE 0) + Rest(new, p)
       /\ Slack(job, before, p) + (IF p = k THEN e ELSE 0) <= Slack(new, back, p)
  /\ new.at = "share" => Copied(new, rows)

\* A row changes by what the request has treated.
LEMMA PaymentKeeps ==
  ASSUME IInv, SteadyInv, steady, PoolsAreSound, NEW c \in Callers, NEW new \in Job, Goes(c, new),
         NEW k \in Purchases, NEW x \in Nat, NEW e \in {0, 1},
         NEW rows, rows = purchases', NEW back \in Nat, back = undone', UNCHANGED <<txs, newTx>>,
         Settles(call[c], new, k, x, e, purchases, rows, undone, back)
  PROVE  SteadyInv'
<1>0. /\ Purchases0[k] # NoOrder /\ (call[c].kind = "pay" => e = 0)
      /\ rows = [purchases EXCEPT ![k] = Added(@, IF call[c].kind = "delete" THEN e - x ELSE x)]
      /\ Paying(call[c]) /\ Paying(new) /\ new.at # "add"
      /\ new.kind = call[c].kind /\ new.tx = call[c].tx /\ new.sign = call[c].sign
      /\ \A p \in Purchases : Purchases0[p] # NoOrder =>
           /\ Rest(new, p) \in Nat
           /\ Rest(call[c], p) = (IF p = k THEN x ELSE 0) + Rest(new, p)
           /\ Slack(call[c], undone, p) + (IF p = k THEN e ELSE 0) <= Slack(new, back, p)
      /\ new.at = "share" => Copied(new, rows)
  BY DEF Settles
<1>1. /\ \A d \in Callers \ {c} : call[d] = Idle
      /\ LikeFirst(purchases)
      /\ \A i \in TxIds : i >= newTx => txs[i] = NoTx
      /\ Sound(call[c], purchases, txs)
      /\ \A p \in Purchases : Account(purchases, p, Owed(call[c], txs, p), Slack(call[c], undone, p))
      /\ txs \in Tables /\ purchases \in Rows
      /\ call[c].kind \in {"pay", "delete"} /\ (call[c].kind = "delete" => call[c].tx \in TxIds)
      /\ call[c].sign = (IF call[c].kind = "delete" THEN -1 ELSE 1)
  BY <1>0, NowPaying
<1>2. PICK amount \in Int : amount = IF call[c].kind = "delete" THEN e - x ELSE x
  <2>1. e - x \in Int /\ x \in Int
    OBVIOUS
  <2>2. \E taken \in BOOLEAN : taken = (call[c].kind = "delete")
    OBVIOUS
  <2> QED BY <2>1, <2>2
<1>3. purchases[k] # NoOrder /\ purchases[k] \in Purchase /\ purchases[k].paid \in Nat
  BY <1>0, <1>1 DEF LikeFirst, Rows, Purchase
<1>4. PICK row : row = Added(purchases[k], amount)
  OBVIOUS
<1>5. /\ row # NoOrder /\ Like(row, purchases[k])
      /\ row.paid = Most(0, purchases[k].paid + amount)
  <2>1. row = [purchases[k] EXCEPT !.paid = Most(0, purchases[k].paid + amount)]
    BY <1>4 DEF Added
  <2>2. Most(0, purchases[k].paid + amount) \in Nat
    BY <1>3 DEF Most
  <2>3. row \in Purchase
    BY <1>3, <2>1, <2>2 DEF Purchase
  <2> QED BY <1>3, <2>1, <2>3, NullAssumption DEF Purchase, Like
<1>6. \A p \in Purchases : rows[p] = IF p = k THEN row ELSE purchases[p]
  BY <1>0, <1>1, <1>2, <1>4 DEF Rows
<1>7. LikeFirst(rows)
  BY <1>1, <1>3, <1>5, <1>6 DEF LikeFirst, Like
<1>8. ASSUME NEW p \in Purchases, rows[p] # NoOrder
      PROVE  rows[p].paid - Owed(new, txs, p) \in 0..Slack(new, back, p)
  <2>1. Purchases0[p] # NoOrder /\ purchases[p] # NoOrder /\ purchases[p].paid \in Nat
    BY <1>1, <1>7, <1>8 DEF LikeFirst, Rows, Purchase
  <2>2. purchases[p].paid - Owed(call[c], txs, p) \in 0..Slack(call[c], undone, p)
    BY <1>1, <2>1 DEF Account
  <2>3. PICK y \in Nat, f \in {0, 1} : /\ y = IF p = k THEN x ELSE 0
                                       /\ f = IF p = k THEN e ELSE 0
    OBVIOUS
  <2>4. PICK owed, s, t : /\ owed = Owed(call[c], txs, p) /\ s = Slack(call[c], undone, p)
                          /\ t = Slack(new, back, p)
    OBVIOUS
  <2>5. s \in Int /\ t \in Int /\ s + f <= t
    <3>1. undone \in Nat
      BY DEF IInv, Books
    <3>2. Slack(call[c], undone, p) + f <= Slack(new, back, p)
      BY <1>0, <2>1, <2>3
    <3>3. s \in {undone, undone - 1} /\ t \in {back, back - 1}
      BY <2>4 DEF Slack
    <3>4. s + f <= t
      BY <2>4, <3>2
    <3> QED BY <3>1, <3>3, <3>4
  <2>6. Rest(new, p) \in Nat /\ Rest(call[c], p) = y + Rest(new, p)
    BY <1>0, <2>1, <2>3
  <2>7. PICK job : job = call[c]
    OBVIOUS
  <2>8. /\ owed \in Int
        /\ Owed(new, txs, p) = IF call[c].kind = "delete" THEN owed - y ELSE owed + y
        /\ call[c].kind = "delete" => owed >= y
    BY <1>0, <1>1, <2>1, <2>4, <2>6, <2>7, OwedChanges
  <2>9. PICK taken \in BOOLEAN : taken = (call[c].kind = "delete")
    OBVIOUS
  <2>10. ~taken => f = 0
    BY <1>0, <1>1, <2>3, <2>9
  <2>11. Most(0, purchases[p].paid + (IF taken THEN f - y ELSE y)) - (IF taken THEN owed - y ELSE owed + y)
           \in 0..(s + f)
    BY <2>1, <2>2, <2>4, <2>5, <2>8, <2>9, <2>10, AccountAdded
  <2>12. rows[p].paid = Most(0, purchases[p].paid + (IF taken THEN f - y ELSE y))
    <3>1. CASE p = k
      BY <1>2, <1>5, <1>6, <2>3, <2>9, <3>1
    <3>2. CASE p # k
      BY <1>6, <2>1, <2>3, <3>2 DEF Most
    <3> QED BY <3>1, <3>2
  <2>13. Owed(new, txs, p) = IF taken THEN owed - y ELSE owed + y
    BY <2>8, <2>9
  <2>14. rows[p].paid - Owed(new, txs, p) \in 0..(s + f)
    BY <2>11, <2>12, <2>13
  <2>15. s + f \in Int /\ t \in Int /\ s + f <= t
    BY <2>5
  <2> QED BY <2>4, <2>14, <2>15
<1>9. Sound(new, rows, txs)
  BY <1>0, <1>1 DEF Sound, Paying
<1>10. PICK table : table = txs
  OBVIOUS
<1>11. \A p \in Purchases : Account(rows, p, Owed(new, table, p), Slack(new, back, p))
  BY <1>8, <1>10 DEF Account
<1> QED BY <1>0, <1>1, <1>7, <1>9, <1>10, <1>11, Onward

\* The next allotment: its order is loaded, or passed over when it is gone.
LEMMA SteadyLoads ==
  ASSUME IInv, SteadyInv, PoolsAreSound, steady', NEW c \in Callers, LoadPurchase(c)
  PROVE  SteadyInv'
<1>1. /\ steady /\ call[c].at = "next" /\ call[c].todo # <<>>
      /\ UNCHANGED <<purchases, undone, txs, newTx>>
  BY DEF LoadPurchase, history, ledger, At
<1>2. Paying(call[c])
  BY <1>1 DEF Paying
<1>3. /\ call[c] \in Job
      /\ \A d \in Callers \ {c} : call[d] = Idle
      /\ LikeFirst(purchases)
      /\ \A i \in TxIds : i >= newTx => txs[i] = NoTx
      /\ Sound(call[c], purchases, txs)
      /\ \A p \in Purchases : Account(purchases, p, Owed(call[c], txs, p), Slack(call[c], undone, p))
      /\ txs \in Tables /\ purchases \in Rows
  BY <1>1, <1>2, NowPaying
<1>4. PICK list \in Seq(Allotment) : list = call[c].todo
  BY <1>3 DEF Job
<1>5. list # <<>> /\ Head(list) \in Allotment /\ Tail(list) \in Seq(Allotment)
  BY <1>1, <1>4
<1>6. PICK p \in Purchases : p = Head(list).order
  BY <1>5 DEF Allotment
<1>7. ASSUME NEW job, Goes(c, job), job.kind = call[c].kind, job.sign = call[c].sign,
             job.tx = call[c].tx, job.at \in {"next", "add"}, job.at = "add" => Copied(job, purchases),
             \A q \in Purchases : purchases[q] # NoOrder => Rest(job, q) = Rest(call[c], q)
      PROVE  SteadyInv'
  <2>1. Sound(job, purchases, txs) /\ Paying(job)
    BY <1>2, <1>3, <1>7 DEF Sound, Paying
  <2>2. ASSUME NEW q \in Purchases
        PROVE  Account(purchases, q, Owed(job, txs, q), Slack(job, undone, q))
    <3> SUFFICES ASSUME purchases[q] # NoOrder
                 PROVE  /\ Owed(job, txs, q) = Owed(call[c], txs, q)
                        /\ Slack(job, undone, q) = Slack(call[c], undone, q)
      BY <1>3 DEF Account
    <3> QED BY <1>1, <1>7 DEF Owed, Slack
  <2>3. PICK rows, table, back : rows = purchases /\ table = txs /\ back = undone
    OBVIOUS
  <2> QED BY <1>1, <1>3, <1>7, <2>1, <2>2, <2>3, Onward
<1>8. CASE purchases[p] = NoOrder
  <2>1. PICK job : job = [call[c] EXCEPT !.todo = Tail(@)]
    OBVIOUS
  <2>2. /\ job.at = "next" /\ job.kind = call[c].kind /\ job.tx = call[c].tx
        /\ job.sign = call[c].sign /\ job.todo = Tail(list)
    BY <1>1, <1>3, <1>4, <2>1 DEF Job
  <2>3. Goes(c, job)
    BY <1>4, <1>6, <1>8, <2>1 DEF LoadPurchase
  <2>4. ASSUME NEW q \in Purchases, purchases[q] # NoOrder PROVE Rest(job, q) = Rest(call[c], q)
    <3>1. Purchases0[q] # NoOrder /\ Purchases0[p] = NoOrder /\ q # p
      BY <1>3, <1>8, <2>4 DEF LikeFirst
    <3>2. Purchases0[q].pool # p
      <4>1. p # NoOrder
        BY NullAssumption
      <4> QED BY <3>1, <4>1 DEF PoolsAreSound
    <3>3. Allotted(q, Head(list)) = 0
      BY <1>6, <3>1, <3>2 DEF Allotted
    <3>4. Listed(list, q) = Allotted(q, Head(list)) + Listed(Tail(list), q) /\ Listed(Tail(list), q) \in Nat
      BY <1>5, <3>1, ListedFirst, ListedTyped
    <3> QED BY <1>1, <1>4, <2>2, <3>3, <3>4 DEF Rest
  <2> QED BY <1>7, <2>2, <2>3, <2>4
<1>9. CASE purchases[p] # NoOrder
  <2>1. PICK copies : copies = [q \in Purchases |-> IF q = p \/ q \in Children(purchases, p)
                                                   THEN purchases[q] ELSE NoOrder]
    OBVIOUS
  <2>2. PICK job : job = [call[c] EXCEPT !.at = "add", !.order = p, !.copies = copies]
    OBVIOUS
  <2>3. /\ job.at = "add" /\ job.kind = call[c].kind /\ job.tx = call[c].tx /\ job.order = p
        /\ job.sign = call[c].sign /\ job.todo = list /\ job.copies = copies
    BY <1>3, <1>4, <2>2 DEF Job
  <2>4. Goes(c, job)
    BY <1>4, <1>6, <1>9, <2>1, <2>2 DEF LoadPurchase, Loading
  <2>5. Copied(job, purchases)
    <3>1. Children(purchases, p) = Pooled0(p)
      BY <1>3, ChildrenAlike
    <3>2. \A q \in Pooled0(p) : Purchases0[q] # NoOrder
      BY DEF Pooled0, Children
    <3>3. \A q \in Purchases : Purchases0[q] # NoOrder =>
            purchases[q] # NoOrder /\ Like(purchases[q], Purchases0[q])
      BY <1>3 DEF LikeFirst
    <3>4. Purchases0[p] # NoOrder
      BY <1>3, <1>9 DEF LikeFirst
    <3>5. \A q \in Purchases : copies[q] = IF q = p \/ q \in Pooled0(p) THEN purchases[q] ELSE NoOrder
      BY <2>1, <3>1
    <3> QED BY <1>6, <2>3, <3>2, <3>3, <3>4, <3>5 DEF Copied
  <2>6. \A q : Rest(job, q) = Rest(call[c], q)
    BY <1>1, <1>4, <2>3 DEF Rest
  <2> QED BY <1>7, <2>3, <2>4, <2>5, <2>6
<1> QED BY <1>8, <1>9

\* Saving an order that still is as it was loaded, with its orders, leaves all rows as they are.
LEMMA SavedAsLoaded ==
  ASSUME LikeFirst(purchases), purchases \in Rows, NEW p \in Purchases
  PROVE  SavedWith(p, purchases[p], Pooled0(p)) = purchases
<1>1. PICK saved : saved = SavedWith(p, purchases[p], Pooled0(p))
  OBVIOUS
<1>2. ASSUME NEW q \in Purchases PROVE saved[q] = purchases[q]
  <2>1. CASE q = p \/ purchases[q] = NoOrder
    BY <1>1, <2>1 DEF SavedWith
  <2>2. CASE q # p /\ purchases[q] # NoOrder
    <3>1. purchases[q] \in Purchase /\ Purchases0[q] # NoOrder /\ purchases[q].pool = Purchases0[q].pool
      BY <2>2 DEF Rows, LikeFirst, Like
    <3>2. q \in Pooled0(p) <=> purchases[q].pool = p
      BY <3>1 DEF Pooled0, Children
    <3>3. purchases[q].pool = p => [purchases[q] EXCEPT !.pool = p] = purchases[q]
      BY <3>1 DEF Purchase
    <3>4. saved[q] = IF q \in Pooled0(p) THEN [purchases[q] EXCEPT !.pool = p]
                     ELSE IF purchases[q].pool = p THEN [purchases[q] EXCEPT !.pool = NoOrder]
                     ELSE purchases[q]
      BY <1>1, <2>2 DEF SavedWith
    <3> QED BY <3>2, <3>3, <3>4
  <2> QED BY <2>1, <2>2
<1>3. saved = [q \in Purchases |-> saved[q]]
  BY <1>1 DEF SavedWith
<1>4. purchases = [q \in Purchases |-> purchases[q]]
  BY DEF Rows
<1> QED BY <1>1, <1>2, <1>3, <1>4

\* What the first allotment allocates: its amount to its order, and shares to the orders that
\* this one pools.
LEMMA FirstAllotted ==
  ASSUME PoolsAreSound, NEW p \in Purchases, NEW a \in Allotment, a.order = p
  PROVE  /\ Allotted(p, a) = a.amount
         /\ \A q \in Pooled0(p) : q # p /\ Allotted(q, a) = Share(a.amount, Purchases0, p, q)
         /\ \A q \in Purchases : q # p /\ Purchases0[q] # NoOrder /\ q \notin Pooled0(p) =>
              Allotted(q, a) = 0
<1>1. \A q \in Pooled0(p) : q # p /\ Purchases0[q].pool = p
  BY PoolsApart
<1>2. \A q \in Purchases : Purchases0[q] # NoOrder /\ q \notin Pooled0(p) => Purchases0[q].pool # p
  BY DEF Pooled0, Children
<1> QED BY <1>1, <1>2 DEF Allotted

LEMMA SteadyAdds ==
  ASSUME IInv, SteadyInv, PoolsAreSound, steady', NEW c \in Callers, AddPayment(c)
  PROVE  SteadyInv'
<1>1. steady /\ call[c].at = "add" /\ UNCHANGED <<txs, newTx>>
  BY DEF AddPayment, history, ledger, At
<1>2. Paying(call[c])
  BY <1>1 DEF Paying
<1>3. /\ call[c] \in Job /\ Needs(call[c]) /\ LikeFirst(purchases)
      /\ Sound(call[c], purchases, txs) /\ purchases \in Rows
      /\ call[c].kind \in {"pay", "delete"} /\ call[c].sign = (IF call[c].kind = "delete" THEN -1 ELSE 1)
  BY <1>1, <1>2, NowPaying
<1>4. PICK p, a, list : p = call[c].order /\ a = Head(list) /\ list = call[c].todo
  OBVIOUS
<1>5. /\ list \in Seq(Allotment) /\ list # <<>> /\ p \in Purchases
      /\ a \in Allotment /\ a.amount \in Nat /\ a.order = p
  <2>1. Copied(call[c], purchases)
    BY <1>1, <1>3 DEF Sound
  <2>2. call[c].todo \in Seq(Allotment) /\ call[c].todo # <<>> /\ call[c].order \in Purchases
    BY <1>1, <1>3 DEF Job, Needs
  <2> QED BY <1>1, <1>3, <1>4, <2>1, <2>2, AmountIs DEF Copied
<1>6. /\ Children(call[c].copies, p) = Pooled0(p)
      /\ Copy(c) = purchases[p] /\ Purchases0[p] # NoOrder /\ purchases[p] # NoOrder
      /\ \A k \in Pooled0(p) : call[c].copies[k] = purchases[k]
      /\ Like(purchases[p], Purchases0[p]) /\ purchases[p] \in Purchase
  <2>1. Copied(call[c], purchases)
    BY <1>1, <1>3 DEF Sound
  <2>2. Children(call[c].copies, p) = Pooled0(p)
    BY <1>4, <1>5, <2>1, ChildrenCopied
  <2>3. Pooled0(p) \subseteq Purchases
    BY DEF Pooled0, Children
  <2>4. \A q \in Purchases : q = p \/ q \in Pooled0(p) =>
          call[c].copies[q] # NoOrder /\ call[c].copies[q] = purchases[q] /\ Purchases0[q] # NoOrder
    BY <1>1, <1>4, <2>1 DEF Copied
  <2>5. Copy(c) = purchases[p] /\ purchases[p] # NoOrder
    BY <1>4, <1>5, <2>4 DEF Copy
  <2>6. purchases[p] \in Purchase /\ Like(purchases[p], Purchases0[p])
    BY <1>3, <1>5, <2>5 DEF Rows, LikeFirst
  <2> QED BY <1>5, <2>2, <2>3, <2>4, <2>5, <2>6
<1>7. ~Refused(Copy(c))
  BY <1>3, <1>5, <1>6, NotRefused DEF Like
<1>8. /\ SaveAdded(p, purchases[p], Amount(c), purchases)
      /\ undone' = (IF call[c].sign = -1 THEN undone + 1 ELSE undone)
      /\ Goes(c, Treated(c, Sharers(c)))
  <2>1. Kids(c) = Pooled0(p)
    BY <1>4, <1>6 DEF Kids
  <2>2. SavedWith(p, Copy(c), Kids(c)) = purchases
    BY <1>3, <1>5, <1>6, <2>1, SavedAsLoaded
  <2> QED BY <1>4, <1>6, <1>7, <2>2 DEF AddPayment
<1>9. PICK kids : kids = Sharers(c)
  OBVIOUS
<1>10. kids = Pooled0(p) /\ kids \subseteq Children(call[c].copies, call[c].order)
  <2>1. Kids(c) = Pooled0(p)
    BY <1>4, <1>6 DEF Kids
  <2>2. CASE purchases[p].pooled
    BY <1>4, <1>6, <1>9, <2>1, <2>2 DEF Sharers
  <2>3. CASE ~purchases[p].pooled
    <3>1. Pooled0(p) = {}
      BY <1>5, <1>6, <2>3, PoolsApart DEF Like
    <3> QED BY <1>6, <1>9, <2>3, <3>1 DEF Sharers
  <2> QED BY <2>2, <2>3
<1>11. \E new \in Job :
           /\ new = Treated(c, kids) /\ Paying(new)
           /\ new.kind = call[c].kind /\ new.tx = call[c].tx /\ new.sign = call[c].sign
           /\ \A q \in Purchases : Purchases0[q] # NoOrder =>
                Rest(new, q) = Listed(Tail(call[c].todo), q)
                               + (IF q \in kids THEN Allotted(q, Head(call[c].todo)) ELSE 0)
           /\ IF kids = {} THEN new.at = "next"
              ELSE /\ new.at = "share" /\ new.kids = kids /\ new.order = call[c].order
                   /\ new.copies = call[c].copies /\ new.todo = call[c].todo
  BY <1>1, <1>10, TreatedRest
<1>12. PICK new \in Job :
           /\ new = Treated(c, kids) /\ Paying(new)
           /\ new.kind = call[c].kind /\ new.tx = call[c].tx /\ new.sign = call[c].sign
           /\ \A q \in Purchases : Purchases0[q] # NoOrder =>
                Rest(new, q) = Listed(Tail(list), q) + (IF q \in kids THEN Allotted(q, a) ELSE 0)
           /\ IF kids = {} THEN new.at = "next"
              ELSE /\ new.at = "share" /\ new.kids = kids /\ new.order = p
                   /\ new.copies = call[c].copies /\ new.todo = list
  BY <1>4, <1>11
<1>13. PICK rows : rows = purchases'
  OBVIOUS
<1>14. rows = [purchases EXCEPT ![p] = Added(@, IF call[c].kind = "delete" THEN 0 - a.amount ELSE a.amount)]
  <2>1. Amount(c) = IF call[c].kind = "delete" THEN 0 - a.amount ELSE a.amount
    BY <1>1, <1>3, <1>4, <1>5, AmountIs
  <2> QED BY <1>8, <1>13, <2>1 DEF SaveAdded
<1>15. PICK back \in Nat : back = undone' /\ back = IF call[c].kind = "delete" THEN undone + 1 ELSE undone
  <2>1. undone \in Nat
    BY DEF IInv, Books
  <2> QED BY <1>3, <1>8, <2>1
<1>16. ASSUME NEW q \in Purchases, Purchases0[q] # NoOrder
       PROVE  /\ Rest(new, q) \in Nat
              /\ Rest(call[c], q) = (IF q = p THEN a.amount ELSE 0) + Rest(new, q)
              /\ Slack(call[c], undone, q) + (IF q = p THEN 0 ELSE 0) <= Slack(new, back, q)
  <2>1. Listed(list, q) = Allotted(q, a) + Listed(Tail(list), q) /\ Listed(Tail(list), q) \in Nat
        /\ Allotted(q, a) \in Nat
    <3>1. Tail(list) \in Seq(Allotment)
      BY <1>5
    <3> QED BY <1>4, <1>5, <1>16, <3>1, ListedFirst, ListedTyped, AllottedTyped
  <2>2. Rest(call[c], q) = Listed(list, q)
    BY <1>1, <1>4 DEF Rest
  <2>3. Rest(new, q) = Listed(Tail(list), q) + (IF q \in kids THEN Allotted(q, a) ELSE 0)
    BY <1>12, <1>16
  <2>4. /\ q = p => Allotted(q, a) = a.amount /\ q \notin kids
        /\ q # p /\ q \notin kids => Allotted(q, a) = 0
    BY <1>5, <1>10, <1>16, FirstAllotted
  <2>5. Slack(call[c], undone, q) = undone /\ undone <= Slack(new, back, q) /\ undone \in Nat
    <3>1. undone \in Nat /\ Slack(call[c], undone, q) = undone
      BY <1>1 DEF IInv, Books, Slack
    <3>2. Slack(new, back, q) \in {back - 1, back} /\ (call[c].kind # "delete" => Slack(new, back, q) = back)
      BY <1>12 DEF Slack
    <3> QED BY <1>15, <3>1, <3>2
  <2>6. Rest(new, q) \in Nat
    BY <1>5, <2>1, <2>3
  <2>7. Rest(call[c], q) = (IF q = p THEN a.amount ELSE 0) + Rest(new, q)
    BY <1>5, <2>1, <2>2, <2>3, <2>4
  <2> QED BY <2>5, <2>6, <2>7
<1>17. ASSUME new.at = "share" PROVE Copied(new, rows)
  <2>1. kids # {} /\ new.kids = kids /\ new.order = p /\ new.copies = call[c].copies /\ new.todo = list
    BY <1>12, <1>17
  <2>2. Copied(call[c], purchases)
    BY <1>1, <1>3 DEF Sound
  <2>3. Purchases0[p].pooled
    BY <1>5, <1>10, <2>1, PoolsApart
  <2>4. \A k \in kids : k # p /\ new.copies[k] = rows[k]
    <3>1. \A k \in kids : k # p /\ k \in Purchases
      BY <1>5, <1>10, PoolsApart
    <3>2. \A k \in kids : rows[k] = purchases[k]
      BY <1>3, <1>14, <3>1 DEF Rows
    <3> QED BY <1>6, <1>10, <2>1, <3>1, <3>2
  <2> QED BY <1>4, <1>17, <2>1, <2>2, <2>3, <2>4 DEF Copied
<1>18. new.at # "add" /\ Goes(c, new)
  BY <1>8, <1>9, <1>12
<1>19. PICK x \in Nat, e \in {0, 1} : x = a.amount /\ e = 0
  BY <1>5
<1>20. rows = [purchases EXCEPT ![p] = Added(@, IF call[c].kind = "delete" THEN e - x ELSE x)]
  BY <1>14, <1>19
<1>21. \A q \in Purchases : Purchases0[q] # NoOrder =>
         /\ Rest(new, q) \in Nat
         /\ Rest(call[c], q) = (IF q = p THEN x ELSE 0) + Rest(new, q)
         /\ Slack(call[c], undone, q) + (IF q = p THEN e ELSE 0) <= Slack(new, back, q)
  BY <1>16, <1>19
<1>22. Settles(call[c], new, p, x, e, purchases, rows, undone, back)
  BY <1>2, <1>6, <1>12, <1>17, <1>18, <1>19, <1>20, <1>21 DEF Settles
<1> QED BY <1>1, <1>5, <1>13, <1>15, <1>18, <1>22, PaymentKeeps

\* The next order of a pool gets its share, or gives it back; the rounding may leave it one more.
LEMMA SteadyShares ==
  ASSUME IInv, SteadyInv, PoolsAreSound, steady', NEW c \in Callers, AddShare(c)
  PROVE  SteadyInv'
<1>1. steady /\ call[c].at = "share" /\ UNCHANGED <<undone, txs, newTx>>
  BY DEF AddShare, history, ledger, At
<1>2. Paying(call[c])
  BY <1>1 DEF Paying
<1>3. /\ call[c] \in Job /\ Needs(call[c]) /\ LikeFirst(purchases)
      /\ Sound(call[c], purchases, txs) /\ purchases \in Rows
      /\ call[c].kind \in {"pay", "delete"} /\ call[c].sign = (IF call[c].kind = "delete" THEN -1 ELSE 1)
  BY <1>1, <1>2, NowPaying
<1>4. PICK p, a, list : p = call[c].order /\ a = Head(list) /\ list = call[c].todo
  OBVIOUS
<1>5. /\ list \in Seq(Allotment) /\ list # <<>> /\ p \in Purchases
      /\ a \in Allotment /\ a.amount \in Nat /\ a.order = p
      /\ Amount(c) = IF call[c].kind = "delete" THEN -a.amount ELSE a.amount
  <2>1. Copied(call[c], purchases)
    BY <1>1, <1>3 DEF Sound
  <2>2. call[c].todo \in Seq(Allotment) /\ call[c].todo # <<>> /\ call[c].order \in Purchases
    BY <1>1, <1>3 DEF Job, Needs
  <2> QED BY <1>1, <1>3, <1>4, <2>1, <2>2, AmountIs DEF Copied
<1>6. /\ Children(call[c].copies, p) = Pooled0(p) /\ Purchases0[p] # NoOrder /\ Purchases0[p].pooled
      /\ call[c].copies[p].total = Purchases0[p].total
      /\ \A q \in Pooled0(p) : call[c].copies[q].total = Purchases0[q].total
      /\ \A q \in call[c].kids : call[c].copies[q] = purchases[q]
      /\ call[c].kids \subseteq Pooled0(p)
  <2>1. Copied(call[c], purchases)
    BY <1>1, <1>3 DEF Sound
  <2>2. Children(call[c].copies, p) = Pooled0(p)
    BY <1>4, <1>5, <2>1, ChildrenCopied
  <2>3. Pooled0(p) \subseteq Purchases
    BY DEF Pooled0, Children
  <2>4. call[c].kids \subseteq Pooled0(p)
    BY <1>1, <1>3, <1>4, <2>2 DEF Needs
  <2> QED BY <1>1, <1>4, <1>5, <2>1, <2>2, <2>3, <2>4 DEF Copied, Like
<1>7. PICK k \in call[c].kids :
        LET row == call[c].copies[k]
        IN IF Refused(row) THEN Ends(c) /\ UNCHANGED <<purchases, given>>
           ELSE /\ SaveAdded(k, row, Share(Amount(c), call[c].copies, call[c].order, k), purchases)
                /\ Goes(c, Treated(c, call[c].kids \ {k}))
  BY <1>1 DEF AddShare
<1>8. /\ k \in Pooled0(p) /\ k \in Purchases /\ Purchases0[k] # NoOrder /\ k # p
      /\ call[c].copies[k] = purchases[k] /\ purchases[k] # NoOrder
      /\ purchases[k] \in Purchase /\ Like(purchases[k], Purchases0[k])
  BY <1>3, <1>5, <1>6, PoolsApart DEF LikeFirst, Rows
<1>9. PICK kids : kids = call[c].kids \ {k}
  OBVIOUS
<1>10. /\ SaveAdded(k, purchases[k], Share(Amount(c), Purchases0, p, k), purchases)
       /\ Goes(c, Treated(c, kids))
  <2>1. ~Refused(purchases[k])
    BY <1>3, <1>8, NotRefused DEF Like
  <2>2. Share(Amount(c), call[c].copies, p, k) = Share(Amount(c), Purchases0, p, k)
    BY <1>6, <1>8, ShareAlike
  <2> QED BY <1>4, <1>7, <1>8, <1>9, <2>1, <2>2
<1>11. PICK new \in Job :
           /\ new = Treated(c, kids) /\ Paying(new)
           /\ new.kind = call[c].kind /\ new.tx = call[c].tx /\ new.sign = call[c].sign
           /\ \A q \in Purchases : Purchases0[q] # NoOrder =>
                Rest(new, q) = Listed(Tail(list), q) + (IF q \in kids THEN Allotted(q, a) ELSE 0)
           /\ IF kids = {} THEN new.at = "next"
              ELSE /\ new.at = "share" /\ new.kids = kids /\ new.order = p
                   /\ new.copies = call[c].copies /\ new.todo = list
  <2>1. kids \subseteq Children(call[c].copies, call[c].order)
    BY <1>4, <1>6, <1>9
  <2>2. \E new \in Job :
           /\ new = Treated(c, kids) /\ Paying(new)
           /\ new.kind = call[c].kind /\ new.tx = call[c].tx /\ new.sign = call[c].sign
           /\ \A q \in Purchases : Purchases0[q] # NoOrder =>
                Rest(new, q) = Listed(Tail(call[c].todo), q)
                               + (IF q \in kids THEN Allotted(q, Head(call[c].todo)) ELSE 0)
           /\ IF kids = {} THEN new.at = "next"
              ELSE /\ new.at = "share" /\ new.kids = kids /\ new.order = call[c].order
                   /\ new.copies = call[c].copies /\ new.todo = call[c].todo
    BY <1>1, <2>1, TreatedRest
  <2> QED BY <1>4, <2>2
<1>12. PICK x \in Nat, e \in {0, 1} :
         /\ x = Share(a.amount, Purchases0, p, k) /\ x = Allotted(k, a)
         /\ Share(Amount(c), Purchases0, p, k) = (IF call[c].kind = "delete" THEN e - x ELSE x)
         /\ call[c].kind = "pay" => e = 0
  <2>1. /\ Share(a.amount, Purchases0, p, k) \in Nat
        /\ Share(-a.amount, Purchases0, p, k) + Share(a.amount, Purchases0, p, k) \in {0, 1}
        /\ Share(-a.amount, Purchases0, p, k) \in Int
    BY <1>5, <1>6, <1>8, ShareBack
  <2>2. PICK x \in Nat, y \in Int : /\ x = Share(a.amount, Purchases0, p, k)
                                    /\ y = Share(-a.amount, Purchases0, p, k)
    BY <2>1
  <2>3. x = Allotted(k, a)
    BY <1>5, <1>8, <2>2, FirstAllotted
  <2>4. y + x \in {0, 1} /\ y = (y + x) - x
    BY <2>1, <2>2
  <2>5. CASE call[c].kind = "delete"
    <3>1. Share(Amount(c), Purchases0, p, k) = y
      BY <1>5, <2>2, <2>5
    <3> QED BY <2>2, <2>3, <2>4, <2>5, <3>1
  <2>6. CASE call[c].kind # "delete"
    <3>1. Share(Amount(c), Purchases0, p, k) = x
      BY <1>5, <2>2, <2>6
    <3> QED BY <2>2, <2>3, <2>6, <3>1
  <2> QED BY <2>5, <2>6
<1>13. PICK rows, back : rows = purchases' /\ back = undone'
  OBVIOUS
<1>14. rows = [purchases EXCEPT ![k] = Added(@, IF call[c].kind = "delete" THEN e - x ELSE x)]
  BY <1>10, <1>12, <1>13 DEF SaveAdded
<1>15. undone \in Nat /\ back = undone
  BY <1>1, <1>13 DEF IInv, Books
<1>16. ASSUME NEW q \in Purchases, Purchases0[q] # NoOrder
       PROVE  /\ Rest(new, q) \in Nat
              /\ Rest(call[c], q) = (IF q = k THEN x ELSE 0) + Rest(new, q)
              /\ Slack(call[c], undone, q) + (IF q = k THEN e ELSE 0) <= Slack(new, back, q)
  <2>1. Listed(Tail(list), q) \in Nat /\ Allotted(q, a) \in Nat
    <3>1. Tail(list) \in Seq(Allotment)
      BY <1>5
    <3> QED BY <1>5, <1>16, <3>1, ListedTyped, AllottedTyped
  <2>2. Rest(call[c], q) = Listed(Tail(list), q) + (IF q \in call[c].kids THEN Allotted(q, a) ELSE 0)
    BY <1>1, <1>4 DEF Rest
  <2>3. Rest(new, q) = Listed(Tail(list), q) + (IF q \in kids THEN Allotted(q, a) ELSE 0)
    BY <1>11, <1>16
  <2>4. q \in call[c].kids <=> q = k \/ q \in kids
    BY <1>9
  <2>5. k \notin kids
    BY <1>9
  <2>6. Rest(new, q) \in Nat
    BY <2>1, <2>3
  <2>7. Rest(call[c], q) = (IF q = k THEN x ELSE 0) + Rest(new, q)
    <3>1. CASE q = k
      BY <1>12, <2>1, <2>2, <2>3, <2>5, <3>1
    <3>2. CASE q # k
      BY <2>1, <2>2, <2>3, <2>4, <3>2
    <3> QED BY <3>1, <3>2
  <2>8. Slack(call[c], undone, q) + (IF q = k THEN e ELSE 0) <= Slack(new, back, q)
    <3>1. new.kind = call[c].kind /\ (new.at = "share" => new.kids = kids)
      BY <1>11
    <3>2. CASE call[c].kind = "delete"
      <4>1. Slack(call[c], undone, q) = IF q \in call[c].kids THEN undone - 1 ELSE undone
        BY <1>1, <3>2 DEF Slack
      <4>2. Slack(new, back, q) = undone \/ (q \in kids /\ Slack(new, back, q) = undone - 1)
        BY <1>15, <3>1 DEF Slack
      <4>3. CASE q = k
        BY <1>15, <2>4, <2>5, <4>1, <4>2, <4>3
      <4>4. CASE q # k
        BY <1>15, <2>4, <4>1, <4>2, <4>4
      <4> QED BY <4>3, <4>4
    <3>3. CASE call[c].kind # "delete"
      <4>1. Slack(call[c], undone, q) = undone /\ Slack(new, back, q) = undone /\ e = 0
        BY <1>3, <1>12, <1>15, <3>1, <3>3 DEF Slack
      <4> QED BY <1>15, <4>1
    <3> QED BY <3>2, <3>3
  <2> QED BY <2>6, <2>7, <2>8
<1>17. ASSUME new.at = "share" PROVE Copied(new, rows)
  <2>1. new.kids = kids /\ new.order = p /\ new.copies = call[c].copies /\ new.todo = list
    BY <1>11, <1>17
  <2>2. Copied(call[c], purchases)
    BY <1>1, <1>3 DEF Sound
  <2>3. \A q \in kids : new.copies[q] = rows[q]
    <3>1. \A q \in kids : q # k /\ q \in Purchases
      BY <1>6, <1>9 DEF Pooled0, Children
    <3>2. \A q \in kids : rows[q] = purchases[q]
      BY <1>3, <1>14, <3>1 DEF Rows
    <3> QED BY <1>6, <1>9, <2>1, <3>2
  <2>4. /\ p = a.order /\ new.at # "add"
        /\ \A q \in Purchases :
             IF q = p \/ q \in Pooled0(p)
             THEN /\ call[c].copies[q] # NoOrder /\ Purchases0[q] # NoOrder
                  /\ Like(call[c].copies[q], Purchases0[q])
             ELSE call[c].copies[q] = NoOrder
    BY <1>4, <1>5, <1>17, <2>2 DEF Copied
  <2> QED BY <1>4, <1>6, <1>17, <2>1, <2>3, <2>4 DEF Copied
<1>18. new.at # "add" /\ Goes(c, new)
  BY <1>10, <1>11
<1>19. Settles(call[c], new, k, x, e, purchases, rows, undone, back)
  BY <1>2, <1>8, <1>11, <1>12, <1>14, <1>16, <1>17, <1>18 DEF Settles
<1> QED BY <1>1, <1>8, <1>13, <1>15, <1>18, <1>19, PaymentKeeps

\* Changes of prices and pools start no steady step.
LEMMA Unsteady ==
  ASSUME IInv, NEW c \in Callers, Edit(c) \/ Pool(c) \/ Remove(c) \/ Clear(c)
  PROVE  ~steady'
BY DEF Edit, Pool, Remove, Clear, Begins

\* Nor is a request at work on prices or pools while all is steady.
LEMMA NoPoolWork ==
  ASSUME SteadyInv, NEW c \in Callers,
         SavePrice(c) \/ LoadPool(c) \/ SavePool(c) \/ Link(c) \/ Unlink(c) \/ DeletePurchase(c)
         \/ ClearOutsourced(c) \/ DeletePools(c)
  PROVE  ~steady'
<1>1. /\ call[c].at \in {"price", "pool", "total", "link", "unlink", "outsourced", "clear"}
      /\ steady' = steady
  BY DEF SavePrice, LoadPool, SavePool, Link, Unlink, DeletePurchase, ClearOutsourced, DeletePools, At,
         history
<1>2. ASSUME steady PROVE FALSE
  <2>1. Sound(call[c], purchases, txs)
    BY <1>2 DEF SteadyInv
  <2> QED BY <1>1, <2>1 DEF Sound
<1> QED BY <1>1, <1>2

LEMMA SteadyStep ==
  ASSUME IInv, SteadyInv, PoolsAreSound, [Next]_vars
  PROVE  SteadyInv'
<1>1. CASE ~steady'
  BY <1>1 DEF SteadyInv
<1>2. CASE UNCHANGED vars
  BY <1>2 DEF vars, SteadyInv, LikeFirst, Sound, Copied, Paying, Account, Owed,
              Recorded, Entry, Rest, Slack
<1>3. CASE steady' /\ Next
  <2>1. PICK c \in Callers : FinanceStep(c) \/ PurchaseStep(c) \/ SaleStep(c)
    BY <1>3 DEF Next
  <2>2. CASE FinanceStep(c)
    BY <1>3, <2>2, SteadyPays, SteadyReceives, SteadyCorrects, SteadyPrices, SteadyApproves,
       SteadySyncs, SteadyDeletes, SteadyErases DEF FinanceStep
  <2>3. CASE PurchaseStep(c)
    BY <1>3, <2>3, SteadyLoads, SteadyAdds, SteadyShares, Unsteady, NoPoolWork DEF PurchaseStep
  <2>4. CASE SaleStep(c)
    BY <1>3, <2>4, SteadyPrices, SteadySyncs DEF SaleStep
  <2> QED BY <2>1, <2>2, <2>3, <2>4
<1> QED BY <1>1, <1>2, <1>3

\* A beginning whose books agree is a steady one.
LEMMA SteadyAtFirst ==
  ASSUME Init, PaidIsAllocated, PoolsAreSound
  PROVE  SteadyInv
<1>1. IInv
  BY StartsGood
<1>2. /\ purchases = Purchases0 /\ undone = 0 /\ steady = TRUE /\ Quiet
      /\ call = [c \in Callers |-> Idle] /\ newTx = Len(Transactions0) + 1
      /\ txs = [i \in TxIds |-> IF i \in DOMAIN Transactions0 THEN Transactions0[i] ELSE NoTx]
  BY DEF Init, Quiet
<1>3. PICK n \in 0..MaxTx : Transactions0 \in [1..n -> Transaction]
  BY TransactionsAssumption
<1>4. Len(Transactions0) = n /\ DOMAIN Transactions0 = 1..n
  BY <1>3
<1>5. LikeFirst(purchases)
  BY <1>2 DEF LikeFirst, Like
<1>7. \A i \in TxIds : i >= newTx => txs[i] = NoTx
  BY <1>2, <1>3, <1>4, BoundsAssumption DEF TxIds
<1>8. \A c \in Callers : call[c] = Idle
  BY <1>2
<1>9. \A c \in Callers : Sound(call[c], purchases, txs) /\ ~Paying(call[c])
  BY <1>8, IdleSound
<1>10. ASSUME NEW p \in Purchases PROVE Account(purchases, p, Recorded(txs, p), undone)
  <2> SUFFICES ASSUME purchases[p] # NoOrder
               PROVE  purchases[p].paid - Recorded(txs, p) \in 0..undone
    BY DEF Account
  <2>1. purchases[p].paid - Sum([i \in TxIds |-> SharesOf(i, p)], TxIds) \in 0..undone
    BY <1>2 DEF PaidIsAllocated
  <2> QED BY <1>1, <1>5, <2>1, SharesRecorded
<1> QED BY <1>5, <1>7, <1>8, <1>9, <1>10 DEF SteadyInv

\* While requests come one by one, pools and prices stay, and no receipt, note or correction changes
\* what deleting the expenses would take back, the paid amount of every purchase order is what
\* deleting them would take back from it, and at most one more for every allotment that was taken
\* back (createPOPayment, deleteTransaction, updatePayment and updatePaymentById): however many
\* payments there are, whatever they pay and however many orders a pool has.  It needs books that
\* agree at first, and pools that are no orders of others.
THEOREM PaidStaysAllocated ==
  ASSUME PoolsAreSound
  PROVE  Spec /\ PaidIsAllocated => []PaidIsAllocated
<1>1. Init /\ PaidIsAllocated => SteadyInv
  BY SteadyAtFirst
<1>2. IInv /\ SteadyInv /\ [Next]_vars => SteadyInv'
  BY SteadyStep
<1>3. IInv /\ SteadyInv => PaidIsAllocated
  <2> SUFFICES ASSUME IInv, SteadyInv, steady, Quiet, NEW p \in Purchases, purchases[p] # NoOrder
               PROVE  purchases[p].paid - Sum([i \in TxIds |-> SharesOf(i, p)], TxIds) \in 0..undone
    BY DEF PaidIsAllocated
  <2>1. \A c \in Callers : ~Paying(call[c])
    BY IdleSound DEF Quiet
  <2>2. LikeFirst(purchases) /\ Account(purchases, p, Recorded(txs, p), undone)
    BY <2>1 DEF SteadyInv
  <2>3. Sum([i \in TxIds |-> SharesOf(i, p)], TxIds) = Recorded(txs, p)
    BY <2>2, SharesRecorded
  <2> QED BY <2>2, <2>3 DEF Account
<1> QED BY <1>1, <1>2, <1>3, InvHolds, PTL DEF Spec
=============================================================================
