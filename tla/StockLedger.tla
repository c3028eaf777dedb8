--------------------------- MODULE StockLedger ---------------------------
(***************************************************************************)
(* Stock and its documents: InventoryService.  A request moves stock with  *)
(* adjustStock and adjustSupplierStock, one move after another, and each   *)
(* move reads, computes and writes in separate statements outside any      *)
(* transaction, so requests interleave between all of them.                *)
(***************************************************************************)
EXTENDS SequencesExt, Sums

CONSTANTS
  Materials,
  Products,    \* variants of one product: any may be converted into any other
  Suppliers,   \* suppliers that hold materials of ours
  Receipts,    \* goods receipts of one purchase order of Suppliers' goods
  Exports,     \* sales deliveries
  Issues,      \* goods issues to a supplier
  PoItems,     \* the items of the purchase order
  Ordered,     \* the quantity ordered of each
  Lines,       \* the lines of each document: sequences of [item, qty, po], of which po is
               \* the item of the order a line of a receipt is for, or NoRow
  SupplierOf,  \* the supplier a receipt comes from, or an issue goes to
  Parts,       \* the component products of a combo; {} for other products
  Bom,         \* the materials one piece of a product is made of
  Callers,     \* requests that may be in progress at once
  Kinds,       \* kinds of request the users make
  MaxQty,      \* largest quantity adjusted, transferred or converted by hand
  MaxCalls,    \* bound: requests in a behaviour
  NoRow,       \* no such row
  MayFail      \* a request may end early: database error or stopped process

Items == Materials \cup Products
Warehouses == {"KHO_NPL", "KHO_TP", "KHO_BTP", "KHO_MAU"}
Places == Warehouses \cup Suppliers
Docs == Receipts \cup Exports \cup Issues
AllKinds ==
  {"adjust", "transfer", "convert", "confirm", "deliver", "edit", "mail", "delete", "reset"}

ASSUME LinesAssumption ==
  \A d \in Docs :
    Lines[d] \in Seq([item : Items, qty : Nat, po : PoItems \cup {NoRow}]) \ {<<>>}
\* An order without items keeps its status: updatePODeliveryStatus returns early.
ASSUME OrderAssumption == PoItems # {} /\ Ordered \in [PoItems -> Nat]
ASSUME DocsAssumption ==
  /\ IsFiniteSet(Receipts)
  /\ Issues \cap (Receipts \cup Exports) = {} /\ Receipts \cap Exports = {}
  /\ "none" \notin Docs
ASSUME SuppliersAssumption ==
  /\ Suppliers \cap Warehouses = {}
  /\ \A d \in Receipts \cup Issues : SupplierOf[d] \in Suppliers
ASSUME NoRowAssumption == NoRow \notin Int
ASSUME KindsAssumption == Kinds \subseteq AllKinds
ASSUME BoundsAssumption == MaxQty \in Nat /\ MaxCalls \in Nat /\ MayFail \in BOOLEAN

VARIABLES
  stock,     \* rows of inventory_stocks and supplier_stocks: a quantity, or NoRow
  twins,     \* further rows of supplier_stocks for the same supplier and material
  total,     \* quantity_in_stock of the products and materials
  ledger,    \* sum of the changes in stock_history and supplier_transactions
  status,    \* status of each document; an export that is PENDING_EXPORT is a DRAFT here
  debt,      \* debt of each supplier
  poStatus,  \* status of the purchase order
  call,      \* what each request in progress is doing
  moved,     \* history: moves that were saved for each document
  calls      \* requests made so far

vars == <<stock, twins, total, ledger, status, debt, poStatus, call, moved, calls>>
books == <<stock, twins, total, ledger, moved>>
papers == <<status, debt, poStatus>>

-----------------------------------------------------------------------------
(* Quantities and moves *)

Qty(row) == IF row = NoRow THEN 0 ELSE row
Counted == Warehouses \ {"KHO_MAU"}
SumOf(i) == Sum([p \in Counted |-> Qty(stock[i][p])], Counted)

Move(i, p, n) == [item |-> i, place |-> p, change |-> n]

\* What a receipt brings of the items P of the order, and what it costs at a price of one.
Brought(d, P) ==
  Sum([n \in DOMAIN Lines[d] |-> IF Lines[d][n].po \in P THEN Lines[d][n].qty ELSE 0],
      DOMAIN Lines[d])
OrderedQty(d) == Brought(d, PoItems)

\* A product that was not ordered as such is half finished.  A received product was made
\* of materials the supplier held.
ReceiptMoves(d, line) ==
  IF line.item \in Materials THEN <<Move(line.item, "KHO_NPL", line.qty)>>
  ELSE <<Move(line.item, IF line.po \in PoItems THEN "KHO_TP" ELSE "KHO_BTP", line.qty)>>
         \o [n \in 1..Cardinality(Bom[line.item]) |->
              Move(SetToSeq(Bom[line.item])[n], SupplierOf[d], -line.qty)]

\* A combo leaves the warehouse as its parts.
ExportMoves(line) ==
  IF Parts[line.item] = {} THEN <<Move(line.item, "KHO_TP", -line.qty)>>
  ELSE [n \in 1..Cardinality(Parts[line.item]) |->
         Move(SetToSeq(Parts[line.item])[n], "KHO_TP", -line.qty)]

IssueMoves(d, line) ==
  <<Move(line.item, "KHO_NPL", -line.qty), Move(line.item, SupplierOf[d], line.qty)>>

LineMoves(d, line) ==
  IF d \in Receipts THEN ReceiptMoves(d, line)
  ELSE IF d \in Exports THEN ExportMoves(line)
  ELSE IssueMoves(d, line)

Moves(d) == FlattenSeq([n \in DOMAIN Lines[d] |-> LineMoves(d, Lines[d][n])])

AllMoves == [item : Items, place : Places, change : Int]
\* Every line of a document makes a move.
ASSUME MovesAssumption == \A d \in Docs : Moves(d) \in Seq(AllMoves) \ {<<>>}

\* What the receipts R brought of the items P.
ReceivedOf(R, P) == Sum([d \in Receipts |-> Brought(d, P)], R)
Received(R) == ReceivedOf(R, PoItems)

\* Mutation: the quantities of the items are compared in one sum.
PoStatusOfSum(R, was) ==
  IF Received(R) * 100 >= Sum(Ordered, PoItems) * 95 THEN "DELIVERED"
  ELSE IF Received(R) > 0 THEN "PARTIAL_DELIVERED"
  ELSE was

\* The status the completed receipts R give an order that was loaded as `was': each of its
\* items must have come, with 5% tolerance.
PoStatusFor(R, was) ==
  IF \A p \in PoItems : ReceivedOf(R, {p}) * 100 >= Ordered[p] * 95 THEN "DELIVERED"
  ELSE IF \E p \in PoItems : ReceivedOf(R, {p}) > 0 THEN "PARTIAL_DELIVERED"
  ELSE was

-----------------------------------------------------------------------------
(* Requests *)

NoDoc == "none"
Idle == [kind |-> "none", doc |-> NoDoc, at |-> "idle", todo |-> <<>>, seen |-> NoRow]

Quiet == \A c \in Callers : call[c] = Idle

Begin(c, kind, d, at, todo, seen) ==
  /\ kind \in Kinds
  /\ call[c] = Idle
  /\ calls < MaxCalls
  /\ calls' = calls + 1
  /\ call' = [call EXCEPT ![c] =
       [kind |-> kind, doc |-> d, at |-> at, todo |-> todo, seen |-> seen]]
  /\ UNCHANGED <<books, papers>>

Goto(c, at, seen) == call' = [call EXCEPT ![c] = [@ EXCEPT !.at = at, !.seen = seen]]
End(c) == call' = [call EXCEPT ![c] = Idle]

Adjust(c) ==
  \E i \in Items, p \in Warehouses, n \in (-MaxQty..MaxQty) \ {0} :
    Begin(c, "adjust", NoDoc, "load", <<Move(i, p, n)>>, NoRow)

Transfer(c) ==
  \E i \in Items, from \in Warehouses, to \in Warehouses, n \in 1..MaxQty :
    /\ from # to
    /\ Begin(c, "transfer", NoDoc, "load", <<Move(i, from, -n), Move(i, to, n)>>, NoRow)

\* The stock is checked once, before the first move.
ConvertBtp(c) ==
  \E source \in Products, target \in Products, n \in 1..MaxQty :
    /\ source # target
    /\ Qty(stock[source]["KHO_BTP"]) >= n
    /\ Begin(c, "convert", NoDoc, "load",
             <<Move(source, "KHO_BTP", -n), Move(target, "KHO_BTP", n)>>, NoRow)

\* Mutation: a document may be confirmed again.
OpenAlways(d) == status[d] # "DELETED"
Open(d) == status[d] = "DRAFT"

\* The header of a receipt is saved before the moves, that of an issue if its supplier
\* comes with the request.
Confirm(c) == \E d \in Docs :
  /\ Open(d)
  /\ \E at \in (IF d \in Receipts THEN {"header"}
                    ELSE IF d \in Exports THEN {"load"} ELSE {"header", "load"}) :
       Begin(c, "confirm", d, at, Moves(d), NoRow)
DeliverIssue(c) == \E d \in Issues :
  status[d] # "DELETED" /\ Begin(c, "deliver", d, "deliver", <<>>, NoRow)
EditIssue(c) == \E d \in Issues :
  status[d] # "DELETED" /\ Begin(c, "edit", d, "edit", <<>>, status[d])
DeleteReceipt(c) == \E d \in Receipts : Open(d) /\ Begin(c, "delete", d, "delete", <<>>, NoRow)
\* The quantities of an issue that was confirmed or delivered are returned first.
DeleteIssue(c) == \E d \in Issues :
  /\ status[d] # "DELETED"
  /\ Begin(c, "delete", d, IF status[d] = "DRAFT" THEN "delete" ELSE "return",
           IF status[d] = "DRAFT" THEN <<>>
           ELSE [n \in DOMAIN Lines[d] |-> Move(Lines[d][n].item, "KHO_NPL", Lines[d][n].qty)],
           NoRow)
\* sendDeliveryEmail and updateDelivery of the sales service load a delivery and save it whole:
\* it is SHIPPED after the mail, and has whatever status the update names.
MailDelivery(c) == \E d \in Exports :
  status[d] # "DELETED" /\ Begin(c, "mail", d, "edit", <<>>, "SHIPPED")
UpdateDelivery(c) == \E d \in Exports :
  /\ status[d] # "DELETED"
  /\ \E new \in {status[d], "DRAFT", "SHIPPED", "DELIVERED"} : Begin(c, "edit", d, "edit", <<>>, new)
Reset(c) == Begin(c, "reset", NoDoc, "clearHistory", <<>>, NoRow)

-----------------------------------------------------------------------------
(* adjustStock and adjustSupplierStock, one statement per step *)

Todo(c) == Head(call[c].todo)

LoadRow(c) ==
  /\ call[c].at = "load"
  /\ Goto(c, "save", stock[Todo(c).item][Todo(c).place])
  /\ UNCHANGED <<books, papers, calls>>

\* The row that was not there is there now.  The unique index of inventory_stocks refuses a
\* second one.
InsertTwice(c) == call[c].seen = NoRow /\ stock[Todo(c).item][Todo(c).place] # NoRow
InsertClash(c) == Todo(c).place \notin Suppliers /\ InsertTwice(c)

CountMove(c) ==
  moved' = IF call[c].doc \in Docs THEN [moved EXCEPT ![call[c].doc] = @ + 1] ELSE moved

SaveRow(c) ==
  LET m == Todo(c) IN
  /\ call[c].at = "save"
  /\ ~InsertTwice(c)
  /\ stock' = [stock EXCEPT ![m.item][m.place] = Qty(call[c].seen) + m.change]
  /\ CountMove(c)
  /\ Goto(c, IF m.place \in Suppliers THEN "log" ELSE "sum", NoRow)
  /\ UNCHANGED <<twins, total, ledger, papers, calls>>

\* supplier_stocks has no unique index: the second insert adds a row, and any row of a supplier
\* and material may be the one a later request finds.
InsertTwin(c) ==
  LET m == Todo(c) IN
  /\ call[c].at = "save" /\ m.place \in Suppliers
  /\ InsertTwice(c)
  /\ twins' = [twins EXCEPT ![m.item][m.place] = Append(@, m.change)]
  /\ CountMove(c)
  /\ Goto(c, "log", NoRow)
  /\ UNCHANGED <<stock, total, ledger, papers, calls>>

LoadTwin(c) ==
  LET m == Todo(c) IN
  /\ call[c].at = "load" /\ m.place \in Suppliers
  /\ \E n \in DOMAIN twins[m.item][m.place] :
       Goto(c, "saveTwin", <<n, twins[m.item][m.place][n]>>)
  /\ UNCHANGED <<books, papers, calls>>

SaveTwin(c) ==
  LET m == Todo(c) IN
  /\ call[c].at = "saveTwin"
  /\ twins' = [twins EXCEPT ![m.item][m.place][call[c].seen[1]] = call[c].seen[2] + m.change]
  /\ CountMove(c)
  /\ Goto(c, "log", NoRow)
  /\ UNCHANGED <<stock, total, ledger, papers, calls>>

\* Mutation: the sum is forgotten.
SumNothing(c) ==
  /\ call[c].at = "sum"
  /\ Goto(c, "total", NoRow)
  /\ UNCHANGED <<books, papers, calls>>

SumRows(c) ==
  /\ call[c].at = "sum"
  /\ Goto(c, "total", SumOf(Todo(c).item))
  /\ UNCHANGED <<books, papers, calls>>

SaveTotal(c) ==
  /\ call[c].at = "total"
  /\ total' = [total EXCEPT ![Todo(c).item] = call[c].seen]
  /\ Goto(c, "log", NoRow)
  /\ UNCHANGED <<stock, twins, ledger, moved, papers, calls>>

\* What a request does after its last move.
After(c) ==
  IF call[c].kind # "confirm" THEN Idle
  ELSE [call[c] EXCEPT !.todo = <<>>, !.at = IF call[c].doc \notin Receipts THEN "finish"
                                           ELSE IF OrderedQty(call[c].doc) > 0 THEN "debt"
                                           ELSE "loadPo"]

NextMove(c) ==
  IF Len(call[c].todo) = 1 THEN After(c)
  ELSE [call[c] EXCEPT !.todo = Tail(@), !.at = "load"]

\* Mutations: the sign of a change is not recorded; a document ends with its first move.
LogUnsigned(c) ==
  LET m == Todo(c) IN
  /\ call[c].at = "log"
  /\ ledger' = [ledger EXCEPT ![m.item][m.place] = @ + (IF m.change < 0 THEN -m.change ELSE m.change)]
  /\ call' = [call EXCEPT ![c] = NextMove(c)]
  /\ UNCHANGED <<stock, twins, total, moved, papers, calls>>
LogFirst(c) ==
  /\ call[c].at = "log"
  /\ ledger' = [ledger EXCEPT ![Todo(c).item][Todo(c).place] = @ + Todo(c).change]
  /\ call' = [call EXCEPT ![c] = After(c)]
  /\ UNCHANGED <<stock, twins, total, moved, papers, calls>>

LogMove(c) ==
  LET m == Todo(c) IN
  /\ call[c].at = "log"
  /\ ledger' = [ledger EXCEPT ![m.item][m.place] = @ + m.change]
  /\ call' = [call EXCEPT ![c] = NextMove(c)]
  /\ UNCHANGED <<stock, twins, total, moved, papers, calls>>

-----------------------------------------------------------------------------
(* Documents *)

\* The entity is saved with the status it was loaded with.
SaveHeader(c) ==
  /\ call[c].at = "header"
  /\ status' = [status EXCEPT ![call[c].doc] = "DRAFT"]
  /\ Goto(c, "load", NoRow)
  /\ UNCHANGED <<books, debt, poStatus, calls>>

LoadDebt(c) ==
  /\ call[c].at = "debt"
  /\ Goto(c, "saveDebt", debt[SupplierOf[call[c].doc]])
  /\ UNCHANGED <<books, papers, calls>>

SaveDebt(c) ==
  /\ call[c].at = "saveDebt"
  /\ debt' = [debt EXCEPT ![SupplierOf[call[c].doc]] = call[c].seen + OrderedQty(call[c].doc)]
  /\ Goto(c, "loadPo", NoRow)
  /\ UNCHANGED <<books, status, poStatus, calls>>

\* The order is saved for its fee, with the status it was loaded with.
LoadPo(c) ==
  /\ call[c].at = "loadPo"
  /\ Goto(c, "saveFee", poStatus)
  /\ UNCHANGED <<books, papers, calls>>

SaveFee(c) ==
  /\ call[c].at = "saveFee"
  /\ poStatus' = call[c].seen
  /\ Goto(c, "finish", NoRow)
  /\ UNCHANGED <<books, status, debt, calls>>

\* A document deleted meanwhile is inserted again: the whole entity is saved.
Finish(c) ==
  LET d == call[c].doc IN
  /\ call[c].at = "finish"
  /\ status' = [status EXCEPT ![d] =
       IF d \in Receipts THEN "COMPLETED" ELSE IF d \in Exports THEN "SHIPPED" ELSE "CONFIRMED"]
  /\ IF d \in Receipts THEN Goto(c, "reloadPo", NoRow) ELSE End(c)
  /\ UNCHANGED <<books, debt, poStatus, calls>>

Completed == {d \in Receipts : status[d] = "COMPLETED"}

\* updatePODeliveryStatus loads the order, then the receipts, and saves the order.
ReloadPo(c) ==
  /\ call[c].at = "reloadPo"
  /\ Goto(c, "readReceipts", poStatus)
  /\ UNCHANGED <<books, papers, calls>>

ReadReceipts(c) ==
  /\ call[c].at = "readReceipts"
  /\ Goto(c, "savePo", PoStatusFor(Completed, call[c].seen))
  /\ UNCHANGED <<books, papers, calls>>

SavePo(c) ==
  /\ call[c].at = "savePo"
  /\ poStatus' = call[c].seen
  /\ End(c)
  /\ UNCHANGED <<books, status, debt, calls>>

SaveDelivered(c) ==
  /\ call[c].at = "deliver"
  /\ status' = [status EXCEPT ![call[c].doc] = "DELIVERED"]
  /\ End(c)
  /\ UNCHANGED <<books, debt, poStatus, calls>>

\* The edited entity is saved with the status it was loaded with.
SaveEdit(c) ==
  /\ call[c].at = "edit"
  /\ status' = [status EXCEPT ![call[c].doc] = call[c].seen]
  /\ End(c)
  /\ UNCHANGED <<books, debt, poStatus, calls>>

\* Only the total of the material is restored.
LoadReturn(c) ==
  /\ call[c].at = "return"
  /\ Goto(c, "saveReturn", total[Todo(c).item])
  /\ UNCHANGED <<books, papers, calls>>

SaveReturn(c) ==
  /\ call[c].at = "saveReturn"
  /\ total' = [total EXCEPT ![Todo(c).item] = call[c].seen + Todo(c).change]
  /\ call' = [call EXCEPT ![c] = [call[c] EXCEPT
       !.todo = Tail(@), !.at = IF Len(call[c].todo) = 1 THEN "delete" ELSE "return"]]
  /\ UNCHANGED <<stock, twins, ledger, moved, papers, calls>>

Delete(c) ==
  /\ call[c].at = "delete"
  /\ status' = [status EXCEPT ![call[c].doc] = "DELETED"]
  /\ End(c)
  /\ UNCHANGED <<books, debt, poStatus, calls>>

\* resetAllStocks clears the warehouses; the suppliers' stock stays.
Emptied(f, none) == [i \in Items |-> [p \in Places |-> IF p \in Warehouses THEN none ELSE f[i][p]]]

ClearHistory(c) ==
  /\ call[c].at = "clearHistory"
  /\ ledger' = Emptied(ledger, 0)
  /\ Goto(c, "clearStock", NoRow)
  /\ UNCHANGED <<stock, twins, total, moved, papers, calls>>

ClearStock(c) ==
  /\ call[c].at = "clearStock"
  /\ stock' = Emptied(stock, NoRow)
  /\ Goto(c, "clearTotal", NoRow)
  /\ UNCHANGED <<twins, total, ledger, moved, papers, calls>>

\* Two statements, one for the products and one for the materials.
ClearTotal(c) ==
  /\ call[c].at = "clearTotal"
  /\ total' = [i \in Items |-> 0]
  /\ End(c)
  /\ UNCHANGED <<stock, twins, ledger, moved, papers, calls>>

\* A statement throws, or the process stops: what was written stays.
Fail(c) ==
  /\ call[c] # Idle
  /\ MayFail \/ (call[c].at = "save" /\ InsertClash(c))
  /\ End(c)
  /\ UNCHANGED <<books, papers, calls>>

Request(c) ==
  \/ Adjust(c) \/ Transfer(c) \/ ConvertBtp(c) \/ Confirm(c) \/ DeliverIssue(c)
  \/ EditIssue(c) \/ MailDelivery(c) \/ UpdateDelivery(c) \/ DeleteReceipt(c)
  \/ DeleteIssue(c) \/ Reset(c)
MoveStep(c) ==
  \/ LoadRow(c) \/ SaveRow(c) \/ SumRows(c) \/ SaveTotal(c) \/ LogMove(c)
  \/ InsertTwin(c) \/ LoadTwin(c) \/ SaveTwin(c)
DocumentStep(c) ==
  \/ SaveHeader(c) \/ LoadPo(c) \/ SaveFee(c) \/ LoadDebt(c) \/ SaveDebt(c) \/ Finish(c)
  \/ ReloadPo(c) \/ ReadReceipts(c) \/ SavePo(c)
  \/ SaveDelivered(c) \/ SaveEdit(c) \/ LoadReturn(c) \/ SaveReturn(c) \/ Delete(c)
ResetStep(c) == ClearHistory(c) \/ ClearStock(c) \/ ClearTotal(c)

Init ==
  /\ stock = [i \in Items |-> [p \in Places |-> NoRow]]
  /\ twins = [i \in Items |-> [s \in Suppliers |-> <<>>]]
  /\ total = [i \in Items |-> 0]
  /\ ledger = [i \in Items |-> [p \in Places |-> 0]]
  /\ status = [d \in Docs |-> "DRAFT"]
  /\ debt = [s \in Suppliers |-> 0]
  /\ poStatus = "ORDERED"
  /\ call = [c \in Callers |-> Idle]
  /\ moved = [d \in Docs |-> 0]
  /\ calls = 0

Next == \E c \in Callers :
  Request(c) \/ MoveStep(c) \/ DocumentStep(c) \/ ResetStep(c) \/ Fail(c)

Spec == Init /\ [][Next]_vars

-----------------------------------------------------------------------------
(* Properties *)

Quantity == Int \cup {NoRow}

\* Types of the books, the papers and the requests in progress.
TypeOK ==
  /\ stock \in [Items -> [Places -> Quantity]]
  /\ twins \in [Items -> [Suppliers -> Seq(Int)]]
  /\ total \in [Items -> Int]
  /\ ledger \in [Items -> [Places -> Int]]
  /\ status \in [Docs -> {"DRAFT", "COMPLETED", "SHIPPED", "CONFIRMED", "DELIVERED", "DELETED"}]
  /\ debt \in [Suppliers -> Int]
  /\ poStatus \in {"ORDERED", "PARTIAL_DELIVERED", "DELIVERED"}
  /\ DOMAIN call = Callers
  /\ moved \in [Docs -> Nat]
  /\ calls \in 0..MaxCalls

Balance(i, p) ==
  Qty(stock[i][p])
    + (IF p \in Suppliers THEN Sum(twins[i][p], DOMAIN twins[i][p]) ELSE 0)
LedgerMatches == \A i \in Items, p \in Places : Balance(i, p) = ledger[i][p]
TotalIsExact == \A i \in Items : total[i] = SumOf(i)

\* Between requests the history explains every balance of every warehouse and supplier, and the
\* total of an item is the sum of its warehouses, samples left out.
BooksAgree == Quiet => LedgerMatches /\ TotalIsExact

Done(d) == status[d] \in {"COMPLETED", "SHIPPED", "CONFIRMED", "DELIVERED"}

\* Between requests a document has moved its stock once if it is done and not at all if
\* it is still a draft.
DocumentMovesOnce ==
  Quiet => \A d \in Docs :
    status[d] # "DELETED" => moved[d] = IF Done(d) THEN Len(Moves(d)) ELSE 0

Arrived(p) == ReceivedOf(Completed, {p})

\* Between requests a supplier is owed what the completed receipts brought of what was ordered,
\* and the order is DELIVERED when 95% of every item came, PARTIAL_DELIVERED when some of any
\* item did, and ORDERED before.
OrderFollowsReceipts ==
  Quiet => /\ \A s \in Suppliers :
                debt[s] = Received({d \in Completed : SupplierOf[d] = s})
           /\ poStatus = IF Completed # {} /\ \A p \in PoItems : Arrived(p) * 100 >= Ordered[p] * 95
                         THEN "DELIVERED"
                         ELSE IF \E p \in PoItems : Arrived(p) > 0 THEN "PARTIAL_DELIVERED"
                         ELSE "ORDERED"

\* Whatever fails and overlaps, a receipt that is done has made all its moves.  It is not so of
\* exports: the mail and the update of the sales service make one SHIPPED that moved nothing.
DoneWasMoved == \A d \in Receipts : Done(d) => moved[d] >= Len(Moves(d))
=============================================================================
