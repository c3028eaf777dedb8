------------------------------ MODULE Booking ------------------------------
(***************************************************************************)
(* Bookings of stock for the lines of sales orders, and the deliveries     *)
(* that ship them: SalesService, PlanningService and the export of         *)
(* InventoryService.  A request loads entities, works on these copies and  *)
(* saves them one statement after another outside any transaction, so      *)
(* requests and the hourly expiry interleave between all statements.  The  *)
(* reads a request starts with are one step, and so is adjustStock, whose  *)
(* own statements are the subject of StockLedger.                          *)
(***************************************************************************)
EXTENDS Sums

CONSTANTS
  Singles,     \* products with stock of their own
  Combos,      \* products made of others
  Parts,       \* pieces of each single product that one of a product needs
  Orders,
  MaxRow,      \* bound: ids of order lines are 1..MaxRow
  Lines,       \* the lines the orders begin with: a sequence of rows
  Deliveries,  \* ids of deliveries
  Papers,      \* the deliveries there are at first, by id
  Stock0,      \* stock of each product at first, samples left out
  Callers,     \* requests in progress at once
  Cron,        \* the hourly expiry, one of the callers
  Kinds,       \* kinds of request the users make
  MaxQty,      \* bound: quantities are 1..MaxQty
  MaxCalls,    \* bound: requests of users in a behaviour
  NoOrder, NoRow

Products == Singles \cup Combos
RowIds == 1..MaxRow
AllKinds == {"book", "confirm", "revert", "edit", "touch", "deliver", "update", "mail",
             "export", "drop", "issue", "sync"}

ASSUME ProductsAssumption == Singles \cap Combos = {} /\ IsFiniteSet(Products)
ASSUME PartsAssumption ==
  /\ Parts \in [Products -> [Singles -> Nat]]
  /\ \A p \in Singles : Parts[p] = [s \in Singles |-> IF s = p THEN 1 ELSE 0]
  /\ \A p \in Combos : \E s \in Singles : Parts[p][s] > 0
ASSUME StockAssumption == Stock0 \in [Products -> Nat]
ASSUME KindsAssumption == Kinds \subseteq AllKinds
ASSUME CronAssumption == Cron \in Callers
ASSUME BoundsAssumption == MaxQty \in Nat /\ MaxCalls \in Nat
VARIABLES
  rows,       \* sales_order_items: a row, or NoRow
  newId,      \* the next id
  booking,    \* booking_stock of each single product
  approved,   \* approved_booking_stock
  stock,      \* stock of each product outside KHO_MAU
  delivery,   \* sales_deliveries, each with one line; no line when qty is 0
  issued,     \* orders whose production has issued materials
  call,       \* what each request is doing
  sums,       \* the stock and counters it has loaded, and the counters it is to save
  calls,      \* requests of users so far
  born,       \* history: what each row ordered and had booked when it was inserted
  alone       \* history: requests during which no other was in progress

vars == <<rows, newId, booking, approved, stock, delivery, issued, call, sums, calls, born,
          alone>>
lines == <<rows, newId, born>>
counters == <<booking, approved>>
goods == <<stock, delivery>>

Row == [order : Orders \cup {NoOrder}, product : Products, qty : Nat, booked : Nat,
        status : {"NONE", "TEMPORARY", "CONFIRMED", "EXPIRED"},
        ends : {"never", "later", "past"}]
Delivery == [order : Orders, product : Products, qty : Nat,
             status : {"DRAFT", "PENDING_EXPORT", "SHIPPED"}]

ASSUME NullAssumption == NoOrder \notin Orders /\ NoRow \notin Row
\* Lines that were booked and approved one request after another.
Sound(row) ==
  /\ row.booked <= row.qty
  /\ row.status \in {"NONE", "EXPIRED"} => row.booked = 0
  /\ row.status = "TEMPORARY" <=> row.ends # "never"
ASSUME LinesAssumption ==
  /\ MaxRow \in Nat
  /\ \E k \in 0..MaxRow : Lines \in [1..k -> Row]
  /\ \A r \in DOMAIN Lines : Sound(Lines[r])
ASSUME PapersAssumption == \E D \in SUBSET Deliveries : Papers \in [D -> Delivery]

-----------------------------------------------------------------------------
(* Quantities *)

\* Math.max(0, a - b).  Mutation: without the max.
Unclamped(a, b) == a - b
Minus(a, b) == IF a >= b THEN a - b ELSE 0

Least(a, b) == IF a <= b THEN a ELSE b
Most(a, b) == IF a >= b THEN a ELSE b
Needed(p) == {s \in Singles : Parts[p][s] > 0}

Free(inStock, promised, s) == inStock[s] - promised[s]

\* Whether n of product p may be booked; whether n can be promised, or may leave.
Bookable(p, n, inStock, promised) ==
  \A s \in Needed(p) : Free(inStock, promised, s) >= n * Parts[p][s]
Covered(p, n, inStock, promised) ==
  \A s \in Needed(p) : Most(Free(inStock, promised, s), 0) >= n * Parts[p][s]

Booked(r) == IF rows[r] = NoRow THEN 0 ELSE rows[r].booked
HasStatus(r, st) == rows[r] # NoRow /\ rows[r].status = st

\* getBookingStats.  Mutation: the pieces of a combo are not counted.
SumOfSingles(st, s) ==
  Sum([r \in RowIds |-> Booked(r)], {r \in RowIds : HasStatus(r, st) /\ rows[r].product = s})
SumOf(st, s) ==
  Sum([r \in RowIds |-> IF HasStatus(r, st) THEN Booked(r) * Parts[rows[r].product][s] ELSE 0],
      RowIds)

-----------------------------------------------------------------------------
(* Requests *)

Zero == [s \in Singles |-> 0]
NoDelivery == [order |-> NoOrder, product |-> NoOrder, qty |-> 0, status |-> "ABSENT"]

\* The kind of request and the step it is at; the order, delivery and quantity it is about;
\* the rows and the delivery it has loaded; the rows it has still to treat, the one it treats
\* and the pieces concerned; the products whose counters it has still to save.
Idle == [kind |-> "none", at |-> "idle", order |-> NoOrder, id |-> NoOrder, want |-> 0,
         copies |-> [r \in RowIds |-> NoRow], paper |-> NoDelivery,
         todo |-> {}, row |-> 0, n |-> 0, parts |-> {}, part |-> NoOrder]
Seen == [stock |-> stock, oldB |-> booking, oldA |-> approved, newB |-> Zero, newA |-> Zero]
NoSums == [stock |-> Zero, oldB |-> Zero, oldA |-> Zero, newB |-> Zero, newA |-> Zero]

Quiet == \A c \in Callers : call[c] = Idle
At(c, at) == call[c].at = at
Doing(c, kind, at) == call[c].kind = kind /\ At(c, at)

RowsOf(o) == {r \in RowIds : rows[r] # NoRow /\ rows[r].order = o}
Loaded(c) == {r \in RowIds : call[c].copies[r] # NoRow}

Loading(kind, at, R) ==
  [Idle EXCEPT !.kind = kind, !.at = at,
               !.copies = [r \in RowIds |-> IF r \in R THEN rows[r] ELSE NoRow]]

Begin(c, job, figures) ==
  /\ call[c] = Idle
  /\ call' = [call EXCEPT ![c] = job]
  /\ sums' = [sums EXCEPT ![c] = figures]
  /\ alone' = IF Quiet THEN {c} ELSE {}
  /\ UNCHANGED <<lines, counters, goods, issued>>

UserBegins(c, job, figures) ==
  /\ c # Cron
  /\ job.kind \in Kinds
  /\ calls < MaxCalls
  /\ calls' = calls + 1
  /\ Begin(c, job, figures)

Become(c, job, figures) ==
  /\ call' = [call EXCEPT ![c] = job]
  /\ sums' = [sums EXCEPT ![c] = figures]
  /\ UNCHANGED <<calls, alone>>
End(c) == Become(c, Idle, NoSums)
Goto(c, at) == Become(c, [call[c] EXCEPT !.at = at], sums[c])

\* The counters of a single product are those of the entity loaded with its row; the
\* components of a combo are loaded when the turn of its row comes.
SourceB(c, p) == IF p \in Combos THEN booking ELSE sums[c].oldB
SourceA(c, p) == IF p \in Combos THEN approved ELSE sums[c].oldA

Plus(source, p, n) == [s \in Singles |-> source[s] + n * Parts[p][s]]
Less(source, p, n) == [s \in Singles |-> Minus(source[s], n * Parts[p][s])]

-----------------------------------------------------------------------------
(* Lines are booked, approved, reverted and expire *)

Book(c, o) ==
  \E R \in (SUBSET RowsOf(o)) \ {{}}, n \in 1..MaxQty :
    UserBegins(c, [Loading("book", "next", RowsOf(o)) EXCEPT !.todo = R, !.want = n], Seen)

ConfirmBookings(c, o) ==
  \E R \in (SUBSET {r \in RowsOf(o) : rows[r].status = "TEMPORARY"}) \ {{}} :
    UserBegins(c, [Loading("confirm", "next", RowsOf(o)) EXCEPT !.todo = R], Seen)

Shipped(o, p) ==
  \E d \in Deliveries : /\ delivery[d].status = "SHIPPED"
                        /\ delivery[d].order = o /\ delivery[d].product = p
                        /\ delivery[d].qty > 0

RevertBooking(c, r) ==
  /\ HasStatus(r, "CONFIRMED")
  /\ ~Shipped(rows[r].order, rows[r].product)
  /\ UserBegins(c, [Loading("revert", "next", {r}) EXCEPT !.todo = {r}], Seen)

\* Mutation: combos are left out.
OverdueSingles == {r \in RowIds : HasStatus(r, "TEMPORARY") /\ rows[r].ends = "past"
                                  /\ rows[r].product \in Singles}
Overdue == {r \in RowIds : HasStatus(r, "TEMPORARY") /\ rows[r].ends = "past"}

\* checkExpiredBookings, every hour.
Expire ==
  /\ Overdue # {}
  /\ Begin(Cron, [Loading("expire", "next", Overdue) EXCEPT !.todo = Overdue], Seen)
  /\ UNCHANGED calls

\* Five days pass.
TimePasses(r) ==
  /\ rows[r] # NoRow /\ rows[r].ends = "later"
  /\ rows' = [rows EXCEPT ![r].ends = "past"]
  /\ UNCHANGED <<newId, born, counters, goods, issued, call, sums, calls, alone>>

Skip(c, r) ==
  LET rest == call[c].todo \ {r} IN
  IF rest = {} THEN End(c)
  ELSE Become(c, [call[c] EXCEPT !.at = "next", !.todo = rest], sums[c])

\* Mutation: what is booked already is not taken into account.
ToBookWhatever(c, r) == call[c].want
\* What a request books of a row.
ToBook(c, r) ==
  Least(call[c].want, Minus(call[c].copies[r].qty, call[c].copies[r].booked))

TreatBook(c, r) ==
  LET p == call[c].copies[r].product
      n == ToBook(c, r) IN
  /\ call[c].kind = "book"
  /\ IF n > 0 /\ Bookable(p, n, sums[c].stock, SourceA(c, p))
     THEN Become(c, [call[c] EXCEPT !.at = "counters", !.row = r, !.n = n, !.parts = Needed(p)],
                    [sums[c] EXCEPT !.newB = Plus(SourceB(c, p), p, n)])
     ELSE Skip(c, r)

\* The stock a request remembers, less n of product p.  Mutation: it is not lowered.
Forgotten(inStock, p, n) == inStock
Lowered(inStock, p, n) ==
  [q \in DOMAIN inStock |-> IF q \in Singles THEN inStock[q] - n * Parts[p][q] ELSE inStock[q]]

\* As many as are covered are approved, up to what the row orders, whatever was booked.  The
\* stock the request remembers is lowered, for the rows to come.
TreatConfirm(c, r) ==
  LET row == call[c].copies[r]
      p == row.product
      covered(n) == Covered(p, n, sums[c].stock, SourceA(c, p)) IN
  /\ call[c].kind = "confirm"
  /\ \E n \in 0..row.qty :
       /\ covered(n)
       /\ n < row.qty => ~covered(n + 1)
       /\ Become(c, [call[c] EXCEPT !.at = IF p \in Combos THEN "reload" ELSE "counters",
                                    !.row = r, !.n = n, !.parts = Needed(p)],
            [sums[c] EXCEPT !.newA = Plus(SourceA(c, p), p, n),
                            !.stock = Lowered(@, p, n)])

\* The components of a combo are loaded once more before they are approved.
Reload(c) ==
  LET p == call[c].copies[call[c].row].product IN
  /\ At(c, "reload")
  /\ Become(c, [call[c] EXCEPT !.at = "counters"],
               [sums[c] EXCEPT !.newA = Plus(approved, p, call[c].n)])
  /\ UNCHANGED <<lines, counters, goods, issued>>

TreatExpire(c, r) ==
  LET row == call[c].copies[r] IN
  /\ call[c].kind = "expire"
  /\ Become(c, [call[c] EXCEPT !.at = "counters", !.row = r, !.parts = Needed(row.product)],
       [sums[c] EXCEPT !.newB = Less(SourceB(c, row.product), row.product, row.booked)])

TreatRevert(c, r) ==
  LET row == call[c].copies[r] IN
  /\ call[c].kind = "revert"
  /\ Become(c, [call[c] EXCEPT !.at = "counters", !.row = r, !.parts = Needed(row.product)],
       [sums[c] EXCEPT !.newA = Less(SourceA(c, row.product), row.product, row.booked)])

Treat(c) ==
  /\ At(c, "next")
  /\ \E r \in call[c].todo :
       TreatBook(c, r) \/ TreatConfirm(c, r) \/ TreatExpire(c, r) \/ TreatRevert(c, r)
  /\ UNCHANGED <<lines, counters, goods, issued>>

AtRow(c) == IF call[c].row = 0 THEN "lines" ELSE "row"

\* One counter, or for a synchronisation both of a product, is saved with the value computed.
SaveCounter(c) ==
  LET kind == call[c].kind
      done == IF kind = "sync" THEN "bulk" ELSE AtRow(c) IN
  /\ At(c, "counters")
  /\ \E s \in call[c].parts :
       /\ booking' = [booking EXCEPT ![s] =
            IF kind \in {"book", "expire", "sync"} THEN sums[c].newB[s] ELSE @]
       /\ approved' = [approved EXCEPT ![s] =
            IF kind \in {"confirm", "revert", "drop", "sync"} THEN sums[c].newA[s] ELSE @]
       /\ Become(c, [call[c] EXCEPT !.parts = @ \ {s},
                       !.at = IF call[c].parts = {s} THEN done ELSE @], sums[c])
  /\ UNCHANGED <<lines, goods, issued>>

\* Mutation: the row keeps what it had booked.
ExpiredKeeps(row) == [row EXCEPT !.status = "EXPIRED", !.ends = "never"]
Expired(row) == [row EXCEPT !.status = "EXPIRED", !.booked = 0, !.ends = "never"]
Reverted(row) == [row EXCEPT !.status = "TEMPORARY", !.ends = "later"]
Reserved(row, n) == [row EXCEPT !.booked = @ + n, !.status = "TEMPORARY", !.ends = "later"]
Returned(row, n) ==
  [row EXCEPT !.booked = Minus(@, n), !.status = IF row.booked <= n THEN "NONE" ELSE @]

\* Whole entities are saved, also one that was deleted meanwhile; a confirmation updates
\* three columns.
Saved(c) ==
  LET r == call[c].row
      copy == call[c].copies[r] IN
  CASE call[c].kind = "book"   -> Reserved(copy, call[c].n)
    [] call[c].kind = "expire" -> Expired(copy)
    [] call[c].kind = "revert" -> Reverted(copy)
    [] call[c].kind = "drop"   -> Returned(copy, call[c].n)
    [] OTHER -> IF rows[r] = NoRow THEN NoRow
                ELSE [rows[r] EXCEPT !.status = "CONFIRMED", !.ends = "never",
                                     !.booked = call[c].n]

SaveRow(c) ==
  /\ At(c, "row")
  /\ rows' = [rows EXCEPT ![call[c].row] = Saved(c)]
  /\ IF call[c].kind = "drop" THEN Goto(c, "lines") ELSE Skip(c, call[c].row)
  /\ UNCHANGED <<newId, born, counters, goods, issued>>
-----------------------------------------------------------------------------
(* The lines of an order are replaced, or saved as they were loaded *)

EditOrder(c, o) ==
  UserBegins(c, [Loading("edit", "delete", RowsOf(o)) EXCEPT !.order = o], NoSums)

\* A new version of the order, or the approval of its samples.
TouchOrder(c, o) ==
  UserBegins(c, [Loading("touch", "order", RowsOf(o)) EXCEPT !.order = o], NoSums)

DeleteRows(c) ==
  /\ At(c, "delete")
  /\ rows' = [r \in RowIds |-> IF r \in RowsOf(call[c].order) THEN NoRow ELSE rows[r]]
  /\ Goto(c, "insert")
  /\ UNCHANGED <<newId, born, counters, goods, issued>>

\* The loaded rows whose booking a new line of product p may take over.
Carried(c, p) ==
  {r \in Loaded(c) : call[c].copies[r].product = p /\ call[c].copies[r].status # "NONE"}

\* bookingMap: of each product, the loaded row whose booking its new lines take over, or 0.
BookingMaps(c) ==
  {from \in [Products -> Loaded(c) \cup {0}] :
     \A p \in Products : IF Carried(c, p) = {} THEN from[p] = 0 ELSE from[p] \in Carried(c, p)}

\* A line of n of product p that takes over the booking of row r.
NewRow(c, p, n, r) ==
  LET fresh == [order |-> call[c].order, product |-> p, qty |-> n, booked |-> 0,
                status |-> "NONE", ends |-> "never"]
      old == call[c].copies[r] IN
  IF r = 0 THEN fresh
  ELSE [fresh EXCEPT !.booked = old.booked, !.status = old.status, !.ends = old.ends]

NewIds(k) == newId..(newId + k - 1)
\* k new lines, several of one product too: each takes over the whole booking of its product.
NewLines(c, k) ==
  {[r \in NewIds(k) |-> NewRow(c, product[r], qty[r], from[product[r]])] :
     product \in [NewIds(k) -> Products], qty \in [NewIds(k) -> 1..MaxQty],
     from \in BookingMaps(c)}

InsertLines(c, ids, new) ==
  /\ rows' = [r \in RowIds |-> IF r \in ids THEN new[r] ELSE rows[r]]
  /\ born' = [r \in RowIds |->
       IF r \in ids THEN [qty |-> new[r].qty, booked |-> new[r].booked] ELSE born[r]]
  /\ Become(c, [call[c] EXCEPT !.at = "order",
       !.copies = [r \in RowIds |-> IF r \in ids THEN new[r] ELSE NoRow]], NoSums)

InsertRows(c) ==
  /\ At(c, "insert")
  /\ \E k \in 0..(MaxRow + 1 - newId) :
       /\ newId' = newId + k
       /\ \E new \in NewLines(c, k) : InsertLines(c, NewIds(k), new)
  /\ UNCHANGED <<counters, goods, issued>>

\* The order is saved with the lines it holds; other lines lose their order.
SaveOrder(c) ==
  /\ At(c, "order")
  /\ rows' = [r \in RowIds |->
       IF r \in Loaded(c) THEN call[c].copies[r]
       ELSE IF r \in RowsOf(call[c].order) THEN [rows[r] EXCEPT !.order = NoOrder]
       ELSE rows[r]]
  /\ End(c)
  /\ UNCHANGED <<newId, born, counters, goods, issued>>

-----------------------------------------------------------------------------
(* Deliveries *)

\* A line that is approved may leave, and one the order does not have; of others there must
\* be enough that nobody was promised.
MayLeave(r, n) ==
  \/ rows[r].status = "CONFIRMED"
  \/ Covered(rows[r].product, n, stock, approved)
LinesOf(o, p) == {r \in RowsOf(o) : rows[r].product = p}

CreateDelivery(c, d, o) ==
  \E p \in Products, n \in 1..MaxQty, draft \in BOOLEAN :
    /\ delivery[d] = NoDelivery
    /\ draft \/ LinesOf(o, p) = {} \/ \E r \in LinesOf(o, p) : MayLeave(r, n)
    /\ UserBegins(c, [Loading("deliver", "paper", RowsOf(o)) EXCEPT !.order = o, !.id = d,
         !.paper = [order |-> o, product |-> p, qty |-> n,
                    status |-> IF draft THEN "DRAFT" ELSE "PENDING_EXPORT"]], NoSums)

\* Any status may be set.  New lines replace the old ones.
UpdateDelivery(c, d) ==
  /\ delivery[d] # NoDelivery
  /\ \E st \in {"DRAFT", "PENDING_EXPORT", "SHIPPED"} :
     LET job == [Loading("update", "paper", {}) EXCEPT !.id = d,
                   !.paper = [delivery[d] EXCEPT !.status = st]] IN
       \/ UserBegins(c, job, NoSums)
       \/ \E n \in 1..MaxQty :
            UserBegins(c, [job EXCEPT !.at = "lines", !.paper.qty = n], NoSums)

SendDeliveryEmail(c, d) ==
  /\ delivery[d] # NoDelivery
  /\ UserBegins(c, [Loading("mail", "paper", {}) EXCEPT !.id = d,
                      !.paper = [delivery[d] EXCEPT !.status = "SHIPPED"]], NoSums)

ConfirmStockExport(c, d) ==
  /\ delivery[d].status = "PENDING_EXPORT"
  /\ UserBegins(c, [Loading("export", IF delivery[d].qty = 0 THEN "paper" ELSE "load", {})
       EXCEPT !.id = d, !.paper = [delivery[d] EXCEPT !.status = "SHIPPED"],
              !.n = delivery[d].qty], NoSums)

DeleteDelivery(c, d) ==
  /\ delivery[d] # NoDelivery
  /\ UserBegins(c, [Loading("drop", IF delivery[d].qty = 0 THEN "lines" ELSE "load",
                            RowsOf(delivery[d].order))
       EXCEPT !.id = d, !.paper = delivery[d], !.n = delivery[d].qty], NoSums)

\* The product of the line, or its components, are loaded; to delete a delivery, so was the
\* line of the order with that product, if there is one.
LoadProduct(c) ==
  LET job == call[c]
      p == job.paper.product
      own == {r \in Loaded(c) : job.copies[r].product = p} IN
  /\ At(c, "load")
  /\ \E r \in IF job.kind = "drop" /\ own # {} THEN own ELSE {0} :
       Become(c, [job EXCEPT !.row = r, !.parts = Needed(p),
         !.at = IF job.kind = "export" THEN "take"
                ELSE IF job.paper.status = "SHIPPED" THEN "return"
                ELSE IF job.paper.status = "PENDING_EXPORT" THEN "counters"
                ELSE IF r = 0 THEN "lines" ELSE "row"],
         [sums[c] EXCEPT !.newB = Less(booking, p, job.n), !.newA = Less(approved, p, job.n)])
  /\ UNCHANGED <<lines, counters, goods, issued>>

\* An export takes a component, then lowers its two counters, then goes to the next one.
TakeStock(c) ==
  /\ At(c, "take")
  /\ \E s \in call[c].parts :
       /\ stock' = [stock EXCEPT ![s] = @ - call[c].n * Parts[call[c].paper.product][s]]
       /\ Become(c, [call[c] EXCEPT !.at = "unbook", !.part = s], sums[c])
  /\ UNCHANGED <<lines, counters, delivery, issued>>

Unbook(c) ==
  LET s == call[c].part IN
  /\ At(c, "unbook")
  /\ booking' = [booking EXCEPT ![s] = sums[c].newB[s]]
  /\ Goto(c, "unapprove")
  /\ UNCHANGED <<lines, approved, goods, issued>>

Unapprove(c) ==
  LET s == call[c].part IN
  /\ At(c, "unapprove")
  /\ approved' = [approved EXCEPT ![s] = sums[c].newA[s]]
  /\ Become(c, [call[c] EXCEPT !.at = IF call[c].parts = {s} THEN "paper" ELSE "take",
                               !.parts = @ \ {s}], sums[c])
  /\ UNCHANGED <<lines, booking, goods, issued>>

\* A combo comes back as itself.
ReturnStock(c) ==
  /\ At(c, "return")
  /\ stock' = [stock EXCEPT ![call[c].paper.product] = @ + call[c].n]
  /\ Goto(c, AtRow(c))
  /\ UNCHANGED <<lines, counters, delivery, issued>>

\* The lines of the delivery are deleted.
ClearLines(c) ==
  LET d == call[c].id IN
  /\ At(c, "lines")
  /\ delivery' = IF delivery[d] = NoDelivery THEN delivery ELSE [delivery EXCEPT ![d].qty = 0]
  /\ Goto(c, IF call[c].kind = "drop" THEN "gone" ELSE "paper")
  /\ UNCHANGED <<lines, counters, stock, issued>>

\* The delivery is saved as it is held, one that was deleted meanwhile too.
SavePaper(c) ==
  LET d == call[c].id IN
  /\ At(c, "paper")
  /\ delivery' = [delivery EXCEPT ![d] = call[c].paper]
  /\ IF call[c].kind = "deliver" THEN Goto(c, "order") ELSE End(c)
  /\ UNCHANGED <<lines, counters, stock, issued>>

RemovePaper(c) ==
  /\ At(c, "gone")
  /\ delivery' = [delivery EXCEPT ![call[c].id] = NoDelivery]
  /\ End(c)
  /\ UNCHANGED <<lines, counters, stock, issued>>

-----------------------------------------------------------------------------
(* Production begins; the counters are synchronised *)

\* Materials are issued against the plan of the order, or by a goods issue for it.
IssueMaterials(c, o) ==
  \E at \in {"issue", "bulk"} :
    UserBegins(c, [Loading("issue", at, {}) EXCEPT !.order = o], NoSums)

SaveIssue(c) ==
  /\ At(c, "issue")
  /\ issued' = issued \cup {call[c].order}
  /\ Goto(c, "bulk")
  /\ UNCHANGED <<lines, counters, goods>>

SyncBookingStock(c) ==
  UserBegins(c, Loading("sync", "products", {}), [NoSums EXCEPT
    !.newB = [s \in Singles |-> SumOf("TEMPORARY", s)],
    !.newA = [s \in Singles |-> SumOf("CONFIRMED", s)]])

\* Only products whose counters differ are saved.
LoadProducts(c) ==
  LET wrong == {s \in Singles : booking[s] # sums[c].newB[s] \/ approved[s] # sums[c].newA[s]} IN
  /\ At(c, "products")
  /\ Become(c, [call[c] EXCEPT !.at = IF wrong = {} THEN "bulk" ELSE "counters", !.parts = wrong],
            sums[c])
  /\ UNCHANGED <<lines, counters, goods, issued>>

\* The temporary bookings of an order in production become approved ones.
ApproveAll(c) ==
  LET sync == call[c].kind = "sync"
      O == IF sync THEN issued ELSE {call[c].order} IN
  /\ At(c, "bulk")
  /\ rows' = [r \in RowIds |->
       IF HasStatus(r, "TEMPORARY") /\ rows[r].order \in O
       THEN [rows[r] EXCEPT !.status = "CONFIRMED", !.ends = IF sync THEN @ ELSE "never"]
       ELSE rows[r]]
  /\ End(c)
  /\ UNCHANGED <<newId, born, counters, goods, issued>>

-----------------------------------------------------------------------------
Init ==
  /\ rows = [r \in RowIds |-> IF r \in DOMAIN Lines THEN Lines[r] ELSE NoRow]
  /\ newId = Cardinality(DOMAIN Lines) + 1
  /\ approved = [s \in Singles |-> SumOf("CONFIRMED", s)]
  /\ booking = [s \in Singles |-> SumOf("TEMPORARY", s) + SumOf("CONFIRMED", s)]
  /\ stock = Stock0
  /\ delivery = [d \in Deliveries |-> IF d \in DOMAIN Papers THEN Papers[d] ELSE NoDelivery]
  /\ issued = {}
  /\ call = [c \in Callers |-> Idle]
  /\ sums = [c \in Callers |-> NoSums]
  /\ calls = 0
  /\ born = [r \in RowIds |-> IF r \in DOMAIN Lines
                             THEN [qty |-> Lines[r].qty, booked |-> Lines[r].booked]
                             ELSE [qty |-> 0, booked |-> 0]]
  /\ alone = {}

Request(c) ==
  \/ \E o \in Orders : \/ Book(c, o) \/ ConfirmBookings(c, o) \/ EditOrder(c, o)
                       \/ TouchOrder(c, o) \/ IssueMaterials(c, o)
  \/ \E r \in RowIds : RevertBooking(c, r)
  \/ \E d \in Deliveries : \/ \E o \in Orders : CreateDelivery(c, d, o)
                           \/ UpdateDelivery(c, d) \/ SendDeliveryEmail(c, d)
                           \/ ConfirmStockExport(c, d) \/ DeleteDelivery(c, d)
  \/ SyncBookingStock(c)

Step(c) ==
  \/ Treat(c) \/ Reload(c) \/ SaveCounter(c) \/ SaveRow(c)
  \/ DeleteRows(c) \/ InsertRows(c) \/ SaveOrder(c)
  \/ LoadProduct(c) \/ TakeStock(c) \/ Unbook(c) \/ Unapprove(c) \/ ReturnStock(c)
  \/ ClearLines(c) \/ SavePaper(c) \/ RemovePaper(c)
  \/ SaveIssue(c) \/ LoadProducts(c) \/ ApproveAll(c)

Next ==
  \/ \E c \in Callers : Request(c) \/ Step(c)
  \/ Expire
  \/ \E r \in RowIds : TimePasses(r)

Spec == Init /\ [][Next]_vars

\* The hourly job starts and goes on.  Nothing is assumed of the users' requests.
Fairness == WF_vars(Expire) /\ WF_vars(Step(Cron))
FairSpec == Spec /\ Fairness

-----------------------------------------------------------------------------
(* Properties *)

\* Types of rows, counters, deliveries and of what requests remember.
TypeOK ==
  /\ rows \in [RowIds -> Row \cup {NoRow}]
  /\ newId \in 1..(MaxRow + 1)
  /\ born \in [RowIds -> [qty : Nat, booked : Nat]]
  /\ booking \in [Singles -> Nat] /\ approved \in [Singles -> Nat]
  /\ stock \in [Products -> Int]
  /\ delivery \in [Deliveries -> Delivery \cup {NoDelivery}]
  /\ issued \subseteq Orders /\ alone \subseteq Callers
  /\ calls \in 0..MaxCalls
  /\ \A c \in Callers : call[c].copies \in [RowIds -> Row \cup {NoRow}]

\* However requests and the expiry overlap and save stale rows, a row never has more booked
\* than it orders, unless an edit of the order carried that much over to it.
BookedWithinOrder ==
  \A r \in RowIds : rows[r] # NoRow => rows[r].booked <= Most(rows[r].qty, born[r].booked)

\* Whatever stale row is saved last, the columns of a row agree with its status: a row that is
\* not booked, or whose booking was released, holds no pieces, and a temporary booking has the
\* end by which the hourly job finds it.  A released booking may still come back, temporary and
\* with its pieces, when a request saves the row it loaded before: it then has an end again.
StatusAgrees ==
  \A r \in RowIds :
    /\ HasStatus(r, "NONE") \/ HasStatus(r, "EXPIRED") => rows[r].booked = 0
    /\ HasStatus(r, "TEMPORARY") => rows[r].ends # "never"

\* The pieces of s held by the approved rows of a table that were temporary as they were loaded.
ApprovedOf(copies, table, s) ==
  LET D == {r \in RowIds : /\ copies[r] # NoRow /\ copies[r].status = "TEMPORARY"
                           /\ table[r] # NoRow /\ table[r].status = "CONFIRMED"}
  IN Sum([r \in D |-> table[r].booked * Parts[table[r].product][s]], D)

\* While no other request is in progress, the rows one approval has approved, also several rows of
\* one product, of a combo and of its components, never have more pieces together than were in
\* stock and not approved before: the stock it remembers is what they share.
ApprovalWithinStock ==
  [][\A c \in alone, s \in Singles :
       call[c].kind = "confirm" =>
         ApprovedOf(call[c].copies, rows', s) <= Minus(stock[s], sums[c].oldA[s])]_vars

\* The pieces of s that rows of a status hold.
Held(st, s) ==
  LET H == {r \in RowIds : HasStatus(r, st)} IN
  Sum([r \in H |-> rows[r].booked * Parts[rows[r].product][s]], H)

\* A synchronisation that ran alone leaves the counters equal to the bookings of all rows,
\* combos counted by their components, unless it still had bookings of orders in
\* production to approve.
SyncRestores ==
  [][\A c \in alone :
       /\ Doing(c, "sync", "bulk") /\ call'[c] = Idle
       /\ \A r \in RowIds : HasStatus(r, "TEMPORARY") => rows[r].order \notin issued
       => \A s \in Singles : /\ booking'[s] = Held("TEMPORARY", s)'
                             /\ approved'[s] = Held("CONFIRMED", s)']_vars

\* Whatever the users do meanwhile, an overdue booking is released, renewed or approved.
OverdueIsReleased ==
  \A r \in RowIds : LET late == HasStatus(r, "TEMPORARY") /\ rows[r].ends = "past" IN
    late ~> ~late
=============================================================================
