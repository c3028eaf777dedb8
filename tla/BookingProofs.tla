-------------------------- MODULE BookingProofs --------------------------
(***************************************************************************)
(* The rows of bookings stay sound for any number of requests that overlap *)
(* and save stale copies: every copy a request holds is sound itself.  The *)
(* counters stay numbers; and a synchronisation or an approval during      *)
(* which no other request is in progress does what it promises.            *)
(***************************************************************************)
EXTENDS Booking, SumsProofs, TLAPS

Table == [RowIds -> Row \cup {NoRow}]
Paper == Delivery \cup {NoDelivery}
Tasks == AllKinds \cup {"none", "expire"}
Places == {"idle", "next", "reload", "counters", "row", "delete", "insert", "order", "load",
           "take", "unbook", "unapprove", "return", "lines", "paper", "gone", "issue", "bulk",
           "products"}
Job == [kind : Tasks, at : Places, order : Orders \cup {NoOrder},
        id : Deliveries \cup {NoOrder}, want : Nat, copies : Table, paper : Paper,
        todo : SUBSET RowIds, row : 0..MaxRow, n : Nat,
        parts : SUBSET Singles, part : Singles \cup {NoOrder}]

\* A row with the id r, in the table or in the memory of a request, is sound.
Fits(r, row) ==
  /\ row.qty = born[r].qty
  /\ row.booked <= Most(row.qty, born[r].booked)
  /\ row.status \in {"NONE", "EXPIRED"} => row.booked = 0
  /\ row.status = "TEMPORARY" => row.ends # "never"
  /\ r < newId

\* What a request is about to save of a row is sound.
Plan(job) ==
  /\ \A r \in job.todo : job.copies[r] # NoRow
  /\ job.row # 0 => job.copies[job.row] # NoRow
  /\ job.at \in {"row", "reload"} => job.row # 0
  /\ job.at = "reload" => job.kind = "confirm"
  /\ job.at = "row" => job.kind \in {"book", "confirm", "expire", "revert", "drop"}
  /\ job.at = "return" => job.kind = "drop"
  /\ job.at = "load" => job.kind \in {"export", "drop"}
  /\ job.at = "products" => job.kind = "sync"
  /\ job.at \in {"delete", "insert"} => job.todo = {} /\ job.row = 0
  /\ job.at = "counters" => job.kind \in {"book", "confirm", "expire", "revert", "drop", "sync"}
  /\ job.at \in {"counters", "row"} /\ job.kind = "book" =>
       job.row # 0 /\ job.copies[job.row].booked + job.n <= job.copies[job.row].qty
  /\ job.at \in {"reload", "counters", "row"} /\ job.kind = "confirm" =>
       job.row # 0 /\ job.n <= job.copies[job.row].qty

GoodJob(job) ==
  /\ job \in Job
  /\ \A r \in RowIds : job.copies[r] # NoRow => Fits(r, job.copies[r])
  /\ Plan(job)

GoodRows ==
  /\ rows \in Table
  /\ \A r \in RowIds : rows[r] # NoRow => Fits(r, rows[r])

GoodRest ==
  /\ newId \in Nat /\ newId # 0
  /\ born \in [RowIds -> [qty : Nat, booked : Nat]]
  /\ delivery \in [Deliveries -> Paper]

\* The inductive invariant.
IInv ==
  /\ GoodRest
  /\ GoodRows
  /\ call \in [Callers -> Job]
  /\ \A c \in Callers : GoodJob(call[c])

USE NullAssumption DEF RowIds, Products

LEMMA IdleIsGood == GoodJob(Idle)
<1>1. 0 \in 0..MaxRow
  BY LinesAssumption
<1>2. NoDelivery \in Paper
  BY DEF Paper
<1>3. [r \in RowIds |-> NoRow] \in Table
  BY DEF Table
<1>4. Idle \in Job
  BY <1>1, <1>2, <1>3 DEF Job, Idle, Tasks, Places
<1>5. Idle.copies = [r \in RowIds |-> NoRow]
  BY DEF Idle
<1>6. Plan(Idle)
  BY DEF Plan, Idle
<1> QED BY <1>4, <1>5, <1>6 DEF GoodJob

LEMMA StartsGood == Init => IInv
<1> SUFFICES ASSUME Init PROVE IInv
  OBVIOUS
<1>1. PICK k \in 0..MaxRow : Lines \in [1..k -> Row]
  BY LinesAssumption
<1>2. Cardinality(DOMAIN Lines) = k
  <2>1. Cardinality(1..k) = IF 1 > k THEN 0 ELSE k - 1 + 1
    BY <1>1, FS_Interval, LinesAssumption
  <2> QED BY <1>1, <2>1, LinesAssumption
<1>3. newId = k + 1 /\ newId \in Nat
  BY <1>1, <1>2, LinesAssumption DEF Init
<1>4. DOMAIN Lines \subseteq RowIds /\ \A r \in DOMAIN Lines : Lines[r] \in Row
  BY <1>1, LinesAssumption
<1>5. born \in [RowIds -> [qty : Nat, booked : Nat]]
  BY <1>4 DEF Init, Row
<1>6. delivery \in [Deliveries -> Paper]
  BY PapersAssumption DEF Init, Paper
<1>7. GoodRows
  <2>1. rows \in Table
    BY <1>4 DEF Init, Table
  <2>2. ASSUME NEW r \in RowIds, rows[r] # NoRow PROVE Fits(r, rows[r])
    <3>1. r \in DOMAIN Lines /\ rows[r] = Lines[r]
      BY <2>2 DEF Init
    <3>2. Sound(Lines[r]) /\ Lines[r] \in Row /\ r <= k
      BY <3>1, <1>1, <1>4, LinesAssumption
    <3>3. born[r] = [qty |-> Lines[r].qty, booked |-> Lines[r].booked]
      BY <3>1 DEF Init
    <3> QED BY <3>1, <3>2, <3>3, <1>1, <1>3 DEF Fits, Sound, Row, Most
  <2> QED BY <2>1, <2>2 DEF GoodRows
<1>8. \A c \in Callers : GoodJob(call[c])
  BY IdleIsGood DEF Init
<1>9. call \in [Callers -> Job]
  BY IdleIsGood DEF Init, GoodJob
<1> QED BY <1>3, <1>5, <1>6, <1>7, <1>8, <1>9 DEF IInv, GoodRest

-----------------------------------------------------------------------------
(* What steps have in common *)

\* Rows that no step has inserted stay sound while the rows that are saved are sound.
LEMMA FrameRows ==
  ASSUME GoodRows, UNCHANGED <<rows, born, newId>>
  PROVE  GoodRows'
BY DEF GoodRows, Fits

LEMMA Frame ==
  ASSUME IInv, NEW c \in Callers, NEW job, GoodJob(job), call' = [call EXCEPT ![c] = job],
         UNCHANGED <<newId, born>>, delivery' \in [Deliveries -> Paper], GoodRows'
  PROVE  IInv'
<1>1. call' \in [Callers -> Job]
  BY DEF IInv, GoodJob
<1>2. ASSUME NEW x \in Callers PROVE GoodJob(call[x])'
  <2>1. GoodJob(call'[x])
    BY DEF IInv
  <2> QED BY <2>1 DEF GoodJob, Fits
<1> QED BY <1>1, <1>2 DEF IInv, GoodRest

\* A request that changes no row and no delivery.
LEMMA FrameJob ==
  ASSUME IInv, NEW c \in Callers, NEW job, GoodJob(job), call' = [call EXCEPT ![c] = job],
         UNCHANGED <<lines, delivery>>
  PROVE  IInv'
BY Frame, FrameRows DEF IInv, GoodRest, lines

\* The copies of the rows R that a request loads.
CopyOf(R) == [r \in RowIds |-> IF r \in R THEN rows[r] ELSE NoRow]

\* A request that begins with rows of the table in its memory.
LEMMA LoadedIsGood ==
  ASSUME IInv, NEW R, NEW job \in Job,
         job.copies = CopyOf(R), \A r \in job.todo : r \in R /\ rows[r] # NoRow,
         job.row = 0, job.at \notin {"row", "reload", "counters", "return"},
         job.at = "load" => job.kind \in {"export", "drop"},
         job.at = "products" => job.kind = "sync", job.at \in {"delete", "insert"} => job.todo = {}
  PROVE  GoodJob(job)
<1>1. \A r \in RowIds : job.copies[r] # NoRow => Fits(r, job.copies[r])
  BY DEF IInv, GoodRows, CopyOf
<1>2. Plan(job)
  BY DEF Plan, Job, CopyOf
<1> QED BY <1>1, <1>2 DEF GoodJob

LEMMA LoadingFields ==
  ASSUME IInv, NEW kind \in Tasks, NEW at \in Places, NEW R
  PROVE  /\ Loading(kind, at, R) \in Job
         /\ Loading(kind, at, R).kind = kind
         /\ Loading(kind, at, R).at = at
         /\ Loading(kind, at, R).copies = CopyOf(R)
         /\ Loading(kind, at, R).todo = {}
         /\ Loading(kind, at, R).row = 0
<1>1. CopyOf(R) \in Table
  BY DEF Table, IInv, GoodRows, CopyOf
<1>2. Idle \in Job
  BY IdleIsGood DEF GoodJob
<1>3. Idle.todo = {} /\ Idle.row = 0
  BY DEF Idle
<1> QED BY <1>1, <1>2, <1>3 DEF Loading, Job, CopyOf

LEMMA Begins ==
  ASSUME IInv, NEW c \in Callers, NEW job, NEW figures, GoodJob(job),
         Begin(c, job, figures) \/ UserBegins(c, job, figures)
  PROVE  IInv'
BY FrameJob DEF UserBegins, Begin, lines, goods

-----------------------------------------------------------------------------
(* Requests begin *)

LEMMA BookBegins ==
  ASSUME IInv, NEW c \in Callers, NEW o \in Orders, Book(c, o)
  PROVE  IInv'
<1>1. PICK R \in (SUBSET RowsOf(o)) \ {{}}, n \in 1..MaxQty :
        UserBegins(c, [Loading("book", "next", RowsOf(o)) EXCEPT !.todo = R, !.want = n], Seen)
  BY DEF Book
<1> DEFINE base == Loading("book", "next", RowsOf(o))
           job == [base EXCEPT !.todo = R, !.want = n]
<1>2. "book" \in Tasks /\ "next" \in Places
  BY DEF Tasks, AllKinds, Places
<1>3. base \in Job /\ base.kind = "book" /\ base.at = "next" /\ base.row = 0 /\ base.todo = {}
      /\ base.copies = CopyOf(RowsOf(o))
  BY <1>2, LoadingFields
<1> HIDE DEF base
<1>4. R \in SUBSET RowIds /\ n \in Nat
  BY BoundsAssumption DEF RowsOf
<1>5. job \in Job
  BY <1>3, <1>4 DEF Job
<1>6. job.kind = "book" /\ job.at = "next" /\ job.row = 0 /\ job.todo = R
      /\ job.copies = base.copies
  BY <1>3 DEF Job
<1>7. \A r \in R : r \in RowsOf(o) /\ rows[r] # NoRow
  BY DEF RowsOf
<1> HIDE DEF job
<1>8. GoodJob(job)
  BY <1>3, <1>5, <1>6, <1>7, LoadedIsGood
<1> QED BY <1>1, <1>8, Begins DEF job, base

LEMMA ConfirmBegins ==
  ASSUME IInv, NEW c \in Callers, NEW o \in Orders, ConfirmBookings(c, o)
  PROVE  IInv'
<1>1. PICK R \in (SUBSET {r \in RowsOf(o) : rows[r].status = "TEMPORARY"}) \ {{}} :
        UserBegins(c, [Loading("confirm", "next", RowsOf(o)) EXCEPT !.todo = R], Seen)
  BY DEF ConfirmBookings
<1> DEFINE base == Loading("confirm", "next", RowsOf(o))
           job == [base EXCEPT !.todo = R]
<1>2. "confirm" \in Tasks /\ "next" \in Places
  BY DEF Tasks, AllKinds, Places
<1>3. base \in Job /\ base.kind = "confirm" /\ base.at = "next" /\ base.row = 0 /\ base.todo = {}
      /\ base.copies = CopyOf(RowsOf(o))
  BY <1>2, LoadingFields
<1> HIDE DEF base
<1>4. R \in SUBSET RowIds
  BY DEF RowsOf
<1>5. job \in Job
  BY <1>3, <1>4 DEF Job
<1>6. job.kind = "confirm" /\ job.at = "next" /\ job.row = 0 /\ job.todo = R
      /\ job.copies = base.copies
  BY <1>3 DEF Job
<1>7. \A r \in R : r \in RowsOf(o) /\ rows[r] # NoRow
  BY DEF RowsOf
<1> HIDE DEF job
<1>8. GoodJob(job)
  BY <1>3, <1>5, <1>6, <1>7, LoadedIsGood
<1> QED BY <1>1, <1>8, Begins DEF job, base

LEMMA RevertBegins ==
  ASSUME IInv, NEW c \in Callers, NEW q \in RowIds, RevertBooking(c, q)
  PROVE  IInv'
<1>1. UserBegins(c, [Loading("revert", "next", {q}) EXCEPT !.todo = {q}], Seen)
  BY DEF RevertBooking
<1> DEFINE base == Loading("revert", "next", {q})
           job == [base EXCEPT !.todo = {q}]
<1>2. "revert" \in Tasks /\ "next" \in Places
  BY DEF Tasks, AllKinds, Places
<1>3. base \in Job /\ base.kind = "revert" /\ base.at = "next" /\ base.row = 0 /\ base.todo = {}
      /\ base.copies = CopyOf({q})
  BY <1>2, LoadingFields
<1> HIDE DEF base
<1>4. {q} \in SUBSET RowIds
  OBVIOUS
<1>5. job \in Job
  BY <1>3, <1>4 DEF Job
<1>6. job.kind = "revert" /\ job.at = "next" /\ job.row = 0 /\ job.todo = {q}
      /\ job.copies = base.copies
  BY <1>3 DEF Job
<1>7. \A r \in {q} : r \in {q} /\ rows[r] # NoRow
  BY DEF RevertBooking, HasStatus
<1> HIDE DEF job
<1>8. GoodJob(job)
  BY <1>3, <1>5, <1>6, <1>7, LoadedIsGood
<1> QED BY <1>1, <1>8, Begins DEF job, base

LEMMA ExpireBegins ==
  ASSUME IInv, NEW c \in Callers, c = Cron, Expire
  PROVE  IInv'
<1>1. Begin(c, [Loading("expire", "next", Overdue) EXCEPT !.todo = Overdue], Seen)
  BY DEF Expire
<1> DEFINE base == Loading("expire", "next", Overdue)
           job == [base EXCEPT !.todo = Overdue]
<1>2. "expire" \in Tasks /\ "next" \in Places
  BY DEF Tasks, AllKinds, Places
<1>3. base \in Job /\ base.kind = "expire" /\ base.at = "next" /\ base.row = 0 /\ base.todo = {}
      /\ base.copies = CopyOf(Overdue)
  BY <1>2, LoadingFields
<1> HIDE DEF base
<1>4. Overdue \in SUBSET RowIds
  BY DEF Overdue
<1>5. job \in Job
  BY <1>3, <1>4 DEF Job
<1>6. job.kind = "expire" /\ job.at = "next" /\ job.row = 0 /\ job.todo = Overdue
      /\ job.copies = base.copies
  BY <1>3 DEF Job
<1>7. \A r \in Overdue : r \in Overdue /\ rows[r] # NoRow
  BY DEF Overdue, HasStatus
<1> HIDE DEF job
<1>8. GoodJob(job)
  BY <1>3, <1>5, <1>6, <1>7, LoadedIsGood
<1> QED BY <1>1, <1>8, Begins DEF job, base

LEMMA EditBegins ==
  ASSUME IInv, NEW c \in Callers, NEW o \in Orders, EditOrder(c, o)
  PROVE  IInv'
<1>1. UserBegins(c, [Loading("edit", "delete", RowsOf(o)) EXCEPT !.order = o], NoSums)
  BY DEF EditOrder
<1> DEFINE base == Loading("edit", "delete", RowsOf(o))
           job == [base EXCEPT !.order = o]
<1>2. "edit" \in Tasks /\ "delete" \in Places
  BY DEF Tasks, AllKinds, Places
<1>3. base \in Job /\ base.kind = "edit" /\ base.at = "delete" /\ base.row = 0 /\ base.todo = {}
      /\ base.copies = CopyOf(RowsOf(o))
  BY <1>2, LoadingFields
<1> HIDE DEF base
<1>4. o \in Orders \cup {NoOrder}
  OBVIOUS
<1>5. job \in Job
  BY <1>3, <1>4 DEF Job
<1>6. job.kind = "edit" /\ job.at = "delete" /\ job.row = 0 /\ job.todo = {}
      /\ job.copies = base.copies
  BY <1>3 DEF Job
<1>7. \A r \in {} : r \in RowsOf(o) /\ rows[r] # NoRow
  OBVIOUS
<1> HIDE DEF job
<1>8. GoodJob(job)
  BY <1>3, <1>5, <1>6, <1>7, LoadedIsGood
<1> QED BY <1>1, <1>8, Begins DEF job, base

LEMMA TouchBegins ==
  ASSUME IInv, NEW c \in Callers, NEW o \in Orders, TouchOrder(c, o)
  PROVE  IInv'
<1>1. UserBegins(c, [Loading("touch", "order", RowsOf(o)) EXCEPT !.order = o], NoSums)
  BY DEF TouchOrder
<1> DEFINE base == Loading("touch", "order", RowsOf(o))
           job == [base EXCEPT !.order = o]
<1>2. "touch" \in Tasks /\ "order" \in Places
  BY DEF Tasks, AllKinds, Places
<1>3. base \in Job /\ base.kind = "touch" /\ base.at = "order" /\ base.row = 0 /\ base.todo = {}
      /\ base.copies = CopyOf(RowsOf(o))
  BY <1>2, LoadingFields
<1> HIDE DEF base
<1>4. o \in Orders \cup {NoOrder}
  OBVIOUS
<1>5. job \in Job
  BY <1>3, <1>4 DEF Job
<1>6. job.kind = "touch" /\ job.at = "order" /\ job.row = 0 /\ job.todo = {}
      /\ job.copies = base.copies
  BY <1>3 DEF Job
<1>7. \A r \in {} : r \in RowsOf(o) /\ rows[r] # NoRow
  OBVIOUS
<1> HIDE DEF job
<1>8. GoodJob(job)
  BY <1>3, <1>5, <1>6, <1>7, LoadedIsGood
<1> QED BY <1>1, <1>8, Begins DEF job, base

\* A delivery that exists, with another status or quantity, is one.
LEMMA PaperTyped ==
  ASSUME IInv, NEW d \in Deliveries, delivery[d] # NoDelivery
  PROVE  /\ delivery[d] \in Delivery
         /\ \A st \in {"DRAFT", "PENDING_EXPORT", "SHIPPED"} :
              /\ [delivery[d] EXCEPT !.status = st] \in Delivery
              /\ \A n \in Nat : [[delivery[d] EXCEPT !.status = st] EXCEPT !.qty = n] \in Delivery
<1>1. delivery[d] \in Delivery
  BY DEF IInv, GoodRest, Paper
<1> QED BY <1>1 DEF Delivery

LEMMA DeliverBegins ==
  ASSUME IInv, NEW c \in Callers, NEW d \in Deliveries, NEW o \in Orders, CreateDelivery(c, d, o)
  PROVE  IInv'
<1>1. PICK p \in Products, n \in 1..MaxQty, draft \in BOOLEAN :
        UserBegins(c, [Loading("deliver", "paper", RowsOf(o)) EXCEPT !.order = o, !.id = d,
          !.paper = [order |-> o, product |-> p, qty |-> n,
                     status |-> IF draft THEN "DRAFT" ELSE "PENDING_EXPORT"]], NoSums)
  BY DEF CreateDelivery
<1> DEFINE base == Loading("deliver", "paper", RowsOf(o))
           job == [base EXCEPT !.order = o, !.id = d,
          !.paper = [order |-> o, product |-> p, qty |-> n,
                     status |-> IF draft THEN "DRAFT" ELSE "PENDING_EXPORT"]]
<1>2. "deliver" \in Tasks /\ "paper" \in Places
  BY DEF Tasks, AllKinds, Places
<1>3. base \in Job /\ base.kind = "deliver" /\ base.at = "paper" /\ base.row = 0 /\ base.todo = {}
      /\ base.copies = CopyOf(RowsOf(o))
  BY <1>2, LoadingFields
<1> HIDE DEF base
<1>4. [order |-> o, product |-> p, qty |-> n,
       status |-> IF draft THEN "DRAFT" ELSE "PENDING_EXPORT"] \in Paper
  BY BoundsAssumption DEF Paper, Delivery
<1>5. job \in Job
  BY <1>3, <1>4 DEF Job
<1>6. job.kind = "deliver" /\ job.at = "paper" /\ job.row = 0 /\ job.todo = {}
      /\ job.copies = base.copies
  BY <1>3 DEF Job
<1>7. \A r \in {} : r \in RowsOf(o) /\ rows[r] # NoRow
  OBVIOUS
<1> HIDE DEF job
<1>8. GoodJob(job)
  BY <1>3, <1>5, <1>6, <1>7, LoadedIsGood
<1> QED BY <1>1, <1>8, Begins DEF job, base

LEMMA MailBegins ==
  ASSUME IInv, NEW c \in Callers, NEW d \in Deliveries, SendDeliveryEmail(c, d)
  PROVE  IInv'
<1>1. UserBegins(c, [Loading("mail", "paper", {}) EXCEPT !.id = d, !.paper = [delivery[d] EXCEPT !.status = "SHIPPED"]], NoSums)
  BY DEF SendDeliveryEmail
<1> DEFINE base == Loading("mail", "paper", {})
           job == [base EXCEPT !.id = d, !.paper = [delivery[d] EXCEPT !.status = "SHIPPED"]]
<1>2. "mail" \in Tasks /\ "paper" \in Places
  BY DEF Tasks, AllKinds, Places
<1>3. base \in Job /\ base.kind = "mail" /\ base.at = "paper" /\ base.row = 0 /\ base.todo = {}
      /\ base.copies = CopyOf({})
  BY <1>2, LoadingFields
<1> HIDE DEF base
<1>4. [delivery[d] EXCEPT !.status = "SHIPPED"] \in Paper
  BY PaperTyped DEF SendDeliveryEmail, Paper
<1>5. job \in Job
  BY <1>3, <1>4 DEF Job
<1>6. job.kind = "mail" /\ job.at = "paper" /\ job.row = 0 /\ job.todo = {}
      /\ job.copies = base.copies
  BY <1>3 DEF Job
<1>7. \A r \in {} : r \in {} /\ rows[r] # NoRow
  OBVIOUS
<1> HIDE DEF job
<1>8. GoodJob(job)
  BY <1>3, <1>5, <1>6, <1>7, LoadedIsGood
<1> QED BY <1>1, <1>8, Begins DEF job, base

LEMMA IssueBegins ==
  ASSUME IInv, NEW c \in Callers, NEW o \in Orders, IssueMaterials(c, o)
  PROVE  IInv'
<1>1. PICK at \in {"issue", "bulk"} :
        UserBegins(c, [Loading("issue", at, {}) EXCEPT !.order = o], NoSums)
  BY DEF IssueMaterials
<1> DEFINE base == Loading("issue", at, {})
           job == [base EXCEPT !.order = o]
<1>2. "issue" \in Tasks /\ at \in Places
  BY DEF Tasks, AllKinds, Places
<1>3. base \in Job /\ base.kind = "issue" /\ base.at = at /\ base.row = 0 /\ base.todo = {}
      /\ base.copies = CopyOf({})
  BY <1>2, LoadingFields
<1> HIDE DEF base
<1>4. o \in Orders \cup {NoOrder}
  OBVIOUS
<1>5. job \in Job
  BY <1>3, <1>4 DEF Job
<1>6. job.kind = "issue" /\ job.at = at /\ job.row = 0 /\ job.todo = {}
      /\ job.copies = base.copies
  BY <1>3 DEF Job
<1>7. \A r \in RowIds : job.copies[r] = NoRow
  BY <1>3, <1>6 DEF CopyOf
<1> HIDE DEF job
<1>8. job.at \in {"issue", "bulk"}
  BY <1>6
<1>9. Plan(job)
  BY <1>6, <1>8 DEF Plan
<1>10. GoodJob(job)
  BY <1>5, <1>7, <1>9 DEF GoodJob
<1> QED BY <1>1, <1>10, Begins DEF job, base

LEMMA SyncBegins ==
  ASSUME IInv, NEW c \in Callers, SyncBookingStock(c)
  PROVE  IInv'
<1>1. UserBegins(c, Loading("sync", "products", {}), [NoSums EXCEPT
          !.newB = [s \in Singles |-> SumOf("TEMPORARY", s)],
          !.newA = [s \in Singles |-> SumOf("CONFIRMED", s)]])
  BY DEF SyncBookingStock
<1> DEFINE base == Loading("sync", "products", {})
           job == base
<1>2. "sync" \in Tasks /\ "products" \in Places
  BY DEF Tasks, AllKinds, Places
<1>3. base \in Job /\ base.kind = "sync" /\ base.at = "products" /\ base.row = 0 /\ base.todo = {}
      /\ base.copies = CopyOf({})
  BY <1>2, LoadingFields
<1> HIDE DEF base
<1>4. job = base
  OBVIOUS
<1>5. job \in Job
  BY <1>3, <1>4 DEF Job
<1>6. job.kind = "sync" /\ job.at = "products" /\ job.row = 0 /\ job.todo = {}
      /\ job.copies = base.copies
  BY <1>3 DEF Job
<1>7. \A r \in {} : r \in {} /\ rows[r] # NoRow
  OBVIOUS
<1> HIDE DEF job
<1>8. GoodJob(job)
  BY <1>3, <1>5, <1>6, <1>7, LoadedIsGood
<1> QED BY <1>1, <1>8, Begins DEF job, base

LEMMA ExportBegins ==
  ASSUME IInv, NEW c \in Callers, NEW d \in Deliveries, ConfirmStockExport(c, d)
  PROVE  IInv'
<1>0. delivery[d] # NoDelivery
  BY DEF ConfirmStockExport, NoDelivery
<1>1. UserBegins(c, [Loading("export", IF delivery[d].qty = 0 THEN "paper" ELSE "load", {}) EXCEPT !.id = d,
          !.paper = [delivery[d] EXCEPT !.status = "SHIPPED"], !.n = delivery[d].qty], NoSums)
  BY DEF ConfirmStockExport
<1> DEFINE at == IF delivery[d].qty = 0 THEN "paper" ELSE "load"
           base == Loading("export", IF delivery[d].qty = 0 THEN "paper" ELSE "load", {})
           job == [base EXCEPT !.id = d,
          !.paper = [delivery[d] EXCEPT !.status = "SHIPPED"], !.n = delivery[d].qty]
<1>2. "export" \in Tasks /\ at \in Places
  BY DEF Tasks, AllKinds, Places
<1>3. base \in Job /\ base.kind = "export" /\ base.at = at /\ base.row = 0 /\ base.todo = {}
      /\ base.copies = CopyOf({})
  BY <1>2, LoadingFields
<1> HIDE DEF base
<1>4. [delivery[d] EXCEPT !.status = "SHIPPED"] \in Paper /\ delivery[d].qty \in Nat
  BY <1>0, PaperTyped DEF Paper, Delivery
<1>5. job \in Job
  BY <1>3, <1>4 DEF Job
<1>6. job.kind = "export" /\ job.at = at /\ job.row = 0 /\ job.todo = {}
      /\ job.copies = base.copies
  BY <1>3 DEF Job
<1>7. \A r \in {} : r \in {} /\ rows[r] # NoRow
  OBVIOUS
<1> HIDE DEF job
<1>8. GoodJob(job)
  BY <1>3, <1>5, <1>6, <1>7, LoadedIsGood
<1> QED BY <1>1, <1>8, Begins DEF job, base

LEMMA DropBegins ==
  ASSUME IInv, NEW c \in Callers, NEW d \in Deliveries, DeleteDelivery(c, d)
  PROVE  IInv'
<1>1. UserBegins(c, [Loading("drop", IF delivery[d].qty = 0 THEN "lines" ELSE "load",
                RowsOf(delivery[d].order)) EXCEPT !.id = d, !.paper = delivery[d], !.n = delivery[d].qty], NoSums)
  BY DEF DeleteDelivery
<1> DEFINE at == IF delivery[d].qty = 0 THEN "lines" ELSE "load"
           base == Loading("drop", IF delivery[d].qty = 0 THEN "lines" ELSE "load",
                RowsOf(delivery[d].order))
           job == [base EXCEPT !.id = d, !.paper = delivery[d], !.n = delivery[d].qty]
<1>2. "drop" \in Tasks /\ at \in Places
  BY DEF Tasks, AllKinds, Places
<1>3. base \in Job /\ base.kind = "drop" /\ base.at = at /\ base.row = 0 /\ base.todo = {}
      /\ base.copies = CopyOf(RowsOf(delivery[d].order))
  BY <1>2, LoadingFields
<1> HIDE DEF base
<1>4. delivery[d] \in Paper /\ delivery[d].qty \in Nat
  BY PaperTyped DEF DeleteDelivery, Paper, Delivery
<1>5. job \in Job
  BY <1>3, <1>4 DEF Job
<1>6. job.kind = "drop" /\ job.at = at /\ job.row = 0 /\ job.todo = {}
      /\ job.copies = base.copies
  BY <1>3 DEF Job
<1>7. \A r \in {} : r \in RowsOf(delivery[d].order) /\ rows[r] # NoRow
  OBVIOUS
<1> HIDE DEF job
<1>8. GoodJob(job)
  BY <1>3, <1>5, <1>6, <1>7, LoadedIsGood
<1> QED BY <1>1, <1>8, Begins DEF job, base

LEMMA UpdateBegins ==
  ASSUME IInv, NEW c \in Callers, NEW d \in Deliveries, UpdateDelivery(c, d)
  PROVE  IInv'
<1> DEFINE base == Loading("update", "paper", {})
           kept(st) == [base EXCEPT !.id = d, !.paper = [delivery[d] EXCEPT !.status = st]]
           lined(st, n) == [kept(st) EXCEPT !.at = "lines", !.paper.qty = n]
<1>1. PICK st \in {"DRAFT", "PENDING_EXPORT", "SHIPPED"} :
        \/ UserBegins(c, kept(st), NoSums)
        \/ \E n \in 1..MaxQty : UserBegins(c, lined(st, n), NoSums)
  BY DEF UpdateDelivery
<1>2. "update" \in Tasks /\ "paper" \in Places /\ "lines" \in Places
  BY DEF Tasks, AllKinds, Places
<1>3. base \in Job /\ base.kind = "update" /\ base.at = "paper" /\ base.row = 0 /\ base.todo = {}
      /\ base.copies = CopyOf({})
  BY <1>2, LoadingFields
<1> HIDE DEF base
<1> DEFINE paper == [delivery[d] EXCEPT !.status = st]
<1>4. paper \in Delivery /\ \A n \in Nat : [paper EXCEPT !.qty = n] \in Delivery
  BY PaperTyped DEF UpdateDelivery
<1> HIDE DEF paper
<1>5. kept(st) \in Job /\ kept(st).at = "paper" /\ kept(st).row = 0 /\ kept(st).todo = {}
      /\ kept(st).copies = base.copies /\ kept(st).paper = paper
  BY <1>3, <1>4 DEF Job, Paper, paper
<1> HIDE DEF kept
<1>6. ASSUME NEW n \in Nat PROVE GoodJob(lined(st, n))
  <2>1. lined(st, n) = [kept(st) EXCEPT !.at = "lines", !.paper = [paper EXCEPT !.qty = n]]
    BY <1>5
  <2>2. lined(st, n) \in Job /\ lined(st, n).at = "lines" /\ lined(st, n).row = 0
        /\ lined(st, n).todo = {} /\ lined(st, n).copies = base.copies
    BY <2>1, <1>2, <1>4, <1>5 DEF Job, Paper
  <2> HIDE DEF lined
  <2> QED BY <2>2, <1>3, LoadedIsGood
<1>7. GoodJob(kept(st))
  BY <1>3, <1>5, LoadedIsGood
<1> HIDE DEF lined
<1>8. ASSUME UserBegins(c, kept(st), NoSums) PROVE IInv'
  BY <1>7, <1>8, Begins
<1>9. ASSUME NEW n \in 1..MaxQty, UserBegins(c, lined(st, n), NoSums) PROVE IInv'
  BY <1>6, <1>9, Begins, BoundsAssumption
<1> QED BY <1>1, <1>8, <1>9

-----------------------------------------------------------------------------
(* Requests go on *)

\* A request that has no row at hand which it is about to save.
LEMMA GoesOn ==
  ASSUME IInv, NEW c \in Callers, NEW job \in Job, job.copies = call[c].copies,
         job.todo \subseteq call[c].todo, job.row \in {0, call[c].row},
         job.at \notin {"row", "reload", "counters", "return", "load", "products", "insert",
                        "delete"}
  PROVE  GoodJob(job)
BY DEF IInv, GoodJob, Plan

LEMMA Ends ==
  ASSUME IInv, NEW c \in Callers, End(c), UNCHANGED <<newId, born>>,
         delivery' \in [Deliveries -> Paper], GoodRows'
  PROVE  IInv'
BY IdleIsGood, Frame DEF End, Become

LEMMA GotoIsGood ==
  ASSUME IInv, NEW c \in Callers,
         NEW at \in Places \ {"row", "reload", "counters", "return", "load", "products", "insert",
                        "delete"}
  PROVE  GoodJob([call[c] EXCEPT !.at = at])
<1> DEFINE job == [call[c] EXCEPT !.at = at]
<1>1. call[c] \in Job
  BY DEF IInv
<1>2. job \in Job /\ job.copies = call[c].copies /\ job.todo = call[c].todo
      /\ job.row = call[c].row /\ job.at = at
  BY <1>1 DEF Job
<1> HIDE DEF job
<1>3. GoodJob(job)
  BY <1>2, GoesOn
<1> QED BY <1>3 DEF job

LEMMA Goes ==
  ASSUME IInv, NEW c \in Callers,
         NEW at \in Places \ {"row", "reload", "counters", "return", "load", "products", "insert",
                        "delete"},
         Goto(c, at), UNCHANGED <<newId, born>>,
         delivery' \in [Deliveries -> Paper], GoodRows'
  PROVE  IInv'
BY GotoIsGood, Frame DEF Goto, Become

LEMMA SkipIsGood ==
  ASSUME IInv, NEW c \in Callers, NEW q, Skip(c, q)
  PROVE  \E job : GoodJob(job) /\ call' = [call EXCEPT ![c] = job]
<1> DEFINE rest == call[c].todo \ {q}
           job == [call[c] EXCEPT !.at = "next", !.todo = rest]
<1>1. CASE rest = {}
  BY <1>1, IdleIsGood DEF Skip, End, Become
<1>2. CASE rest # {}
  <2>1. call[c] \in Job /\ "next" \in Places
    BY DEF IInv, Places
  <2>2. job \in Job /\ job.copies = call[c].copies /\ job.todo = rest
        /\ job.row = call[c].row /\ job.at = "next"
    BY <2>1 DEF Job
  <2>3. call' = [call EXCEPT ![c] = job]
    BY <1>2 DEF Skip, Become
  <2> HIDE DEF job
  <2>4. GoodJob(job)
    BY <2>2, GoesOn
  <2> QED BY <2>3, <2>4
<1> QED BY <1>1, <1>2

LEMMA DeliveryTyped == ASSUME IInv, UNCHANGED delivery PROVE delivery' \in [Deliveries -> Paper]
BY DEF IInv, GoodRest

LEMMA RowsKept == ASSUME IInv, UNCHANGED lines PROVE GoodRows'
BY FrameRows DEF IInv, lines

LEMMA IssueSaved == ASSUME IInv, NEW c \in Callers, SaveIssue(c) PROVE IInv'
BY Goes, DeliveryTyped, RowsKept DEF SaveIssue, lines, goods, Places

LEMMA LinesCleared == ASSUME IInv, NEW c \in Callers, ClearLines(c) PROVE IInv'
<1> DEFINE d == call[c].id
<1>1. delivery' \in [Deliveries -> Paper]
  <2>1. delivery \in [Deliveries -> Paper]
    BY DEF IInv, GoodRest
  <2>2. d \in Deliveries /\ delivery[d] # NoDelivery =>
          [delivery[d] EXCEPT !.qty = 0] \in Paper
    BY <2>1 DEF Paper, Delivery
  <2> QED BY <2>1, <2>2 DEF ClearLines
<1>2. "gone" \in Places /\ "paper" \in Places
  BY DEF Places
<1> QED BY <1>1, <1>2, Goes, RowsKept DEF ClearLines, lines

LEMMA PaperSaved == ASSUME IInv, NEW c \in Callers, SavePaper(c) PROVE IInv'
<1>1. delivery' \in [Deliveries -> Paper]
  BY DEF SavePaper, IInv, GoodRest, Job
<1>2. "order" \in Places
  BY DEF Places
<1> QED BY <1>1, <1>2, Goes, Ends, RowsKept DEF SavePaper, lines

LEMMA PaperRemoved == ASSUME IInv, NEW c \in Callers, RemovePaper(c) PROVE IInv'
<1>1. delivery' \in [Deliveries -> Paper]
  BY DEF RemovePaper, IInv, GoodRest, Paper
<1> QED BY <1>1, Ends, RowsKept DEF RemovePaper, lines

LEMMA Unbooked == ASSUME IInv, NEW c \in Callers, Unbook(c) PROVE IInv'
BY Goes, DeliveryTyped, RowsKept DEF Unbook, lines, goods, Places

LEMMA StockTaken == ASSUME IInv, NEW c \in Callers, TakeStock(c) PROVE IInv'
<1>1. PICK s \in call[c].parts :
        call' = [call EXCEPT ![c] = [call[c] EXCEPT !.at = "unbook", !.part = s]]
  BY DEF TakeStock, Become
<1> DEFINE job == [call[c] EXCEPT !.at = "unbook", !.part = s]
<1>2. call[c] \in Job /\ "unbook" \in Places
  BY DEF IInv, Places
<1>3. s \in Singles
  BY <1>2 DEF Job
<1>4. job \in Job /\ job.copies = call[c].copies /\ job.todo = call[c].todo
      /\ job.row = call[c].row /\ job.at = "unbook"
  BY <1>2, <1>3 DEF Job
<1> HIDE DEF job
<1>5. GoodJob(job)
  BY <1>4, GoesOn
<1> QED BY <1>1, <1>5, FrameJob DEF TakeStock, job

LEMMA Unapproved == ASSUME IInv, NEW c \in Callers, Unapprove(c) PROVE IInv'
<1> DEFINE s == call[c].part
           at == IF call[c].parts = {s} THEN "paper" ELSE "take"
           job == [call[c] EXCEPT !.at = at, !.parts = @ \ {s}]
<1>1. call' = [call EXCEPT ![c] = job]
  BY DEF Unapprove, Become
<1>2. call[c] \in Job /\ at \in Places
  BY DEF IInv, Places
<1>3. job \in Job
  BY <1>2 DEF Job
<1>4. job.copies = call[c].copies /\ job.todo = call[c].todo
      /\ job.row = call[c].row /\ job.at = at
  BY <1>2 DEF Job
<1> HIDE DEF job
<1>5. GoodJob(job)
  BY <1>3, <1>4, GoesOn
<1> QED BY <1>1, <1>5, FrameJob DEF Unapprove, goods

LEMMA StockReturned == ASSUME IInv, NEW c \in Callers, ReturnStock(c) PROVE IInv'
<1> DEFINE job == [call[c] EXCEPT !.at = AtRow(c)]
<1>1. call' = [call EXCEPT ![c] = job]
  BY DEF ReturnStock, Goto, Become
<1>2. call[c] \in Job /\ AtRow(c) \in Places /\ call[c].at = "return" /\ Plan(call[c])
  BY DEF IInv, GoodJob, Places, AtRow, ReturnStock, At
<1>3. job \in Job
  BY <1>2 DEF Job
<1>4. job.copies = call[c].copies /\ job.todo = call[c].todo /\ job.kind = call[c].kind
      /\ job.row = call[c].row /\ job.at = AtRow(c)
  BY <1>2 DEF Job
<1> HIDE DEF job
<1>5. Plan(job)
  BY <1>2, <1>4 DEF Plan, AtRow
<1>6. GoodJob(job)
  BY <1>3, <1>4, <1>5 DEF GoodJob, IInv
<1> QED BY <1>1, <1>6, FrameJob DEF ReturnStock

LEMMA ProductsLoaded == ASSUME IInv, NEW c \in Callers, LoadProducts(c) PROVE IInv'
<1> DEFINE wrong == {s \in Singles : booking[s] # sums[c].newB[s] \/ approved[s] # sums[c].newA[s]}
           at == IF wrong = {} THEN "bulk" ELSE "counters"
           job == [call[c] EXCEPT !.at = at, !.parts = wrong]
<1>1. call' = [call EXCEPT ![c] = job]
  BY DEF LoadProducts, Become
<1> wrong \in SUBSET Singles
  OBVIOUS
<1> HIDE DEF wrong
<1>2. call[c] \in Job /\ at \in Places /\ Plan(call[c]) /\ call[c].kind = "sync"
  BY DEF IInv, GoodJob, Plan, Places, LoadProducts, At
<1>3. job \in Job
  BY <1>2 DEF Job
<1>4. job.copies = call[c].copies /\ job.todo = call[c].todo /\ job.kind = call[c].kind
      /\ job.row = call[c].row /\ job.at = at
  BY <1>2 DEF Job
<1> HIDE DEF job
<1>5. Plan(job)
  BY <1>2, <1>4 DEF Plan
<1>6. GoodJob(job)
  BY <1>3, <1>4, <1>5 DEF GoodJob, IInv
<1> QED BY <1>1, <1>6, FrameJob DEF LoadProducts, goods

LEMMA ProductLoaded == ASSUME IInv, NEW c \in Callers, LoadProduct(c) PROVE IInv'
<1> DEFINE p == call[c].paper.product
           own == {r \in Loaded(c) : call[c].copies[r].product = p}
           next(r) == IF call[c].kind = "export" THEN "take"
                      ELSE IF call[c].paper.status = "SHIPPED" THEN "return"
                      ELSE IF call[c].paper.status = "PENDING_EXPORT" THEN "counters"
                      ELSE IF r = 0 THEN "lines" ELSE "row"
           job(r) == [call[c] EXCEPT !.row = r, !.parts = Needed(p), !.at = next(r)]
<1>1. PICK r \in (IF call[c].kind = "drop" /\ own # {} THEN own ELSE {0}) :
        call' = [call EXCEPT ![c] = job(r)]
  BY DEF LoadProduct, Become
<1>2. call[c] \in Job /\ Plan(call[c]) /\ call[c].at = "load"
  BY DEF IInv, GoodJob, LoadProduct, At
<1>3. r \in 0..MaxRow /\ (r # 0 => call[c].copies[r] # NoRow /\ call[c].kind = "drop")
  BY LinesAssumption DEF Loaded
<1>4. next(r) \in Places
  BY DEF Places
<1>5. Needed(p) \in SUBSET Singles
  BY DEF Needed
<1>6. job(r) \in Job
  BY <1>2, <1>3, <1>4, <1>5 DEF Job
<1>7. job(r).copies = call[c].copies /\ job(r).todo = call[c].todo /\ job(r).row = r
      /\ job(r).at = next(r) /\ job(r).kind = call[c].kind
  BY <1>2 DEF Job
<1> HIDE DEF job, own
<1>8. Plan(job(r))
  BY <1>2, <1>3, <1>7 DEF Plan
<1>9. GoodJob(job(r))
  BY <1>6, <1>7, <1>8 DEF GoodJob, IInv
<1> QED BY <1>1, <1>9, FrameJob DEF LoadProduct, goods

LEMMA CounterSaved == ASSUME IInv, NEW c \in Callers, SaveCounter(c) PROVE IInv'
<1> DEFINE done == IF call[c].kind = "sync" THEN "bulk" ELSE AtRow(c)
           at(s) == IF call[c].parts = {s} THEN done ELSE call[c].at
           job(s) == [call[c] EXCEPT !.parts = @ \ {s}, !.at = at(s)]
<1>1. PICK s \in call[c].parts : call' = [call EXCEPT ![c] = job(s)]
  BY DEF SaveCounter, Become
<1>2. call[c] \in Job /\ Plan(call[c]) /\ call[c].at = "counters"
  BY DEF IInv, GoodJob, SaveCounter, At
<1>3. at(s) \in Places
  BY <1>2 DEF AtRow, Places
<1>4. job(s) \in Job
  BY <1>2, <1>3 DEF Job
<1>5. job(s).copies = call[c].copies /\ job(s).todo = call[c].todo /\ job(s).row = call[c].row
      /\ job(s).at = at(s) /\ job(s).kind = call[c].kind /\ job(s).n = call[c].n
  BY <1>2 DEF Job
<1> HIDE DEF job
<1>6. Plan(job(s))
  BY <1>2, <1>5 DEF Plan, AtRow
<1>7. GoodJob(job(s))
  BY <1>4, <1>5, <1>6 DEF GoodJob, IInv
<1> QED BY <1>1, <1>7, FrameJob DEF SaveCounter, goods

LEMMA Reloaded == ASSUME IInv, NEW c \in Callers, Reload(c) PROVE IInv'
<1> DEFINE job == [call[c] EXCEPT !.at = "counters"]
<1>1. call' = [call EXCEPT ![c] = job]
  BY DEF Reload, Become
<1>2. call[c] \in Job /\ Plan(call[c]) /\ call[c].at = "reload" /\ "counters" \in Places
  BY DEF IInv, GoodJob, Reload, At, Places
<1>3. job \in Job
  BY <1>2 DEF Job
<1>4. job.copies = call[c].copies /\ job.todo = call[c].todo /\ job.row = call[c].row
      /\ job.at = "counters" /\ job.kind = call[c].kind /\ job.n = call[c].n
  BY <1>2 DEF Job
<1> HIDE DEF job
<1>5. Plan(job)
  BY <1>2, <1>4 DEF Plan
<1>6. GoodJob(job)
  BY <1>3, <1>4, <1>5 DEF GoodJob, IInv
<1> QED BY <1>1, <1>6, FrameJob DEF Reload, goods

\* The row to treat and the quantity are chosen, and its counters come next.
LEMMA Treats ==
  ASSUME IInv, NEW c \in Callers, NEW q \in call[c].todo, NEW n \in Nat,
         NEW at \in {"counters", "reload"}, at = "reload" => call[c].kind = "confirm",
         call[c].kind \in {"book", "confirm", "expire", "revert"},
         call[c].kind = "book" => call[c].copies[q].booked + n <= call[c].copies[q].qty,
         call[c].kind = "confirm" => n <= call[c].copies[q].qty,
         NEW P \in SUBSET Singles
  PROVE  /\ GoodJob([call[c] EXCEPT !.at = at, !.row = q, !.n = n, !.parts = P])
         /\ call[c].kind \in {"expire", "revert"} =>
              GoodJob([call[c] EXCEPT !.at = at, !.row = q, !.parts = P])
<1>1. call[c] \in Job /\ Plan(call[c]) /\ at \in Places
  BY DEF IInv, GoodJob, Places
<1>2. q \in 0..MaxRow /\ q # 0 /\ call[c].copies[q] # NoRow
  BY <1>1, LinesAssumption DEF Job, Plan
<1>3. GoodJob([call[c] EXCEPT !.at = at, !.row = q, !.n = n, !.parts = P])
  <2> DEFINE job == [call[c] EXCEPT !.at = at, !.row = q, !.n = n, !.parts = P]
  <2>1. job \in Job
    BY <1>1, <1>2 DEF Job
  <2>2. job.copies = call[c].copies /\ job.todo = call[c].todo /\ job.row = q
        /\ job.at = at /\ job.kind = call[c].kind /\ job.n = n
    BY <1>1 DEF Job
  <2> HIDE DEF job
  <2>3. Plan(job)
    BY <1>1, <1>2, <2>2 DEF Plan
  <2>4. GoodJob(job)
    BY <2>1, <2>2, <2>3 DEF GoodJob, IInv
  <2> QED BY <2>4 DEF job
<1>4. ASSUME call[c].kind \in {"expire", "revert"}
      PROVE  GoodJob([call[c] EXCEPT !.at = at, !.row = q, !.parts = P])
  <2> DEFINE job == [call[c] EXCEPT !.at = at, !.row = q, !.parts = P]
  <2>1. job \in Job
    BY <1>1, <1>2 DEF Job
  <2>2. job.copies = call[c].copies /\ job.todo = call[c].todo /\ job.row = q
        /\ job.at = at /\ job.kind = call[c].kind
    BY <1>1 DEF Job
  <2> HIDE DEF job
  <2>3. Plan(job)
    BY <1>1, <1>2, <1>4, <2>2 DEF Plan
  <2>4. GoodJob(job)
    BY <2>1, <2>2, <2>3 DEF GoodJob, IInv
  <2> QED BY <2>4 DEF job
<1> QED BY <1>3, <1>4

LEMMA Treated == ASSUME IInv, NEW c \in Callers, Treat(c) PROVE IInv'
<1>1. PICK q \in call[c].todo :
        TreatBook(c, q) \/ TreatConfirm(c, q) \/ TreatExpire(c, q) \/ TreatRevert(c, q)
  BY DEF Treat
<1> DEFINE row == call[c].copies[q]
<1>2. row \in Row /\ q \in RowIds /\ call[c].want \in Nat
  <2>1. call[c] \in Job /\ Plan(call[c])
    BY DEF IInv, GoodJob
  <2> QED BY <2>1 DEF Job, Plan, Table
<1>3. \A p : Needed(p) \in SUBSET Singles
  BY DEF Needed
<1>4. UNCHANGED <<lines, delivery>>
  BY DEF Treat, goods
<1> SUFFICES \E job : GoodJob(job) /\ call' = [call EXCEPT ![c] = job]
  BY <1>4, FrameJob
<1>5. CASE TreatBook(c, q)
  <2> DEFINE n == ToBook(c, q)
  <2>1. n \in Int /\ (n > 0 => row.booked + n <= row.qty)
    BY <1>2 DEF ToBook, Least, Minus, Row
  <2>2. CASE n > 0 /\ Bookable(row.product, n, sums[c].stock, SourceA(c, row.product))
    <3>1. call' = [call EXCEPT ![c] = [call[c] EXCEPT !.at = "counters", !.row = q, !.n = n,
                                                      !.parts = Needed(row.product)]]
      BY <1>5, <2>2 DEF TreatBook, Become
    <3>2. n \in Nat /\ call[c].kind = "book"
      BY <1>5, <2>1, <2>2 DEF TreatBook
    <3> HIDE DEF n
    <3> QED BY <1>3, <2>1, <2>2, <3>1, <3>2, Treats
  <2>3. CASE ~(n > 0 /\ Bookable(row.product, n, sums[c].stock, SourceA(c, row.product)))
    <3>1. Skip(c, q)
      BY <1>5, <2>3 DEF TreatBook
    <3> QED BY <3>1, SkipIsGood
  <2> QED BY <2>2, <2>3
<1>6. CASE TreatConfirm(c, q)
  <2> DEFINE at == IF row.product \in Combos THEN "reload" ELSE "counters"
  <2>1. PICK n \in 0..row.qty :
          call' = [call EXCEPT ![c] = [call[c] EXCEPT !.at = at, !.row = q, !.n = n,
                                                      !.parts = Needed(row.product)]]
    BY <1>6 DEF TreatConfirm, Become
  <2>2. call[c].kind = "confirm" /\ n \in Nat /\ n <= row.qty /\ at \in {"counters", "reload"}
    BY <1>2, <1>6, <2>1 DEF TreatConfirm, Row
  <2> HIDE DEF at
  <2> QED BY <1>3, <2>1, <2>2, Treats
<1>7. CASE TreatExpire(c, q)
  BY <1>3, <1>7, Treats DEF TreatExpire, Become
<1>8. CASE TreatRevert(c, q)
  BY <1>3, <1>8, Treats DEF TreatRevert, Become
<1> QED BY <1>1, <1>5, <1>6, <1>7, <1>8

-----------------------------------------------------------------------------
(* Rows are written *)

\* What a request makes of a sound row is sound.
LEMMA SoundSaves ==
  ASSUME NEW q, NEW row \in Row, NEW n \in Nat, Fits(q, row), born[q].booked \in Nat
  PROVE  /\ row.booked + n <= row.qty => Reserved(row, n) \in Row /\ Fits(q, Reserved(row, n))
         /\ Expired(row) \in Row /\ Fits(q, Expired(row))
         /\ Reverted(row) \in Row /\ Fits(q, Reverted(row))
         /\ Returned(row, n) \in Row /\ Fits(q, Returned(row, n))
         /\ n <= row.qty =>
              LET confirmed == [row EXCEPT !.status = "CONFIRMED", !.ends = "never", !.booked = n]
              IN  confirmed \in Row /\ Fits(q, confirmed)
<1>1. row.qty \in Nat /\ row.booked \in Nat
  BY DEF Row
<1>2. ASSUME row.booked + n <= row.qty
      PROVE  Reserved(row, n) \in Row /\ Fits(q, Reserved(row, n))
  <2>1. Reserved(row, n) \in Row
    <3>1. row.booked + n \in Nat
      BY <1>1
    <3> QED BY <3>1 DEF Reserved, Row
  <2>2. /\ Reserved(row, n).qty = row.qty /\ Reserved(row, n).booked = row.booked + n
        /\ Reserved(row, n).status = "TEMPORARY" /\ Reserved(row, n).ends = "later"
    BY DEF Reserved, Row
  <2> QED BY <1>1, <1>2, <2>1, <2>2 DEF Fits, Most
<1>3. Expired(row) \in Row /\ Fits(q, Expired(row))
  <2>1. Expired(row) \in Row
    BY DEF Expired, Row
  <2>2. /\ Expired(row).qty = row.qty /\ Expired(row).booked = 0
        /\ Expired(row).status = "EXPIRED"
    BY DEF Expired, Row
  <2> QED BY <1>1, <2>1, <2>2 DEF Fits, Most
<1>4. Reverted(row) \in Row /\ Fits(q, Reverted(row))
  <2>1. Reverted(row) \in Row
    BY DEF Reverted, Row
  <2>2. /\ Reverted(row).qty = row.qty /\ Reverted(row).booked = row.booked
        /\ Reverted(row).status = "TEMPORARY" /\ Reverted(row).ends = "later"
    BY DEF Reverted, Row
  <2> QED BY <1>1, <2>1, <2>2 DEF Fits
<1>5. Returned(row, n) \in Row /\ Fits(q, Returned(row, n))
  <2>1. Minus(row.booked, n) \in Nat
    BY <1>1 DEF Minus
  <2>2. Returned(row, n) \in Row
    BY <2>1 DEF Returned, Row
  <2>3. /\ Returned(row, n).qty = row.qty /\ Returned(row, n).booked = Minus(row.booked, n)
        /\ Returned(row, n).status = IF row.booked <= n THEN "NONE" ELSE row.status
        /\ Returned(row, n).ends = row.ends
    BY DEF Returned, Row
  <2>4. Minus(row.booked, n) <= row.booked /\ (row.booked <= n => Minus(row.booked, n) = 0)
    BY <1>1 DEF Minus
  <2> QED BY <1>1, <2>1, <2>2, <2>3, <2>4 DEF Fits, Most
<1>6. ASSUME n <= row.qty
      PROVE  LET confirmed == [row EXCEPT !.status = "CONFIRMED", !.ends = "never", !.booked = n]
             IN  confirmed \in Row /\ Fits(q, confirmed)
  <2> DEFINE confirmed == [row EXCEPT !.status = "CONFIRMED", !.ends = "never", !.booked = n]
  <2>1. confirmed \in Row
    BY DEF Row
  <2>2. /\ confirmed.qty = row.qty /\ confirmed.booked = n
        /\ confirmed.status = "CONFIRMED" /\ confirmed.ends = "never"
    BY DEF Row
  <2> HIDE DEF confirmed
  <2>3. confirmed \in Row /\ Fits(q, confirmed)
    BY <1>1, <1>6, <2>1, <2>2 DEF Fits, Most
  <2> QED BY <2>3 DEF confirmed
<1> QED BY <1>2, <1>3, <1>4, <1>5, <1>6

LEMMA RowSaved == ASSUME IInv, NEW c \in Callers, SaveRow(c) PROVE IInv'
<1> DEFINE q == call[c].row
           copy == call[c].copies[q]
           n == call[c].n
<1>1. call[c] \in Job /\ Plan(call[c]) /\ call[c].at = "row"
  BY DEF IInv, GoodJob, SaveRow, At
<1>2. q \in RowIds /\ copy \in Row /\ n \in Nat /\ Fits(q, copy)
  <2>1. q # 0 /\ copy # NoRow /\ q \in RowIds /\ n \in Nat
    BY <1>1, LinesAssumption DEF Plan, Job
  <2> QED BY <1>1, <2>1 DEF Job, Table, IInv, GoodJob
<1>3. rows \in Table /\ (rows[q] # NoRow => rows[q] \in Row /\ Fits(q, rows[q]))
  BY <1>2 DEF IInv, GoodRows, Table
<1>4. born[q].qty \in Nat /\ born[q].booked \in Nat
  BY <1>2 DEF IInv, GoodRest
<1>5. Saved(c) = NoRow \/ (Saved(c) \in Row /\ Fits(q, Saved(c)))
  <2>1. CASE call[c].kind = "book"
    <3>1. copy.booked + n <= copy.qty
      BY <1>1, <2>1 DEF Plan
    <3>2. Saved(c) = Reserved(copy, n)
      BY <2>1 DEF Saved
    <3> HIDE DEF q, copy, n
    <3>3. Reserved(copy, n) \in Row /\ Fits(q, Reserved(copy, n))
      BY <1>2, <1>4, <3>1, SoundSaves
    <3> QED BY <3>2, <3>3
  <2>2. CASE call[c].kind = "expire"
    BY <1>2, <1>4, <2>2, SoundSaves DEF Saved
  <2>3. CASE call[c].kind = "revert"
    BY <1>2, <1>4, <2>3, SoundSaves DEF Saved
  <2>4. CASE call[c].kind = "drop"
    BY <1>2, <1>4, <2>4, SoundSaves DEF Saved
  <2>5. CASE call[c].kind = "confirm"
    <3>1. n <= copy.qty
      BY <1>1, <2>5 DEF Plan
    <3>2. Saved(c) = IF rows[q] = NoRow THEN NoRow
                     ELSE [rows[q] EXCEPT !.status = "CONFIRMED", !.ends = "never", !.booked = n]
      BY <2>5 DEF Saved
    <3>3. rows[q] # NoRow => n <= rows[q].qty
      BY <1>2, <1>3, <3>1 DEF Fits
    <3> HIDE DEF q, copy, n
    <3>4. rows[q] # NoRow => [rows[q] EXCEPT !.status = "CONFIRMED", !.ends = "never",
                                             !.booked = n] \in Row
                             /\ Fits(q, [rows[q] EXCEPT !.status = "CONFIRMED",
                                                        !.ends = "never", !.booked = n])
      BY <1>2, <1>3, <1>4, <3>3, SoundSaves
    <3> QED BY <3>2, <3>4
  <2> QED BY <1>1, <2>1, <2>2, <2>3, <2>4, <2>5 DEF Plan
<1>6. GoodRows'
  <2>1. rows' = [rows EXCEPT ![q] = Saved(c)] /\ UNCHANGED <<newId, born>>
    BY DEF SaveRow
  <2>2. rows' \in Table
    BY <1>3, <1>5, <2>1 DEF Table
  <2>3. ASSUME NEW r \in RowIds, rows'[r] # NoRow PROVE Fits(r, rows'[r])
    BY <1>2, <1>3, <1>5, <2>1, <2>3 DEF IInv, GoodRows, Table
  <2> QED BY <2>1, <2>2, <2>3 DEF GoodRows, Fits
<1>7. UNCHANGED <<newId, born, delivery>>
  BY DEF SaveRow, goods
<1>8. "lines" \in Places
  BY DEF Places
<1>9. CASE call[c].kind = "drop"
  BY <1>6, <1>7, <1>8, <1>9, Goes, DeliveryTyped DEF SaveRow
<1>10. CASE call[c].kind # "drop"
  BY <1>6, <1>7, <1>10, SkipIsGood, Frame, DeliveryTyped DEF SaveRow
<1> QED BY <1>9, <1>10

LEMMA RowsDeleted == ASSUME IInv, NEW c \in Callers, DeleteRows(c) PROVE IInv'
<1>1. UNCHANGED <<newId, born, delivery>>
  BY DEF DeleteRows, goods
<1>2. GoodRows'
  BY <1>1 DEF DeleteRows, IInv, GoodRows, Table, Fits
<1> DEFINE job == [call[c] EXCEPT !.at = "insert"]
<1>3. call' = [call EXCEPT ![c] = job]
  BY DEF DeleteRows, Goto, Become
<1>4. call[c] \in Job /\ Plan(call[c]) /\ call[c].at = "delete" /\ "insert" \in Places
  BY DEF IInv, GoodJob, DeleteRows, At, Places
<1>5. job \in Job
  BY <1>4 DEF Job
<1>6. job.copies = call[c].copies /\ job.todo = call[c].todo /\ job.row = call[c].row
      /\ job.at = "insert"
  BY <1>4 DEF Job
<1> HIDE DEF job
<1>7. Plan(job)
  BY <1>4, <1>6 DEF Plan
<1>8. GoodJob(job)
  BY <1>5, <1>6, <1>7 DEF GoodJob, IInv
<1> QED BY <1>1, <1>2, <1>3, <1>8, Frame, DeliveryTyped

LEMMA OrderSaved == ASSUME IInv, NEW c \in Callers, SaveOrder(c) PROVE IInv'
<1>1. UNCHANGED <<newId, born, delivery>>
  BY DEF SaveOrder, goods
<1>2. GoodRows'
  <2>1. rows \in Table /\ call[c].copies \in Table
    BY DEF IInv, GoodRows, Job
  <2>2. ASSUME NEW r \in RowIds
        PROVE  /\ rows'[r] \in Row \cup {NoRow}
               /\ rows'[r] # NoRow => Fits(r, rows'[r])
    <3>1. CASE r \in Loaded(c)
      <4>1. rows'[r] = call[c].copies[r] /\ rows'[r] # NoRow
        BY <3>1 DEF SaveOrder, Loaded
      <4> QED BY <4>1, <2>1 DEF IInv, GoodJob, Table
    <3>2. CASE r \notin Loaded(c) /\ r \in RowsOf(call[c].order)
      <4>1. rows'[r] = [rows[r] EXCEPT !.order = NoOrder] /\ rows[r] # NoRow
        BY <3>2 DEF SaveOrder, RowsOf
      <4>2. rows[r] \in Row /\ Fits(r, rows[r])
        BY <2>1, <4>1 DEF IInv, GoodRows, Table
      <4>3. rows'[r] \in Row
        BY <4>1, <4>2 DEF Row
      <4>4. Fits(r, rows'[r])
        BY <4>1, <4>2 DEF Fits, Row
      <4> QED BY <4>3, <4>4
    <3>3. CASE r \notin Loaded(c) /\ r \notin RowsOf(call[c].order)
      <4>1. rows'[r] = rows[r]
        BY <3>3 DEF SaveOrder
      <4> QED BY <4>1, <2>1 DEF IInv, GoodRows, Table
    <3> QED BY <3>1, <3>2, <3>3
  <2>3. rows' = [r \in RowIds |-> rows'[r]]
    BY DEF SaveOrder
  <2>4. rows' \in Table
    BY <2>2, <2>3 DEF Table
  <2> QED BY <1>1, <2>2, <2>4 DEF GoodRows, Fits
<1> QED BY <1>1, <1>2, Ends, DeliveryTyped DEF SaveOrder

LEMMA AllApproved == ASSUME IInv, NEW c \in Callers, ApproveAll(c) PROVE IInv'
<1>1. UNCHANGED <<newId, born, delivery>>
  BY DEF ApproveAll, goods
<1>2. ASSUME NEW r \in RowIds
      PROVE  rows'[r] \in Row \cup {NoRow} /\ (rows'[r] # NoRow => Fits(r, rows'[r]))
  <2>1. rows[r] \in Row \cup {NoRow} /\ (rows[r] # NoRow => Fits(r, rows[r]))
    BY DEF IInv, GoodRows, Table
  <2>2. CASE rows'[r] = rows[r]
    BY <2>1, <2>2
  <2>3. CASE rows'[r] # rows[r]
    <3>1. PICK e \in {rows[r].ends, "never"} :
            rows'[r] = [rows[r] EXCEPT !.status = "CONFIRMED", !.ends = e]
      BY <2>3 DEF ApproveAll
    <3>2. rows[r] \in Row
      BY <2>1, <2>3 DEF ApproveAll, HasStatus
    <3>3. rows'[r] \in Row
      BY <3>1, <3>2 DEF Row
    <3>4. /\ rows'[r].qty = rows[r].qty /\ rows'[r].booked = rows[r].booked
          /\ rows'[r].status = "CONFIRMED"
      BY <3>1, <3>2 DEF Row
    <3>5. Fits(r, rows[r])
      BY <2>1, <3>2, NullAssumption
    <3> QED BY <3>3, <3>4, <3>5 DEF Fits
  <2> QED BY <2>2, <2>3
<1>3. GoodRows'
  <2>1. rows' = [r \in RowIds |-> rows'[r]]
    BY DEF ApproveAll
  <2>2. rows' \in Table
    BY <1>2, <2>1 DEF Table
  <2> QED BY <1>1, <1>2, <2>2 DEF GoodRows, Fits
<1> QED BY <1>1, <1>3, Ends, DeliveryTyped DEF ApproveAll

LEMMA Ages == ASSUME IInv, NEW q \in RowIds, TimePasses(q) PROVE IInv'
<1>1. UNCHANGED <<newId, born, delivery, call>>
  BY DEF TimePasses, goods
<1>2. rows \in Table /\ rows[q] \in Row /\ Fits(q, rows[q])
  BY DEF TimePasses, IInv, GoodRows, Table
<1>3. [rows[q] EXCEPT !.ends = "past"] \in Row
  BY <1>2 DEF Row
<1>4. Fits(q, [rows[q] EXCEPT !.ends = "past"])
  BY <1>2, <1>3 DEF Fits, Row
<1>5. GoodRows'
  BY <1>1, <1>2, <1>3, <1>4 DEF TimePasses, IInv, GoodRows, Table, Fits
<1> QED BY <1>1, <1>5 DEF IInv, GoodRest, GoodJob, Fits

\* A new line, fresh or with a booking taken over, is sound for the history it begins.
LEMMA NewRowIsSound ==
  ASSUME IInv, NEW c \in Callers, NEW p \in Products, NEW n \in Nat, NEW from \in BookingMaps(c),
         NEW row, row = NewRow(c, p, n, from[p])
  PROVE  /\ row \in Row
         /\ row.status \in {"NONE", "EXPIRED"} => row.booked = 0
         /\ row.status = "TEMPORARY" => row.ends # "never"
<1>1. call[c].order \in Orders \cup {NoOrder} /\ call[c].copies \in Table
  BY DEF IInv, Job
<1>2. PICK fresh : fresh = [order |-> call[c].order, product |-> p, qty |-> n, booked |-> 0,
                            status |-> "NONE", ends |-> "never"]
  OBVIOUS
<1>3. fresh \in Row /\ fresh.status = "NONE" /\ fresh.booked = 0
  BY <1>1, <1>2 DEF Row
<1>4. CASE from[p] = 0
  <2>1. row = fresh
    BY <1>2, <1>4 DEF NewRow
  <2> QED BY <2>1, <1>3
<1>5. CASE from[p] # 0
  <2>1. PICK r, old : r = from[p] /\ old = call[c].copies[r]
    OBVIOUS
  <2>2. r \in Carried(c, p)
    BY <1>5, <2>1 DEF BookingMaps
  <2>3. row = [fresh EXCEPT !.booked = old.booked, !.status = old.status, !.ends = old.ends]
    BY <1>2, <1>5, <2>1 DEF NewRow
  <2>4. old \in Row /\ Fits(r, old)
    BY <1>1, <2>1, <2>2 DEF Carried, Loaded, Table, IInv, GoodJob
  <2>5. row \in Row
    BY <1>3, <2>3, <2>4 DEF Row
  <2>6. row.booked = old.booked /\ row.status = old.status /\ row.ends = old.ends
    BY <1>3, <2>3 DEF Row
  <2> QED BY <2>4, <2>5, <2>6 DEF Fits
<1> QED BY <1>4, <1>5

LEMMA RowsInserted == ASSUME IInv, NEW c \in Callers, InsertRows(c) PROVE IInv'
<1>1. PICK k \in 0..(MaxRow + 1 - newId) :
        newId' = newId + k /\ \E new \in NewLines(c, k) : InsertLines(c, NewIds(k), new)
  BY DEF InsertRows
<1> DEFINE ids == NewIds(k)
<1>2. PICK new \in NewLines(c, k) : InsertLines(c, ids, new)
  BY <1>1
<1>3. /\ rows' = [r \in RowIds |-> IF r \in ids THEN new[r] ELSE rows[r]]
      /\ born' = [r \in RowIds |->
           IF r \in ids THEN [qty |-> new[r].qty, booked |-> new[r].booked] ELSE born[r]]
      /\ Become(c, [call[c] EXCEPT !.at = "order",
           !.copies = [r \in RowIds |-> IF r \in ids THEN new[r] ELSE NoRow]], NoSums)
  BY <1>2 DEF InsertLines
<1>4. k \in Nat /\ newId \in Nat /\ newId # 0 /\ ids \subseteq RowIds
  <2>1. newId \in Nat /\ newId # 0 /\ MaxRow \in Nat
    BY LinesAssumption DEF IInv, GoodRest
  <2> QED BY <1>1, <2>1 DEF NewIds
<1>5. newId' \in Nat /\ newId' # 0 /\ newId <= newId' /\ \A r \in ids : newId <= r /\ r < newId'
  BY <1>1, <1>4 DEF NewIds
<1>6. \A r \in ids : /\ new[r] \in Row
                     /\ new[r].status \in {"NONE", "EXPIRED"} => new[r].booked = 0
                     /\ new[r].status = "TEMPORARY" => new[r].ends # "never"
  <2> SUFFICES ASSUME NEW r \in ids
               PROVE  /\ new[r] \in Row
                      /\ new[r].status \in {"NONE", "EXPIRED"} => new[r].booked = 0
                      /\ new[r].status = "TEMPORARY" => new[r].ends # "never"
    OBVIOUS
  <2>1. PICK product \in [ids -> Products], qty \in [ids -> 1..MaxQty], from \in BookingMaps(c) :
          new = [q \in ids |-> NewRow(c, product[q], qty[q], from[product[q]])]
    BY <1>2 DEF NewLines
  <2>2. product[r] \in Products /\ qty[r] \in Nat
    BY <2>1, BoundsAssumption
  <2>3. new[r] = NewRow(c, product[r], qty[r], from[product[r]])
    BY <2>1
  <2> QED BY <2>2, <2>3, NewRowIsSound
<1> HIDE DEF ids
\* A row with an id below newId is as sound as it was.
<1>7. ASSUME NEW r \in RowIds, NEW row, Fits(r, row)
      PROVE  born'[r] = born[r] /\ r < newId' /\ r \notin ids
  <2>1. r < newId
    BY <1>7 DEF Fits
  <2>2. r \notin ids /\ r < newId'
    BY <1>4, <1>5, <2>1
  <2> QED BY <1>3, <2>2
<1>8. ASSUME NEW r \in ids PROVE Fits(r, new[r])'
  <2>1. born'[r] = [qty |-> new[r].qty, booked |-> new[r].booked] /\ rows'[r] = new[r]
    BY <1>3, <1>4
  <2>2. new[r].qty \in Nat /\ new[r].booked \in Nat
    BY <1>6 DEF Row
  <2> QED BY <1>5, <1>6, <2>1, <2>2 DEF Fits, Most
<1>9. GoodRest'
  <2>1. born' \in [RowIds -> [qty : Nat, booked : Nat]]
    <3>1. \A r \in RowIds : (IF r \in ids THEN [qty |-> new[r].qty, booked |-> new[r].booked]
                             ELSE born[r]) \in [qty : Nat, booked : Nat]
      BY <1>6 DEF Row, IInv, GoodRest
    <3> QED BY <1>3, <3>1
  <2>2. delivery' = delivery
    BY DEF InsertRows, goods
  <2> QED BY <1>5, <2>1, <2>2 DEF GoodRest, IInv
<1>10. GoodRows'
  <2>1. \A r \in RowIds : rows'[r] = IF r \in ids THEN new[r] ELSE rows[r]
    BY <1>3
  <2>2. rows' \in Table
    BY <1>3, <1>6 DEF Table, IInv, GoodRows
  <2>3. ASSUME NEW r \in RowIds, rows'[r] # NoRow PROVE Fits(r, rows[r])'
    <3>1. CASE r \in ids
      BY <1>8, <2>1, <3>1 DEF Fits
    <3>2. CASE r \notin ids
      <4>1. Fits(r, rows[r]) /\ rows'[r] = rows[r]
        BY <2>1, <2>3, <3>2 DEF IInv, GoodRows
      <4> QED BY <4>1, <1>7 DEF Fits
    <3> QED BY <3>1, <3>2
  <2> QED BY <2>2, <2>3 DEF GoodRows
<1>11. PICK table : table = [r \in RowIds |-> IF r \in ids THEN new[r] ELSE NoRow]
  OBVIOUS
<1>12. table \in Table /\ \A r \in RowIds : table[r] # NoRow => r \in ids /\ table[r] = new[r]
  BY <1>6, <1>11 DEF Table
<1>13. PICK job : job = [call[c] EXCEPT !.at = "order", !.copies = table]
  OBVIOUS
<1>14. call' = [call EXCEPT ![c] = job]
  BY <1>3, <1>11, <1>13 DEF Become
<1>15. call[c] \in Job /\ Plan(call[c]) /\ call[c].at = "insert" /\ "order" \in Places
  BY DEF IInv, GoodJob, InsertRows, At, Places
<1>16. job \in Job
  BY <1>12, <1>13, <1>15 DEF Job
<1>17. job.copies = table /\ job.todo = {} /\ job.row = 0 /\ job.at = "order"
  BY <1>13, <1>15 DEF Job, Plan
<1>18. GoodJob(job)'
  <2>1. Plan(job)
    BY <1>17 DEF Plan
  <2>2. ASSUME NEW r \in RowIds, job.copies[r] # NoRow PROVE Fits(r, job.copies[r])'
    <3>1. r \in ids /\ job.copies[r] = new[r]
      BY <1>12, <1>17, <2>2
    <3> QED BY <1>8, <3>1
  <2> QED BY <1>16, <2>1, <2>2 DEF GoodJob
<1>19. ASSUME NEW x \in Callers PROVE GoodJob(call[x])'
  <2>1. CASE x = c
    <3>1. call'[x] = job
      BY <1>14, <2>1 DEF IInv
    <3> QED BY <1>18, <3>1 DEF GoodJob, Fits
  <2>2. CASE x # c
    <3>1. call'[x] = call[x] /\ GoodJob(call[x])
      BY <1>14, <2>2 DEF IInv
    <3>2. ASSUME NEW r \in RowIds, call[x].copies[r] # NoRow
          PROVE  Fits(r, call[x].copies[r]) /\ born'[r] = born[r] /\ r < newId'
      BY <1>7, <3>1, <3>2 DEF GoodJob
    <3> QED BY <3>1, <3>2 DEF GoodJob, Fits
  <2> QED BY <2>1, <2>2
<1>20. call' \in [Callers -> Job]
  BY <1>14, <1>16 DEF IInv
<1> QED BY <1>9, <1>10, <1>19, <1>20 DEF IInv

-----------------------------------------------------------------------------
(* Theorems *)

LEMMA StepKeeps == IInv /\ [Next]_vars => IInv'
<1> SUFFICES ASSUME IInv, [Next]_vars PROVE IInv'
  OBVIOUS
<1>1. ASSUME NEW c \in Callers, Request(c) PROVE IInv'
  <2>1. ASSUME NEW o \in Orders,
               \/ Book(c, o) \/ ConfirmBookings(c, o) \/ EditOrder(c, o)
               \/ TouchOrder(c, o) \/ IssueMaterials(c, o)
        PROVE  IInv'
    BY <2>1, BookBegins, ConfirmBegins, EditBegins, TouchBegins, IssueBegins
  <2>2. ASSUME NEW r \in RowIds, RevertBooking(c, r) PROVE IInv'
    BY <2>2, RevertBegins
  <2>3. ASSUME NEW d \in Deliveries,
               \/ \E o \in Orders : CreateDelivery(c, d, o)
               \/ UpdateDelivery(c, d) \/ SendDeliveryEmail(c, d)
               \/ ConfirmStockExport(c, d) \/ DeleteDelivery(c, d)
        PROVE  IInv'
    BY <2>3, DeliverBegins, UpdateBegins, MailBegins, ExportBegins, DropBegins
  <2>4. CASE SyncBookingStock(c)
    BY <2>4, SyncBegins
  <2> QED BY <1>1, <2>1, <2>2, <2>3, <2>4 DEF Request
<1>2. ASSUME NEW c \in Callers, Step(c) PROVE IInv'
  <2>1. CASE Treat(c) \/ Reload(c) \/ SaveCounter(c) \/ SaveRow(c)
    BY <2>1, Treated, Reloaded, CounterSaved, RowSaved
  <2>2. CASE DeleteRows(c) \/ InsertRows(c) \/ SaveOrder(c)
    BY <2>2, RowsDeleted, RowsInserted, OrderSaved
  <2>3. CASE LoadProduct(c) \/ TakeStock(c) \/ Unbook(c) \/ Unapprove(c) \/ ReturnStock(c)
    BY <2>3, ProductLoaded, StockTaken, Unbooked, Unapproved, StockReturned
  <2>4. CASE ClearLines(c) \/ SavePaper(c) \/ RemovePaper(c)
    BY <2>4, LinesCleared, PaperSaved, PaperRemoved
  <2>5. CASE SaveIssue(c) \/ LoadProducts(c) \/ ApproveAll(c)
    BY <2>5, IssueSaved, ProductsLoaded, AllApproved
  <2> QED BY <1>2, <2>1, <2>2, <2>3, <2>4, <2>5 DEF Step
<1>3. ASSUME Expire PROVE IInv'
  BY <1>3, CronAssumption, ExpireBegins
<1>4. ASSUME NEW r \in RowIds, TimePasses(r) PROVE IInv'
  BY <1>4, Ages
<1>5. CASE UNCHANGED vars
  BY <1>5 DEF vars, lines, goods, IInv, GoodRest, GoodRows, GoodJob, Fits
<1> QED BY <1>1, <1>2, <1>3, <1>4, <1>5 DEF Next

LEMMA InvHolds == Spec => []IInv
BY StartsGood, StepKeeps, PTL DEF Spec

\* However requests, deliveries and the expiry overlap and whatever stale copy is saved last, no
\* row has more booked than it orders or than an edit of its order carried over to it
\* (bookItems, confirmBookings, checkExpiredBookings, deleteDelivery, update).
THEOREM NothingIsOverbooked == Spec => []BookedWithinOrder
<1>1. IInv => BookedWithinOrder
  BY DEF IInv, GoodRows, Fits, BookedWithinOrder
<1> QED BY <1>1, InvHolds, PTL

\* A row that is not booked, or whose booking expired, holds nothing, also after a stale save
\* of a delivery or of an order, and every temporary booking has an end, so that the hourly job
\* can find it (checkExpiredBookings, deleteDelivery, bookItems, revertBooking).
THEOREM StatusesAgree == Spec => []StatusAgrees
<1>1. IInv => StatusAgrees
  BY DEF IInv, GoodRows, Fits, HasStatus, StatusAgrees
<1> QED BY <1>1, InvHolds, PTL
-----------------------------------------------------------------------------
(* The counters stay numbers *)

Counts == [Singles -> Nat]
Shelf == [Products -> Int] \cup [Singles -> Int]
Figures == [stock : Shelf, oldB : Counts, oldA : Counts, newB : Counts, newA : Counts]

\* What a request needs where it is, and the points an approval and a synchronisation go through.
Bears(job) ==
  /\ job.at \in {"load", "take", "unbook", "unapprove", "return"} => job.paper \in Delivery
  /\ job.at = "issue" => job.order \in Orders
  /\ job.kind = "confirm" => job.at \in {"next", "reload", "counters", "row"}
  /\ job.kind = "sync" => job.at \in {"products", "counters", "bulk"}

CountInv ==
  /\ newId \in 1..(MaxRow + 1)
  /\ booking \in Counts /\ approved \in Counts /\ stock \in [Products -> Int]
  /\ issued \subseteq Orders /\ alone \subseteq Callers /\ calls \in 0..MaxCalls
  /\ sums \in [Callers -> Figures]
  /\ \A c \in Callers : Bears(call[c])

LEMMA TimesNat == \A a, b \in Nat : a * b \in Nat
OBVIOUS

LEMMA PiecesTyped == ASSUME NEW p \in Products, NEW s \in Singles PROVE Parts[p][s] \in Nat
BY PartsAssumption

\* The pieces added to a counter, or taken from it.
LEMMA PlusTyped ==
  ASSUME NEW f \in Counts, NEW p \in Products, NEW n \in Nat
  PROVE  Plus(f, p, n) \in Counts /\ \A s \in Singles : Plus(f, p, n)[s] >= f[s]
<1>1. \A s \in Singles : n * Parts[p][s] \in Nat
  BY TimesNat, PiecesTyped
<1>2. \A s \in Singles : f[s] + n * Parts[p][s] \in Nat /\ f[s] + n * Parts[p][s] >= f[s]
  BY <1>1 DEF Counts
<1> QED BY <1>2 DEF Plus, Counts

LEMMA LessTyped ==
  ASSUME NEW f \in Counts, NEW p \in Products, NEW n \in Nat
  PROVE  Less(f, p, n) \in Counts
<1>1. \A s \in Singles : n * Parts[p][s] \in Nat
  BY TimesNat, PiecesTyped
<1>2. \A s \in Singles : Minus(f[s], n * Parts[p][s]) \in Nat
  BY <1>1 DEF Counts, Minus
<1> QED BY <1>2 DEF Less, Counts

LEMMA RowIdsFinite == IsFiniteSet(RowIds)
BY FS_Interval, LinesAssumption

\* What a row of a status holds of s.
Share(st, s, r) == IF HasStatus(r, st) THEN Booked(r) * Parts[rows[r].product][s] ELSE 0

LEMMA ShareTyped ==
  ASSUME GoodRows, NEW st, NEW s \in Singles, NEW r \in RowIds PROVE Share(st, s, r) \in Nat
<1>1. CASE HasStatus(r, st)
  <2>1. rows[r] \in Row
    BY <1>1 DEF HasStatus, GoodRows, Table
  <2>2. Booked(r) \in Nat /\ rows[r].product \in Products
    BY <2>1 DEF Booked, Row
  <2>3. Booked(r) * Parts[rows[r].product][s] \in Nat
    BY <2>2, TimesNat, PiecesTyped
  <2> QED BY <1>1, <2>3 DEF Share
<1>2. CASE ~HasStatus(r, st)
  BY <1>2 DEF Share
<1> QED BY <1>1, <1>2

\* getBookingStats returns numbers.
LEMMA SumOfTyped == ASSUME GoodRows, NEW st, NEW s \in Singles PROVE SumOf(st, s) \in Nat
<1> DEFINE f == [r \in RowIds |-> Share(st, s, r)]
<1>1. \A r \in RowIds : f[r] \in Nat
  BY ShareTyped
<1> HIDE DEF f
<1>2. Sum(f, RowIds) \in Nat
  BY <1>1, RowIdsFinite, SumNat
<1> QED BY <1>2 DEF SumOf, Share, f

LEMMA FiguresTyped ==
  ASSUME CountInv
  PROVE  Seen \in Figures /\ NoSums \in Figures /\ Zero \in Counts
<1>1. Zero \in Counts /\ Zero \in Shelf
  BY DEF Zero, Counts, Shelf
<1> QED BY <1>1 DEF Seen, NoSums, Figures, CountInv, Shelf

LEMMA IdleBears == Bears(Idle)
BY DEF Bears, Idle

LEMMA CountInit == ASSUME Init, IInv PROVE CountInv
<1>1. PICK k \in 0..MaxRow : Lines \in [1..k -> Row]
  BY LinesAssumption
<1>2. Cardinality(1..k) = k
  <2>1. Cardinality(1..k) = IF 1 > k THEN 0 ELSE k - 1 + 1
    BY <1>1, FS_Interval, LinesAssumption
  <2> QED BY <1>1, <2>1, LinesAssumption
<1>3. newId \in 1..(MaxRow + 1)
  BY <1>1, <1>2, LinesAssumption DEF Init
<1>4. \A s \in Singles : SumOf("TEMPORARY", s) \in Nat /\ SumOf("CONFIRMED", s) \in Nat
  BY SumOfTyped DEF IInv
<1>5. booking \in Counts /\ approved \in Counts
  BY <1>4 DEF Init, Counts
<1>6. Zero \in Counts /\ Zero \in Shelf
  BY DEF Zero, Counts, Shelf
<1>7. sums \in [Callers -> Figures]
  BY <1>6 DEF Init, NoSums, Figures
<1>8. stock \in [Products -> Int] /\ calls \in 0..MaxCalls /\ issued = {} /\ alone = {}
  BY StockAssumption, BoundsAssumption DEF Init
<1>9. \A c \in Callers : Bears(call[c])
  BY IdleBears DEF Init
<1> QED BY <1>3, <1>5, <1>7, <1>8, <1>9 DEF CountInv

LEMMA CountBegins ==
  ASSUME IInv, CountInv, NEW c \in Callers, NEW job, NEW figures \in Figures, Bears(job),
         Begin(c, job, figures), calls' \in 0..MaxCalls
  PROVE  CountInv'
<1>1. \A b \in Callers : call'[b] = IF b = c THEN job ELSE call[b]
  BY DEF Begin, IInv
<1>2. \A b \in Callers : Bears(call'[b])
  BY <1>1 DEF CountInv
<1>3. sums' \in [Callers -> Figures]
  BY DEF Begin, CountInv
<1> QED BY <1>2, <1>3 DEF Begin, CountInv, lines, counters, goods

LEMMA CountUser ==
  ASSUME IInv, CountInv, NEW c \in Callers, NEW job, NEW figures \in Figures, Bears(job),
         UserBegins(c, job, figures)
  PROVE  CountInv'
<1>1. calls' \in 0..MaxCalls /\ Begin(c, job, figures)
  BY BoundsAssumption DEF UserBegins, CountInv
<1> QED BY <1>1, CountBegins

LEMMA CountGoes ==
  ASSUME IInv, CountInv, NEW c \in Callers, NEW job, NEW figures \in Figures, Bears(job),
         Become(c, job, figures), newId' \in 1..(MaxRow + 1),
         booking' \in Counts, approved' \in Counts, stock' \in [Products -> Int],
         issued' \subseteq Orders
  PROVE  CountInv'
<1>1. \A b \in Callers : call'[b] = IF b = c THEN job ELSE call[b]
  BY DEF Become, IInv
<1>2. \A b \in Callers : Bears(call'[b])
  BY <1>1 DEF CountInv
<1>3. sums' \in [Callers -> Figures]
  BY DEF Become, CountInv
<1> QED BY <1>2, <1>3 DEF Become, CountInv

LEMMA CountSame ==
  ASSUME CountInv, UNCHANGED <<newId, counters, stock, issued>>
  PROVE  /\ newId' \in 1..(MaxRow + 1) /\ booking' \in Counts /\ approved' \in Counts
         /\ stock' \in [Products -> Int] /\ issued' \subseteq Orders
BY DEF CountInv, counters

LEMMA LoadingAt ==
  ASSUME IInv, NEW kind \in Tasks, NEW at \in Places, NEW R
  PROVE  /\ Loading(kind, at, R) \in Job
         /\ Loading(kind, at, R).kind = kind /\ Loading(kind, at, R).at = at
         /\ Loading(kind, at, R).copies = CopyOf(R)
<1>1. /\ Loading(kind, at, R) \in Job
      /\ Loading(kind, at, R).kind = kind
      /\ Loading(kind, at, R).at = at
      /\ Loading(kind, at, R).copies = CopyOf(R)
      /\ Loading(kind, at, R).todo = {}
      /\ Loading(kind, at, R).row = 0
  BY LoadingFields
<1> QED BY <1>1

\* An approval begins with what it has just read.
FreshApproval(job, figures) ==
  /\ job.at = "next" /\ figures = Seen
  /\ job.copies \in Table /\ \A r \in RowIds : job.copies[r] # NoRow => job.copies[r] = rows[r]

\* What a request of a user begins with.
Starts(c, job, figures) ==
  /\ UserBegins(c, job, figures) /\ figures \in Figures /\ Bears(job)
  /\ job.kind = "confirm" => FreshApproval(job, figures)
  /\ job.kind = "sync" =>
       /\ job.at = "products"
       /\ \A s \in Singles : /\ figures.newB[s] = SumOf("TEMPORARY", s)
                             /\ figures.newA[s] = SumOf("CONFIRMED", s)
Started(c) == \E job, figures : Starts(c, job, figures)

LEMMA RequestStarts == ASSUME IInv, CountInv, NEW c \in Callers, Request(c) PROVE Started(c)
<1>start. ASSUME NEW job, NEW figures \in {Seen, NoSums}, UserBegins(c, job, figures),
                 Bears(job), job.kind \notin {"confirm", "sync"}
          PROVE  Started(c)
  BY <1>start, FiguresTyped DEF Starts, Started
<1>figures. NoSums \in Figures /\ Seen \in Figures
  BY FiguresTyped
<1>1. ASSUME NEW o \in Orders, Book(c, o) PROVE Started(c)
  <2>1. PICK R, n : UserBegins(c, [Loading("book", "next", RowsOf(o)) EXCEPT
                                     !.todo = R, !.want = n], Seen)
    BY <1>1 DEF Book
  <2>2. PICK base \in Job : base = Loading("book", "next", RowsOf(o)) /\ base.kind = "book"
                            /\ base.at = "next"
    BY LoadingAt DEF Tasks, AllKinds, Places
  <2>3. PICK job : job = [base EXCEPT !.todo = R, !.want = n]
    OBVIOUS
  <2>4. job.kind = "book" /\ job.at = "next"
    BY <2>2, <2>3 DEF Job
  <2>5. Bears(job)
    BY <2>4 DEF Bears
  <2> QED BY <2>1, <2>2, <2>3, <2>4, <2>5, <1>start
<1>2. ASSUME NEW o \in Orders, ConfirmBookings(c, o) PROVE Started(c)
  <2>1. PICK R : UserBegins(c, [Loading("confirm", "next", RowsOf(o)) EXCEPT !.todo = R], Seen)
    BY <1>2 DEF ConfirmBookings
  <2>2. PICK base \in Job : base = Loading("confirm", "next", RowsOf(o)) /\ base.kind = "confirm"
                            /\ base.at = "next" /\ base.copies = CopyOf(RowsOf(o))
    BY LoadingAt DEF Tasks, AllKinds, Places
  <2>3. PICK job : job = [base EXCEPT !.todo = R]
    OBVIOUS
  <2>4. job.kind = "confirm" /\ job.at = "next" /\ job.copies = CopyOf(RowsOf(o))
        /\ job.copies \in Table
    BY <2>2, <2>3 DEF Job
  <2>5. Bears(job)
    BY <2>4 DEF Bears
  <2>fresh. FreshApproval(job, Seen)
    BY <2>4 DEF FreshApproval, CopyOf
  <2>6. Starts(c, job, Seen)
    BY <2>1, <2>2, <2>3, <2>4, <2>5, <2>fresh, <1>figures DEF Starts
  <2> QED BY <2>6 DEF Started
<1>3. ASSUME NEW r \in RowIds, RevertBooking(c, r) PROVE Started(c)
  <2>1. UserBegins(c, [Loading("revert", "next", {r}) EXCEPT !.todo = {r}], Seen)
    BY <1>3 DEF RevertBooking
  <2>2. PICK base \in Job : base = Loading("revert", "next", {r}) /\ base.kind = "revert"
                            /\ base.at = "next"
    BY LoadingAt DEF Tasks, AllKinds, Places
  <2>3. PICK job : job = [base EXCEPT !.todo = {r}]
    OBVIOUS
  <2>4. job.kind = "revert" /\ job.at = "next"
    BY <2>2, <2>3 DEF Job
  <2>5. Bears(job)
    BY <2>4 DEF Bears
  <2> QED BY <2>1, <2>2, <2>3, <2>4, <2>5, <1>start
<1>4. ASSUME NEW o \in Orders, NEW kind \in {"edit", "touch", "issue"},
             NEW at \in {"delete", "order", "issue", "bulk"}, NEW R,
             UserBegins(c, [Loading(kind, at, R) EXCEPT !.order = o], NoSums)
      PROVE  Started(c)
  <2>1. PICK base \in Job : base = Loading(kind, at, R) /\ base.kind = kind /\ base.at = at
    BY LoadingAt DEF Tasks, AllKinds, Places
  <2>2. PICK job : job = [base EXCEPT !.order = o]
    OBVIOUS
  <2>3. job.kind = kind /\ job.at = at /\ job.order = o
    BY <2>1, <2>2 DEF Job
  <2>4. Bears(job)
    BY <2>3 DEF Bears
  <2> QED BY <1>4, <2>1, <2>2, <2>3, <2>4, <1>start
<1>5. ASSUME NEW o \in Orders, EditOrder(c, o) \/ TouchOrder(c, o) \/ IssueMaterials(c, o)
      PROVE  Started(c)
  BY <1>4, <1>5 DEF EditOrder, TouchOrder, IssueMaterials
<1>6. ASSUME NEW d \in Deliveries, NEW o \in Orders, CreateDelivery(c, d, o) PROVE Started(c)
  <2>1. PICK paper : UserBegins(c, [Loading("deliver", "paper", RowsOf(o)) EXCEPT
                       !.order = o, !.id = d, !.paper = paper], NoSums)
    BY <1>6 DEF CreateDelivery
  <2>2. PICK base \in Job : base = Loading("deliver", "paper", RowsOf(o)) /\ base.kind = "deliver"
                            /\ base.at = "paper"
    BY LoadingAt DEF Tasks, AllKinds, Places
  <2>3. PICK job : job = [base EXCEPT !.order = o, !.id = d, !.paper = paper]
    OBVIOUS
  <2>4. job.kind = "deliver" /\ job.at = "paper"
    BY <2>2, <2>3 DEF Job
  <2>5. Bears(job)
    BY <2>4 DEF Bears
  <2> QED BY <2>1, <2>2, <2>3, <2>4, <2>5, <1>start
<1>7. ASSUME NEW d \in Deliveries, NEW kind \in {"update", "mail"}, NEW paper,
             UserBegins(c, [Loading(kind, "paper", {}) EXCEPT !.id = d, !.paper = paper], NoSums)
      PROVE  Started(c)
  <2>1. PICK base \in Job : base = Loading(kind, "paper", {}) /\ base.kind = kind
                            /\ base.at = "paper"
    BY LoadingAt DEF Tasks, AllKinds, Places
  <2>2. PICK job : job = [base EXCEPT !.id = d, !.paper = paper]
    OBVIOUS
  <2>3. job.kind = kind /\ job.at = "paper"
    BY <2>1, <2>2 DEF Job
  <2>4. Bears(job)
    BY <2>3 DEF Bears
  <2> QED BY <1>7, <2>1, <2>2, <2>3, <2>4, <1>start
<1>8. ASSUME NEW d \in Deliveries, UpdateDelivery(c, d) PROVE Started(c)
  <2>1. PICK st : \/ UserBegins(c, [Loading("update", "paper", {}) EXCEPT !.id = d,
                                      !.paper = [delivery[d] EXCEPT !.status = st]], NoSums)
                  \/ \E n \in 1..MaxQty :
                       UserBegins(c, [[Loading("update", "paper", {}) EXCEPT !.id = d,
                                        !.paper = [delivery[d] EXCEPT !.status = st]]
                                      EXCEPT !.at = "lines", !.paper.qty = n], NoSums)
    BY <1>8 DEF UpdateDelivery
  <2>2. CASE UserBegins(c, [Loading("update", "paper", {}) EXCEPT !.id = d,
                              !.paper = [delivery[d] EXCEPT !.status = st]], NoSums)
    BY <2>2, <1>7
  <2>3. ASSUME NEW n, UserBegins(c, [[Loading("update", "paper", {}) EXCEPT !.id = d,
                                     !.paper = [delivery[d] EXCEPT !.status = st]]
                                   EXCEPT !.at = "lines", !.paper.qty = n], NoSums)
        PROVE  Started(c)
    <3>1. PICK base \in Job : base = Loading("update", "paper", {}) /\ base.kind = "update"
      BY LoadingAt DEF Tasks, AllKinds, Places
    <3>2. PICK job : job = [[base EXCEPT !.id = d, !.paper = [delivery[d] EXCEPT !.status = st]]
                            EXCEPT !.at = "lines", !.paper.qty = n]
      OBVIOUS
    <3>3. job.kind = "update" /\ job.at = "lines"
      BY <3>1, <3>2 DEF Job
    <3>4. Bears(job)
      BY <3>3 DEF Bears
    <3> QED BY <2>3, <3>1, <3>2, <3>3, <3>4, <1>start
  <2> QED BY <2>1, <2>2, <2>3
<1>9. ASSUME NEW d \in Deliveries, SendDeliveryEmail(c, d) PROVE Started(c)
  BY <1>7, <1>9 DEF SendDeliveryEmail
<1>10. ASSUME NEW d \in Deliveries, NEW kind \in {"export", "drop"}, NEW paper \in Delivery,
              NEW at \in {"paper", "lines", "load"}, NEW R, NEW n,
              UserBegins(c, [Loading(kind, at, R) EXCEPT !.id = d, !.paper = paper, !.n = n], NoSums)
       PROVE  Started(c)
  <2>1. PICK base \in Job : base = Loading(kind, at, R) /\ base.kind = kind /\ base.at = at
    BY LoadingAt DEF Tasks, AllKinds, Places
  <2>2. PICK job : job = [base EXCEPT !.id = d, !.paper = paper, !.n = n]
    OBVIOUS
  <2>3. job.kind = kind /\ job.at = at /\ job.paper = paper
    BY <2>1, <2>2 DEF Job
  <2>4. Bears(job)
    BY <2>3 DEF Bears
  <2> QED BY <1>10, <2>1, <2>2, <2>3, <2>4, <1>start
<1>11. ASSUME NEW d \in Deliveries, ConfirmStockExport(c, d) PROVE Started(c)
  <2>1. delivery[d] # NoDelivery
    BY <1>11 DEF ConfirmStockExport, NoDelivery
  <2>2. PICK paper : paper = [delivery[d] EXCEPT !.status = "SHIPPED"]
    OBVIOUS
  <2>3. paper \in Delivery
    BY <2>1, <2>2, PaperTyped
  <2>4. PICK at : /\ at \in {"paper", "load"}
                  /\ UserBegins(c, [Loading("export", at, {}) EXCEPT !.id = d, !.paper = paper,
                                      !.n = delivery[d].qty], NoSums)
    BY <1>11, <2>2 DEF ConfirmStockExport
  <2> QED BY <2>3, <2>4, <1>10
<1>12. ASSUME NEW d \in Deliveries, DeleteDelivery(c, d) PROVE Started(c)
  <2>1. delivery[d] \in Delivery
    BY <1>12 DEF DeleteDelivery, IInv, GoodRest, Paper
  <2>2. PICK at : /\ at \in {"lines", "load"}
                  /\ UserBegins(c, [Loading("drop", at, RowsOf(delivery[d].order)) EXCEPT !.id = d,
                                      !.paper = delivery[d], !.n = delivery[d].qty], NoSums)
    BY <1>12 DEF DeleteDelivery
  <2> QED BY <2>1, <2>2, <1>10
<1>13. CASE SyncBookingStock(c)
  <2>1. PICK b, a : /\ b = [s \in Singles |-> SumOf("TEMPORARY", s)]
                    /\ a = [s \in Singles |-> SumOf("CONFIRMED", s)]
    OBVIOUS
  <2>2. b \in Counts /\ a \in Counts
    BY <2>1, SumOfTyped DEF Counts, IInv
  <2>3. [NoSums EXCEPT !.newB = b, !.newA = a] \in Figures
    BY <2>2, <1>figures DEF Figures
  <2>4. PICK job : /\ job = Loading("sync", "products", {}) /\ job.kind = "sync"
                   /\ job.at = "products"
    BY LoadingAt DEF Tasks, AllKinds, Places
  <2>5. Bears(job)
    BY <2>4 DEF Bears
  <2>6. PICK figures : figures = [NoSums EXCEPT !.newB = b, !.newA = a]
    OBVIOUS
  <2>7. figures.newB = b /\ figures.newA = a
    BY <2>6 DEF NoSums
  <2>8. UserBegins(c, job, figures)
    BY <1>13, <2>1, <2>4, <2>6 DEF SyncBookingStock
  <2>9. \A s \in Singles : /\ figures.newB[s] = SumOf("TEMPORARY", s)
                           /\ figures.newA[s] = SumOf("CONFIRMED", s)
    BY <2>1, <2>7
  <2>10. Starts(c, job, figures)
    BY <2>3, <2>4, <2>5, <2>6, <2>8, <2>9 DEF Starts
  <2> QED BY <2>10 DEF Started
<1> QED BY <1>1, <1>2, <1>3, <1>5, <1>6, <1>8, <1>9, <1>11, <1>12, <1>13 DEF Request

LEMMA CountRequest == ASSUME IInv, CountInv, NEW c \in Callers, Request(c) PROVE CountInv'
BY RequestStarts, CountUser DEF Started, Starts

\* A request goes on with the figures it has; the counters stay.
LEMMA CountGoto ==
  ASSUME IInv, CountInv, NEW c \in Callers, NEW at, Goto(c, at),
         UNCHANGED <<newId, counters, stock, issued>>,
         at \notin {"load", "take", "return", "issue"},
         at \in {"unbook", "unapprove"} => call[c].paper \in Delivery,
         call[c].kind \in {"confirm", "sync"} => at = call[c].at
  PROVE  CountInv'
<1>1. PICK job : job = [call[c] EXCEPT !.at = at]
  OBVIOUS
<1>2. call[c] \in Job
  BY DEF IInv
<1>3. job.kind = call[c].kind /\ job.at = at /\ job.paper = call[c].paper
  BY <1>1, <1>2 DEF Job
<1>4. Bears(job)
  BY <1>3 DEF Bears, CountInv
<1>5. sums[c] \in Figures
  BY DEF CountInv
<1>6. Become(c, job, sums[c])
  BY <1>1 DEF Goto
<1> QED BY <1>4, <1>5, <1>6, CountGoes, CountSame

LEMMA CountEnd ==
  ASSUME IInv, CountInv, NEW c \in Callers, End(c), UNCHANGED <<newId, counters, stock, issued>>
  PROVE  CountInv'
BY IdleBears, FiguresTyped, CountGoes, CountSame DEF End

\* The counters a row is treated with are those loaded with it or those of the table.
LEMMA SourcesTyped ==
  ASSUME CountInv, NEW c \in Callers, NEW p
  PROVE  SourceB(c, p) \in Counts /\ SourceA(c, p) \in Counts
BY DEF CountInv, SourceB, SourceA, Figures

\* A row of those to treat is chosen.
LEMMA CountChosen ==
  ASSUME IInv, CountInv, NEW c \in Callers, NEW job, NEW figures \in Figures,
         Become(c, job, figures), UNCHANGED <<newId, counters, stock, issued>>,
         job.at = "counters" \/ (job.at = "reload" /\ job.kind = "confirm")
  PROVE  CountInv'
<1>1. Bears(job)
  BY DEF Bears
<1> QED BY <1>1, CountGoes, CountSame

LEMMA CountSkip ==
  ASSUME IInv, CountInv, NEW c \in Callers, NEW q, Skip(c, q),
         UNCHANGED <<newId, counters, stock, issued>>, call[c].kind # "sync"
  PROVE  CountInv'
<1> DEFINE rest == call[c].todo \ {q}
<1>1. CASE rest = {}
  BY <1>1, CountEnd DEF Skip
<1>2. CASE rest # {}
  <2>1. PICK job : job = [call[c] EXCEPT !.at = "next", !.todo = rest]
    OBVIOUS
  <2>2. call[c] \in Job
    BY DEF IInv
  <2>3. job.kind = call[c].kind /\ job.at = "next"
    BY <2>1, <2>2 DEF Job
  <2>4. Bears(job)
    BY <2>3 DEF Bears
  <2>5. sums[c] \in Figures /\ Become(c, job, sums[c])
    BY <1>2, <2>1 DEF Skip, CountInv
  <2> QED BY <2>4, <2>5, CountGoes, CountSame
<1> QED BY <1>1, <1>2

\* What is left for the rows to come when n of product p were approved.
LEMMA LoweredTyped ==
  ASSUME NEW left \in Shelf, NEW p \in Products, NEW n \in Nat
  PROVE  Lowered(left, p, n) \in Shelf
<1>1. \A s \in Singles : n * Parts[p][s] \in Nat
  BY TimesNat, PiecesTyped
<1>2. CASE left \in [Products -> Int]
  BY <1>1, <1>2 DEF Shelf, Lowered
<1>3. CASE left \in [Singles -> Int]
  BY <1>1, <1>3 DEF Shelf, Lowered
<1> QED BY <1>2, <1>3 DEF Shelf

LEMMA CountTreats == ASSUME IInv, CountInv, NEW c \in Callers, Treat(c) PROVE CountInv'
<1>1. PICK q \in call[c].todo :
        TreatBook(c, q) \/ TreatConfirm(c, q) \/ TreatExpire(c, q) \/ TreatRevert(c, q)
  BY DEF Treat
<1>job. call[c] \in Job /\ Plan(call[c])
  BY DEF IInv, GoodJob
<1>2. PICK row : row = call[c].copies[q]
  OBVIOUS
<1>3. row \in Row /\ call[c].want \in Nat
  BY <1>2, <1>job DEF Job, Plan, Table
<1>4. PICK p \in Products : p = row.product
  BY <1>3 DEF Row
<1>5. row.qty \in Nat /\ row.booked \in Nat
  BY <1>3 DEF Row
<1>6. sums[c] \in Figures /\ SourceB(c, p) \in Counts /\ SourceA(c, p) \in Counts
  BY SourcesTyped DEF CountInv
<1>same. UNCHANGED <<newId, counters, stock, issued>>
  BY DEF Treat, lines, goods, counters
<1>7. CASE TreatBook(c, q)
  <2>1. CASE Skip(c, q)
    BY <1>7, <2>1, <1>same, CountSkip DEF TreatBook
  <2>2. CASE ~Skip(c, q)
    <3>1. PICK n : /\ n = ToBook(c, q) /\ n > 0
                   /\ Become(c, [call[c] EXCEPT !.at = "counters", !.row = q, !.n = n,
                                                !.parts = Needed(p)],
                                [sums[c] EXCEPT !.newB = Plus(SourceB(c, p), p, n)])
      BY <1>2, <1>4, <1>7, <2>2 DEF TreatBook
    <3>2. n \in Nat
      BY <1>2, <1>3, <1>5, <3>1 DEF ToBook, Least, Minus
    <3>3. [sums[c] EXCEPT !.newB = Plus(SourceB(c, p), p, n)] \in Figures
      BY <3>2, <1>6, PlusTyped DEF Figures
    <3>4. PICK job : job = [call[c] EXCEPT !.at = "counters", !.row = q, !.n = n,
                                           !.parts = Needed(p)]
      OBVIOUS
    <3>5. job.kind = call[c].kind /\ job.at = "counters"
      BY <3>4, <1>job DEF Job
    <3> QED BY <3>1, <3>3, <3>4, <3>5, <1>same, CountChosen
  <2> QED BY <2>1, <2>2
<1>8. CASE TreatConfirm(c, q)
  <2> DEFINE left(n) == Lowered(sums[c].stock, p, n)
             at == IF p \in Combos THEN "reload" ELSE "counters"
  <2>1. PICK n \in 0..row.qty :
          Become(c, [call[c] EXCEPT !.at = at, !.row = q, !.n = n, !.parts = Needed(p)],
                    [sums[c] EXCEPT !.newA = Plus(SourceA(c, p), p, n), !.stock = left(n)])
    BY <1>2, <1>4, <1>8 DEF TreatConfirm
  <2>2. n \in Nat
    BY <1>5, <2>1
  <2>3. sums[c].stock \in Shelf
    BY <1>6 DEF Figures
  <2>4. left(n) \in Shelf /\ Plus(SourceA(c, p), p, n) \in Counts
    BY <2>2, <2>3, <1>6, LoweredTyped, PlusTyped
  <2>at. at \in {"counters", "reload"}
    OBVIOUS
  <2> HIDE DEF left, at
  <2>5. [sums[c] EXCEPT !.newA = Plus(SourceA(c, p), p, n), !.stock = left(n)] \in Figures
    BY <2>4, <1>6 DEF Figures
  <2>6. PICK job : job = [call[c] EXCEPT !.at = at, !.row = q, !.n = n, !.parts = Needed(p)]
    OBVIOUS
  <2>7. job.kind = "confirm" /\ job.at = at
    BY <2>6, <1>job, <1>8 DEF Job, TreatConfirm
  <2> QED BY <2>1, <2>5, <2>6, <2>7, <2>at, <1>same, CountChosen
<1>9. CASE TreatExpire(c, q) \/ TreatRevert(c, q)
  <2>1. PICK job : job = [call[c] EXCEPT !.at = "counters", !.row = q, !.parts = Needed(p)]
    OBVIOUS
  <2>2. job.kind = call[c].kind /\ job.at = "counters"
    BY <2>1, <1>job DEF Job
  <2>3. /\ [sums[c] EXCEPT !.newB = Less(SourceB(c, p), p, row.booked)] \in Figures
        /\ [sums[c] EXCEPT !.newA = Less(SourceA(c, p), p, row.booked)] \in Figures
    BY <1>5, <1>6, LessTyped DEF Figures
  <2>4. \/ Become(c, job, [sums[c] EXCEPT !.newB = Less(SourceB(c, p), p, row.booked)])
        \/ Become(c, job, [sums[c] EXCEPT !.newA = Less(SourceA(c, p), p, row.booked)])
    BY <1>2, <1>4, <1>9, <2>1 DEF TreatExpire, TreatRevert
  <2> QED BY <2>2, <2>3, <2>4, <1>same, CountChosen
<1> QED BY <1>1, <1>7, <1>8, <1>9

LEMMA CountReload == ASSUME IInv, CountInv, NEW c \in Callers, Reload(c) PROVE CountInv'
<1>job. call[c] \in Job /\ Plan(call[c]) /\ call[c].at = "reload"
  BY DEF IInv, GoodJob, Reload, At
<1>1. PICK p \in Products : p = call[c].copies[call[c].row].product
  BY <1>job, LinesAssumption DEF Plan, Job, Table, Row
<1>2. call[c].n \in Nat /\ approved \in Counts /\ sums[c] \in Figures
  BY <1>job DEF Job, CountInv
<1>3. [sums[c] EXCEPT !.newA = Plus(approved, p, call[c].n)] \in Figures
  BY <1>2, PlusTyped DEF Figures
<1>4. PICK job : job = [call[c] EXCEPT !.at = "counters"]
  OBVIOUS
<1>5. job.kind = call[c].kind /\ job.at = "counters"
  BY <1>4, <1>job DEF Job
<1> QED BY <1>1, <1>3, <1>4, <1>5, CountChosen DEF Reload, lines, goods

LEMMA CountCounter == ASSUME IInv, CountInv, NEW c \in Callers, SaveCounter(c) PROVE CountInv'
<1>job. call[c] \in Job /\ Plan(call[c]) /\ call[c].at = "counters"
  BY DEF IInv, GoodJob, SaveCounter, At
<1>figures. sums[c] \in Figures /\ booking \in Counts /\ approved \in Counts
  BY DEF CountInv
<1>1. PICK s \in call[c].parts :
        /\ booking' = [booking EXCEPT ![s] =
             IF call[c].kind \in {"book", "expire", "sync"} THEN sums[c].newB[s] ELSE @]
        /\ approved' = [approved EXCEPT ![s] =
             IF call[c].kind \in {"confirm", "revert", "drop", "sync"} THEN sums[c].newA[s] ELSE @]
        /\ Become(c, [call[c] EXCEPT !.parts = @ \ {s},
                        !.at = IF call[c].parts = {s}
                               THEN IF call[c].kind = "sync" THEN "bulk" ELSE AtRow(c) ELSE @],
                  sums[c])
  BY DEF SaveCounter
<1>2. s \in Singles
  BY <1>job DEF Job
<1>3. booking' \in Counts /\ approved' \in Counts
  BY <1>1, <1>2, <1>figures DEF Figures, Counts
<1>4. PICK job : job = [call[c] EXCEPT !.parts = @ \ {s},
                          !.at = IF call[c].parts = {s}
                                 THEN IF call[c].kind = "sync" THEN "bulk" ELSE AtRow(c) ELSE @]
  OBVIOUS
<1>5. /\ job.kind = call[c].kind
      /\ job.at \in {"counters", "bulk", "row", "lines"}
      /\ call[c].kind = "confirm" => job.at \in {"counters", "row"}
      /\ call[c].kind = "sync" => job.at \in {"counters", "bulk"}
  BY <1>4, <1>job DEF Job, AtRow, Plan
<1>6. Bears(job)
  BY <1>5 DEF Bears
<1> QED BY <1>1, <1>3, <1>4, <1>6, <1>figures, CountGoes DEF SaveCounter, lines, goods, CountInv

LEMMA CountRows ==
  ASSUME IInv, CountInv, NEW c \in Callers,
         SaveRow(c) \/ DeleteRows(c) \/ SaveOrder(c) \/ ApproveAll(c)
  PROVE  CountInv'
<1>job. Plan(call[c]) /\ Bears(call[c])
  BY DEF IInv, GoodJob, CountInv
<1>1. CASE SaveRow(c)
  <2>1. UNCHANGED <<newId, counters, stock, issued>> /\ call[c].at = "row"
    BY <1>1 DEF SaveRow, counters, goods, At
  <2>2. call[c].kind # "sync"
    BY <2>1, <1>job DEF Plan
  <2> QED BY <1>1, <2>1, <2>2, CountGoto, CountSkip DEF SaveRow
<1>2. CASE DeleteRows(c)
  <2>1. UNCHANGED <<newId, counters, stock, issued>> /\ call[c].at = "delete"
    BY <1>2 DEF DeleteRows, counters, goods, At
  <2>2. call[c].kind \notin {"confirm", "sync"}
    BY <2>1, <1>job DEF Bears
  <2> QED BY <1>2, <2>1, <2>2, CountGoto DEF DeleteRows
<1>3. CASE SaveOrder(c) \/ ApproveAll(c)
  BY <1>3, CountEnd DEF SaveOrder, ApproveAll, counters, goods
<1> QED BY <1>1, <1>2, <1>3

LEMMA CountInsert == ASSUME IInv, CountInv, NEW c \in Callers, InsertRows(c) PROVE CountInv'
<1>1. PICK k \in 0..(MaxRow + 1 - newId) :
        newId' = newId + k /\ \E new : InsertLines(c, NewIds(k), new)
  BY DEF InsertRows
<1>2. newId \in 1..(MaxRow + 1) /\ MaxRow \in Nat
  BY LinesAssumption DEF CountInv
<1>5. newId' \in 1..(MaxRow + 1)
  BY <1>1, <1>2
<1>job. call[c] \in Job /\ Bears(call[c]) /\ call[c].at = "insert"
  BY DEF IInv, CountInv, InsertRows, At
<1>6. PICK copies : Become(c, [call[c] EXCEPT !.at = "order", !.copies = copies], NoSums)
  BY <1>1 DEF InsertLines
<1>7. PICK job : job = [call[c] EXCEPT !.at = "order", !.copies = copies]
  OBVIOUS
<1>8. job.kind = call[c].kind /\ job.at = "order"
  BY <1>7, <1>job DEF Job
<1>9. Bears(job)
  BY <1>8, <1>job DEF Bears
<1>10. UNCHANGED <<counters, stock, issued>>
  BY DEF InsertRows, goods
<1> QED BY <1>5, <1>6, <1>7, <1>9, <1>10, FiguresTyped, CountGoes DEF CountInv, counters

LEMMA CountGoods ==
  ASSUME IInv, CountInv, NEW c \in Callers,
         LoadProduct(c) \/ TakeStock(c) \/ Unbook(c) \/ Unapprove(c) \/ ReturnStock(c)
  PROVE  CountInv'
<1>job. call[c] \in Job /\ Plan(call[c]) /\ Bears(call[c]) /\ sums[c] \in Figures
  BY DEF IInv, GoodJob, CountInv
<1>types. /\ newId \in 1..(MaxRow + 1) /\ booking \in Counts /\ approved \in Counts
          /\ stock \in [Products -> Int] /\ issued \subseteq Orders
  BY DEF CountInv
<1>paper. ASSUME call[c].at \in {"load", "take", "unbook", "unapprove", "return"}
          PROVE  /\ call[c].paper \in Delivery /\ call[c].paper.product \in Products
                 /\ call[c].kind \notin {"confirm", "sync"} /\ call[c].n \in Nat
  BY <1>paper, <1>job DEF Bears, Delivery, Job
<1>1. CASE LoadProduct(c)
  <2>1. call[c].at = "load" /\ UNCHANGED <<newId, booking, approved, stock, issued>>
    BY <1>1 DEF LoadProduct, At, lines, counters, goods
  <2>2. PICK p \in Products, n \in Nat : p = call[c].paper.product /\ n = call[c].n
    BY <2>1, <1>paper
  <2>3. PICK job, r, at :
          /\ job = [call[c] EXCEPT !.row = r, !.parts = Needed(p), !.at = at]
          /\ at \in {"take", "return", "counters", "lines", "row"}
          /\ Become(c, job,
               [sums[c] EXCEPT !.newB = Less(booking, p, n), !.newA = Less(approved, p, n)])
    BY <1>1, <2>2 DEF LoadProduct
  <2>4. [sums[c] EXCEPT !.newB = Less(booking, p, n), !.newA = Less(approved, p, n)] \in Figures
    BY <1>job, <1>types, LessTyped DEF Figures
  <2>5. job.kind = call[c].kind /\ job.at = at /\ job.paper = call[c].paper
    BY <2>3, <1>job DEF Job
  <2>6. Bears(job)
    BY <2>1, <2>3, <2>5, <1>paper DEF Bears
  <2> QED BY <2>1, <2>3, <2>4, <2>6, <1>types, CountGoes
<1>2. CASE TakeStock(c)
  <2>1. call[c].at = "take" /\ UNCHANGED <<newId, booking, approved, issued>>
    BY <1>2 DEF TakeStock, At, lines, counters
  <2>2. PICK s, job :
          /\ s \in call[c].parts /\ s \in Singles
          /\ stock' = [stock EXCEPT ![s] = @ - call[c].n * Parts[call[c].paper.product][s]]
          /\ job = [call[c] EXCEPT !.at = "unbook", !.part = s]
          /\ Become(c, job, sums[c])
    BY <1>2, <1>job DEF TakeStock, Job
  <2>3. s \in Singles
    BY <2>2
  <2>4. call[c].n * Parts[call[c].paper.product][s] \in Nat
    BY <2>1, <2>3, <1>paper, PiecesTyped, TimesNat
  <2>5. stock' \in [Products -> Int]
    BY <2>2, <2>3, <2>4, <1>types
  <2>6. job.kind = call[c].kind /\ job.at = "unbook" /\ job.paper = call[c].paper
    BY <2>2, <1>job DEF Job
  <2>7. Bears(job)
    BY <2>1, <2>6, <1>paper DEF Bears
  <2> QED BY <2>1, <2>2, <2>5, <2>7, <1>types, <1>job, CountGoes
<1>3. CASE Unbook(c)
  <2>1. /\ call[c].at = "unbook" /\ UNCHANGED <<newId, approved, stock, issued>>
        /\ booking' = [booking EXCEPT ![call[c].part] = sums[c].newB[call[c].part]]
    BY <1>3 DEF Unbook, At, lines, goods
  <2>2. booking' \in Counts
    BY <2>1, <1>types, <1>job DEF Counts, Figures
  <2>3. PICK job : job = [call[c] EXCEPT !.at = "unapprove"] /\ Become(c, job, sums[c])
    BY <1>3 DEF Unbook, Goto
  <2>4. job.kind = call[c].kind /\ job.at = "unapprove" /\ job.paper = call[c].paper
    BY <2>3, <1>job DEF Job
  <2>5. Bears(job)
    BY <2>1, <2>4, <1>paper DEF Bears
  <2> QED BY <2>1, <2>2, <2>3, <2>5, <1>types, <1>job, CountGoes
<1>4. CASE Unapprove(c)
  <2>1. /\ call[c].at = "unapprove" /\ UNCHANGED <<newId, booking, stock, issued>>
        /\ approved' = [approved EXCEPT ![call[c].part] = sums[c].newA[call[c].part]]
    BY <1>4 DEF Unapprove, At, lines, goods
  <2>2. approved' \in Counts
    BY <2>1, <1>types, <1>job DEF Counts, Figures
  <2>3. PICK job, at : /\ job = [call[c] EXCEPT !.at = at, !.parts = @ \ {call[c].part}]
                       /\ at \in {"paper", "take"} /\ Become(c, job, sums[c])
    BY <1>4 DEF Unapprove
  <2>4. job.kind = call[c].kind /\ job.at = at /\ job.paper = call[c].paper
    BY <2>3, <1>job DEF Job
  <2>5. Bears(job)
    BY <2>1, <2>3, <2>4, <1>paper DEF Bears
  <2> QED BY <2>1, <2>2, <2>3, <2>5, <1>types, <1>job, CountGoes
<1>5. CASE ReturnStock(c)
  <2>1. /\ call[c].at = "return" /\ UNCHANGED <<newId, booking, approved, issued>>
        /\ stock' = [stock EXCEPT ![call[c].paper.product] = @ + call[c].n]
    BY <1>5 DEF ReturnStock, At, lines, counters
  <2>2. stock' \in [Products -> Int]
    BY <2>1, <1>types, <1>paper
  <2>3. PICK job, at : /\ job = [call[c] EXCEPT !.at = at] /\ at \in {"lines", "row"}
                       /\ Become(c, job, sums[c])
    BY <1>5 DEF ReturnStock, Goto, AtRow
  <2>4. job.kind = call[c].kind /\ job.at = at
    BY <2>3, <1>job DEF Job
  <2>5. Bears(job)
    BY <2>1, <2>3, <2>4, <1>paper DEF Bears
  <2> QED BY <2>1, <2>2, <2>3, <2>5, <1>types, <1>job, CountGoes
<1> QED BY <1>1, <1>2, <1>3, <1>4, <1>5

LEMMA CountPapers ==
  ASSUME IInv, CountInv, NEW c \in Callers, ClearLines(c) \/ SavePaper(c) \/ RemovePaper(c)
  PROVE  CountInv'
<1>1. UNCHANGED <<newId, counters, stock, issued>>
  BY DEF ClearLines, SavePaper, RemovePaper, lines, counters
<1>2. call[c].at \in {"lines", "paper", "gone"}
  BY DEF ClearLines, SavePaper, RemovePaper, At
<1>3. call[c].kind \notin {"confirm", "sync"}
  BY <1>2 DEF CountInv, Bears
<1>4. End(c) \/ \E at \in {"gone", "paper", "order"} : Goto(c, at)
  BY DEF ClearLines, SavePaper, RemovePaper
<1> QED BY <1>1, <1>3, <1>4, CountEnd, CountGoto

LEMMA CountIssues ==
  ASSUME IInv, CountInv, NEW c \in Callers, SaveIssue(c) \/ LoadProducts(c)
  PROVE  CountInv'
<1>job. call[c] \in Job /\ Bears(call[c]) /\ sums[c] \in Figures
  BY DEF IInv, CountInv
<1>1. CASE SaveIssue(c)
  <2>1. /\ call[c].at = "issue" /\ issued' = issued \cup {call[c].order}
        /\ UNCHANGED <<newId, counters, stock>>
    BY <1>1 DEF SaveIssue, At, lines, counters, goods
  <2>2. issued' \subseteq Orders /\ call[c].kind \notin {"confirm", "sync"}
    BY <2>1, <1>job DEF CountInv, Bears
  <2>3. PICK job : job = [call[c] EXCEPT !.at = "bulk"] /\ Become(c, job, sums[c])
    BY <1>1 DEF SaveIssue, Goto
  <2>4. job.kind = call[c].kind /\ job.at = "bulk"
    BY <2>3, <1>job DEF Job
  <2>5. Bears(job)
    BY <2>2, <2>4 DEF Bears
  <2> QED BY <2>1, <2>2, <2>3, <2>5, <1>job, CountGoes DEF CountInv, counters
<1>2. CASE LoadProducts(c)
  <2>1. call[c].kind = "sync" /\ UNCHANGED <<newId, counters, stock, issued>>
    BY <1>2 DEF LoadProducts, At, lines, counters, goods, IInv, GoodJob, Plan
  <2>2. PICK job, at, wrong :
          /\ job = [call[c] EXCEPT !.at = at, !.parts = wrong]
          /\ at \in {"bulk", "counters"} /\ Become(c, job, sums[c])
    BY <1>2 DEF LoadProducts
  <2>3. job.kind = call[c].kind /\ job.at = at
    BY <2>2, <1>job DEF Job
  <2>4. Bears(job)
    BY <2>1, <2>2, <2>3 DEF Bears
  <2> QED BY <2>1, <2>2, <2>4, <1>job, CountGoes, CountSame
<1> QED BY <1>1, <1>2

LEMMA CountStep == IInv /\ CountInv /\ [Next]_vars => CountInv'
<1> SUFFICES ASSUME IInv, CountInv, [Next]_vars PROVE CountInv'
  OBVIOUS
<1>1. ASSUME NEW c \in Callers, Step(c) PROVE CountInv'
  BY <1>1, CountTreats, CountReload, CountCounter, CountRows, CountInsert, CountGoods, CountPapers,
     CountIssues DEF Step
<1>2. CASE Expire
  <2>1. PICK base \in Job : base = Loading("expire", "next", Overdue) /\ base.kind = "expire"
                            /\ base.at = "next"
    BY LoadingAt DEF Tasks, AllKinds, Places
  <2>2. PICK job : job = [base EXCEPT !.todo = Overdue]
    OBVIOUS
  <2>3. job.kind = "expire" /\ job.at = "next"
    BY <2>1, <2>2 DEF Job
  <2>4. Bears(job)
    BY <2>3 DEF Bears
  <2>5. calls' \in 0..MaxCalls /\ Begin(Cron, job, Seen)
    BY <1>2, <2>1, <2>2 DEF Expire, CountInv
  <2> QED BY <2>4, <2>5, FiguresTyped, CountBegins, CronAssumption
<1>3. ASSUME NEW r \in RowIds, TimePasses(r) PROVE CountInv'
  BY <1>3 DEF TimePasses, CountInv, counters, goods
<1>4. CASE UNCHANGED vars
  BY <1>4 DEF vars, CountInv
<1> QED BY <1>1, <1>2, <1>3, <1>4, CountRequest DEF Next

LEMMA CountHolds == Spec => [](IInv /\ CountInv)
<1>1. Init => IInv /\ CountInv
  BY StartsGood, CountInit
<1>2. (IInv /\ CountInv) /\ [Next]_vars => (IInv /\ CountInv)'
  BY StepKeeps, CountStep
<1> QED BY <1>1, <1>2, PTL DEF Spec

\* Whatever requests overlap, the counters of bookings stay natural numbers, the ids of the rows
\* within the table, and every copy of a row, also one about to be saved, is a row
\* (getBookingStats, syncBookingStock, Math.max(0, ...) in confirmStockExport and deleteDelivery).
THEOREM BookingTyped == Spec => []TypeOK
<1>1. IInv /\ CountInv => TypeOK
  BY DEF IInv, CountInv, GoodRest, GoodRows, GoodJob, Job, Table, Paper, Counts, TypeOK
<1> QED BY <1>1, CountHolds, PTL
-----------------------------------------------------------------------------
(* A request during which no other is in progress *)

Lonely(c) == \A d \in Callers \ {c} : call[d] = Idle

\* A synchronisation holds the sums of the rows, and has saved all counters it need not save.
Unsaved(c) == IF call[c].at = "bulk" THEN {} ELSE call[c].parts
Summed(c) ==
  \A s \in Singles : /\ sums[c].newB[s] = SumOf("TEMPORARY", s)
                     /\ sums[c].newA[s] = SumOf("CONFIRMED", s)
SyncAt(c) ==
  call[c].kind = "sync" =>
    /\ Summed(c)
    /\ call[c].at # "products" =>
         \A s \in Singles \ Unsaved(c) : /\ booking[s] = sums[c].newB[s]
                                         /\ approved[s] = sums[c].newA[s]

\* An approval remembers of the stock what its rows have left of it.  Its rows have, with the one
\* it is about to save, no more than was in stock and not approved before.
Remembers(c) ==
  /\ sums[c].stock \in [Products -> Int]
  /\ \A s \in Singles : sums[c].oldA[s] <= approved[s]
  /\ \A r \in RowIds : call[c].copies[r] # NoRow /\ rows[r] # NoRow =>
                         rows[r].product = call[c].copies[r].product
Pieces(job, s) == job.n * Parts[job.copies[job.row].product][s]
Pending(job, s) == IF job.at = "next" THEN 0 ELSE Pieces(job, s)
Granted(c, s) == ApprovedOf(call[c].copies, rows, s) + Pending(call[c], s)
ConfirmAt(c) ==
  call[c].kind = "confirm" =>
    /\ Remembers(c)
    /\ \A s \in Singles : /\ Granted(c, s) <= stock[s] - sums[c].stock[s]
                          /\ Granted(c, s) <= Minus(stock[s], sums[c].oldA[s])
    /\ call[c].at = "counters" => \A s \in Singles : sums[c].oldA[s] <= sums[c].newA[s]

AloneInv == \A c \in alone : call[c] # Idle => Lonely(c) /\ SyncAt(c) /\ ConfirmAt(c)

\* What an approved row of a table that was loaded as a temporary one holds of s.
Grant(copies, table, s, r) ==
  IF /\ copies[r] # NoRow /\ copies[r].status = "TEMPORARY"
     /\ table[r] # NoRow /\ table[r].status = "CONFIRMED"
  THEN table[r].booked * Parts[table[r].product][s] ELSE 0

LEMMA GrantTyped ==
  ASSUME NEW copies, NEW table \in Table, NEW s \in Singles, NEW r \in RowIds
  PROVE  Grant(copies, table, s, r) \in Nat
<1>1. CASE table[r] # NoRow
  <2>1. table[r].booked \in Nat /\ table[r].product \in Products
    BY <1>1 DEF Table, Row
  <2>2. table[r].booked * Parts[table[r].product][s] \in Nat
    BY <2>1, TimesNat, PiecesTyped
  <2> QED BY <2>2 DEF Grant
<1>2. CASE table[r] = NoRow
  BY <1>2 DEF Grant
<1> QED BY <1>1, <1>2

Grants(copies, table, s) == Sum([r \in RowIds |-> Grant(copies, table, s, r)], RowIds)

LEMMA ApprovedIsGranted ==
  ASSUME NEW copies, NEW table \in Table, NEW s \in Singles
  PROVE  /\ ApprovedOf(copies, table, s) = Grants(copies, table, s)
         /\ ApprovedOf(copies, table, s) \in Nat
<1> DEFINE f == [r \in RowIds |-> Grant(copies, table, s, r)]
           D == {r \in RowIds : /\ copies[r] # NoRow /\ copies[r].status = "TEMPORARY"
                                /\ table[r] # NoRow /\ table[r].status = "CONFIRMED"}
           h == [r \in D |-> table[r].booked * Parts[table[r].product][s]]
<1>1. \A r \in RowIds : f[r] \in Nat
  BY GrantTyped
<1>2. \A r \in RowIds \ D : f[r] = 0
  BY DEF Grant
<1>3. \A r \in D : r \in RowIds /\ f[r] = h[r]
  BY DEF Grant
<1>4. D \in SUBSET RowIds /\ IsFiniteSet(D)
  BY RowIdsFinite, FS_Subset
<1> HIDE DEF f, h, D
<1>5. \A r \in RowIds : f[r] \in Int
  BY <1>1
<1>6. Sum(f, RowIds) = Sum(f, D)
  BY <1>2, <1>4, <1>5, RowIdsFinite, SumWithin
<1>7. Sum(f, D) = Sum(h, D)
  BY <1>3, <1>4, <1>5, SumSame
<1>8. Sum(f, RowIds) \in Nat
  BY <1>1, RowIdsFinite, SumNat
<1> QED BY <1>6, <1>7, <1>8 DEF ApprovedOf, Grants, f, h, D

\* When one row changes, what is approved grows by what this row gains.
LEMMA GrantChanged ==
  ASSUME NEW copies, NEW table \in Table, NEW next \in Table, NEW s \in Singles, NEW r \in RowIds,
         \A q \in RowIds \ {r} : next[q] = table[q]
  PROVE  ApprovedOf(copies, next, s) =
           ApprovedOf(copies, table, s) + (Grant(copies, next, s, r) - Grant(copies, table, s, r))
<1> DEFINE f == [q \in RowIds |-> Grant(copies, table, s, q)]
           g == [q \in RowIds |-> Grant(copies, next, s, q)]
<1>1. \A q \in RowIds : f[q] \in Nat /\ g[q] \in Nat
  BY GrantTyped
<1>2. \A q \in RowIds \ {r} : f[q] = g[q]
  BY DEF Grant
<1>3. f[r] = Grant(copies, table, s, r) /\ g[r] = Grant(copies, next, s, r)
  OBVIOUS
<1> HIDE DEF f, g
<1>4. \A q \in RowIds : f[q] \in Int /\ g[q] \in Int
  BY <1>1
<1>5. Sum(g, RowIds) = Sum(f, RowIds) + (g[r] - f[r])
  BY <1>2, <1>4, RowIdsFinite, SumChanged
<1> QED BY <1>3, <1>5, ApprovedIsGranted DEF Grants, f, g

\* Five days approve nothing.
LEMMA GrantAges ==
  ASSUME IInv, NEW r \in RowIds, TimePasses(r), NEW copies, NEW s \in Singles
  PROVE  ApprovedOf(copies, rows', s) = ApprovedOf(copies, rows, s)
<1>1. rows[r] \in Row /\ rows' = [rows EXCEPT ![r].ends = "past"] /\ rows \in Table
  BY DEF TimePasses, IInv, GoodRows, Table
<1>2. PICK aged : aged = [rows[r] EXCEPT !.ends = "past"]
  OBVIOUS
<1>3. /\ aged.status = rows[r].status /\ aged.booked = rows[r].booked
      /\ aged.product = rows[r].product /\ aged \in Row
  BY <1>1, <1>2 DEF Row
<1>4. \A q \in RowIds : rows'[q] = IF q = r THEN aged ELSE rows[q]
  BY <1>1, <1>2 DEF Table
<1>5. rows' \in Table
  BY <1>1, <1>2, <1>3 DEF Table
<1>6. aged # NoRow /\ rows[r] # NoRow
  BY <1>1, <1>3, NullAssumption
<1>7. Grant(copies, rows', s, r) = Grant(copies, rows, s, r)
  BY <1>3, <1>4, <1>6 DEF Grant
<1>8. Grant(copies, rows, s, r) \in Nat /\ ApprovedOf(copies, rows, s) \in Nat
  BY <1>1, GrantTyped, ApprovedIsGranted
<1>9. \A q \in RowIds \ {r} : rows'[q] = rows[q]
  BY <1>4
<1>10. PICK table \in Table, before \in Table : table = rows' /\ before = rows
  BY <1>1, <1>5
<1>11. \A q \in RowIds \ {r} : table[q] = before[q]
  BY <1>9, <1>10
<1>12. ApprovedOf(copies, table, s) =
          ApprovedOf(copies, before, s) + (Grant(copies, table, s, r) - Grant(copies, before, s, r))
  BY <1>11, GrantChanged
<1>13. ApprovedOf(copies, rows', s) = ApprovedOf(copies, rows, s)
        + (Grant(copies, rows', s, r) - Grant(copies, rows, s, r))
  BY <1>10, <1>12
<1> QED BY <1>7, <1>8, <1>13

LEMMA StepIsBusy == ASSUME NEW c \in Callers, Step(c) PROVE call[c] # Idle
<1>1. call[c].at # "idle"
  BY DEF Step, Treat, Reload, SaveCounter, SaveRow, DeleteRows, InsertRows, SaveOrder, LoadProduct,
         TakeStock, Unbook, Unapprove, ReturnStock, ClearLines, SavePaper, RemovePaper, SaveIssue,
         LoadProducts, ApproveAll, At
<1> QED BY <1>1 DEF Idle

\* A step goes on with the same kind of request, or ends it.
Onward(c) ==
  \E job, figures : Become(c, job, figures) /\ (job.kind = call[c].kind \/ job = Idle)

LEMMA GotoOnward == ASSUME IInv, NEW c \in Callers, NEW at, Goto(c, at) PROVE Onward(c)
<1>1. PICK job : job = [call[c] EXCEPT !.at = at]
  OBVIOUS
<1>2. job.kind = call[c].kind
  BY <1>1 DEF IInv, Job
<1> QED BY <1>1, <1>2 DEF Goto, Onward

LEMMA EndOnward == ASSUME NEW c \in Callers, End(c) PROVE Onward(c)
BY DEF End, Onward

LEMMA SkipOnward == ASSUME IInv, NEW c \in Callers, NEW r, Skip(c, r) PROVE Onward(c)
<1>1. PICK rest : rest = call[c].todo \ {r}
  OBVIOUS
<1>2. PICK job : job = [call[c] EXCEPT !.at = "next", !.todo = rest]
  OBVIOUS
<1>3. job.kind = call[c].kind
  BY <1>2 DEF IInv, Job
<1>4. Become(c, job, sums[c]) \/ End(c)
  BY <1>1, <1>2 DEF Skip
<1> QED BY <1>3, <1>4, EndOnward DEF Onward

LEMMA TreatOnward == ASSUME IInv, NEW c \in Callers, Treat(c) PROVE Onward(c)
<1>job. call[c] \in Job
  BY DEF IInv
<1>1. PICK r : TreatBook(c, r) \/ TreatConfirm(c, r) \/ TreatExpire(c, r) \/ TreatRevert(c, r)
  BY DEF Treat
<1>2. ASSUME NEW at, NEW n, NEW parts, NEW figures,
             Become(c, [call[c] EXCEPT !.at = at, !.row = r, !.n = n, !.parts = parts], figures)
      PROVE  Onward(c)
  <2>1. PICK job : job = [call[c] EXCEPT !.at = at, !.row = r, !.n = n, !.parts = parts]
    OBVIOUS
  <2>2. job.kind = call[c].kind
    BY <2>1, <1>job DEF Job
  <2> QED BY <1>2, <2>1, <2>2 DEF Onward
<1>3. ASSUME NEW at, NEW parts, NEW figures,
             Become(c, [call[c] EXCEPT !.at = at, !.row = r, !.parts = parts], figures)
      PROVE  Onward(c)
  <2>1. PICK job : job = [call[c] EXCEPT !.at = at, !.row = r, !.parts = parts]
    OBVIOUS
  <2>2. job.kind = call[c].kind
    BY <2>1, <1>job DEF Job
  <2> QED BY <1>3, <2>1, <2>2 DEF Onward
<1>4. CASE TreatBook(c, r)
  BY <1>2, <1>4, SkipOnward DEF TreatBook
<1>5. CASE TreatConfirm(c, r)
  BY <1>2, <1>5 DEF TreatConfirm
<1>6. CASE TreatExpire(c, r) \/ TreatRevert(c, r)
  BY <1>3, <1>6 DEF TreatExpire, TreatRevert
<1> QED BY <1>1, <1>4, <1>5, <1>6

LEMMA StepOnward == ASSUME IInv, NEW c \in Callers, Step(c) PROVE Onward(c)
<1>job. call[c] \in Job
  BY DEF IInv
<1>1. CASE Treat(c)
  BY <1>1, TreatOnward
<1>2. CASE Reload(c)
  <2>1. PICK job, figures : job = [call[c] EXCEPT !.at = "counters"] /\ Become(c, job, figures)
    BY <1>2 DEF Reload
  <2>2. job.kind = call[c].kind
    BY <2>1, <1>job DEF Job
  <2> QED BY <2>1, <2>2 DEF Onward
<1>3. CASE SaveCounter(c) \/ Unapprove(c)
  <2>1. PICK at, parts, figures :
          Become(c, [call[c] EXCEPT !.parts = parts, !.at = at], figures)
          \/ Become(c, [call[c] EXCEPT !.at = at, !.parts = parts], figures)
    BY <1>3 DEF SaveCounter, Unapprove
  <2>2. PICK job, also : /\ job = [call[c] EXCEPT !.parts = parts, !.at = at]
                         /\ also = [call[c] EXCEPT !.at = at, !.parts = parts]
    OBVIOUS
  <2>3. job.kind = call[c].kind /\ also.kind = call[c].kind
    BY <2>2, <1>job DEF Job
  <2> QED BY <2>1, <2>2, <2>3 DEF Onward
<1>4. CASE SaveRow(c)
  BY <1>4, GotoOnward, SkipOnward DEF SaveRow
<1>5. CASE DeleteRows(c) \/ Unbook(c) \/ ReturnStock(c) \/ ClearLines(c) \/ SaveIssue(c)
  BY <1>5, GotoOnward DEF DeleteRows, Unbook, ReturnStock, ClearLines, SaveIssue
<1>6. CASE SaveOrder(c) \/ RemovePaper(c) \/ ApproveAll(c)
  BY <1>6, EndOnward DEF SaveOrder, RemovePaper, ApproveAll
<1>7. CASE SavePaper(c)
  BY <1>7, GotoOnward, EndOnward DEF SavePaper
<1>8. CASE InsertRows(c)
  <2>1. PICK copies : Become(c, [call[c] EXCEPT !.at = "order", !.copies = copies], NoSums)
    BY <1>8 DEF InsertRows, InsertLines
  <2>2. PICK job : job = [call[c] EXCEPT !.at = "order", !.copies = copies]
    OBVIOUS
  <2>3. job.kind = call[c].kind
    BY <2>2, <1>job DEF Job
  <2> QED BY <2>1, <2>2, <2>3 DEF Onward
<1>9. CASE LoadProduct(c)
  <2>1. PICK r, parts, at, figures :
          Become(c, [call[c] EXCEPT !.row = r, !.parts = parts, !.at = at], figures)
    BY <1>9 DEF LoadProduct
  <2>2. PICK job : job = [call[c] EXCEPT !.row = r, !.parts = parts, !.at = at]
    OBVIOUS
  <2>3. job.kind = call[c].kind
    BY <2>2, <1>job DEF Job
  <2> QED BY <2>1, <2>2, <2>3 DEF Onward
<1>10. CASE TakeStock(c)
  <2>1. PICK s : Become(c, [call[c] EXCEPT !.at = "unbook", !.part = s], sums[c])
    BY <1>10 DEF TakeStock
  <2>2. PICK job : job = [call[c] EXCEPT !.at = "unbook", !.part = s]
    OBVIOUS
  <2>3. job.kind = call[c].kind
    BY <2>2, <1>job DEF Job
  <2> QED BY <2>1, <2>2, <2>3 DEF Onward
<1>11. CASE LoadProducts(c)
  <2>1. PICK at, parts : Become(c, [call[c] EXCEPT !.at = at, !.parts = parts], sums[c])
    BY <1>11 DEF LoadProducts
  <2>2. PICK job : job = [call[c] EXCEPT !.at = at, !.parts = parts]
    OBVIOUS
  <2>3. job.kind = call[c].kind
    BY <2>2, <1>job DEF Job
  <2> QED BY <2>1, <2>2, <2>3 DEF Onward
<1> QED BY <1>1, <1>2, <1>3, <1>4, <1>5, <1>6, <1>7, <1>8, <1>9, <1>10, <1>11 DEF Step

\* The others stay idle while it goes on: only its own step can happen.
LEMMA AloneStep ==
  ASSUME IInv, CountInv, AloneInv, NEW c \in Callers, Step(c),
         c \in alone => SyncAt(c)' /\ ConfirmAt(c)'
  PROVE  AloneInv'
<1>1. PICK job, figures : Become(c, job, figures)
  BY StepOnward DEF Onward
<1>2. call[c] # Idle /\ call \in [Callers -> Job]
  BY StepIsBusy DEF IInv
<1>3. alone' = alone /\ \A d \in Callers \ {c} : call'[d] = call[d]
  BY <1>1, <1>2 DEF Become
<1>4. \A e \in alone : call[e] # Idle => Lonely(e)
  BY DEF AloneInv
<1>5. \A e \in alone \ {c} : call[e] = Idle /\ e \in Callers
  BY <1>2, <1>4 DEF Lonely, CountInv
<1>6. c \in alone => Lonely(c)'
  BY <1>2, <1>3, <1>4 DEF Lonely
<1> QED BY <1>3, <1>5, <1>6 DEF AloneInv

LEMMA SumOfKept == ASSUME UNCHANGED rows, NEW st, NEW s PROVE SumOf(st, s)' = SumOf(st, s)
BY DEF SumOf, HasStatus, Booked

\* Five days change no sum.
LEMMA SumOfAges ==
  ASSUME IInv, NEW r \in RowIds, TimePasses(r), NEW st, NEW s \in Singles
  PROVE  SumOf(st, s)' = SumOf(st, s)
<1> DEFINE f == [q \in RowIds |-> Share(st, s, q)]
           g == [q \in RowIds |-> Share(st, s, q)']
<1>1. \A q \in RowIds : f[q] \in Int
  <2>1. \A q \in RowIds : f[q] \in Nat
    BY ShareTyped DEF IInv
  <2> QED BY <2>1
<1>2. rows[r] \in Row /\ rows' = [rows EXCEPT ![r].ends = "past"] /\ rows \in Table
  BY DEF TimePasses, IInv, GoodRows, Table
<1>3. PICK aged : aged = [rows[r] EXCEPT !.ends = "past"]
  OBVIOUS
<1>4. /\ aged.status = rows[r].status /\ aged.booked = rows[r].booked
      /\ aged.product = rows[r].product /\ aged \in Row
  BY <1>2, <1>3 DEF Row
<1>5. \A q \in RowIds : rows'[q] = IF q = r THEN aged ELSE rows[q]
  BY <1>2, <1>3 DEF Table
<1>6. \A q \in RowIds : Share(st, s, q)' = Share(st, s, q)
  <2> SUFFICES ASSUME NEW q \in RowIds PROVE Share(st, s, q)' = Share(st, s, q)
    OBVIOUS
  <2>1. CASE q = r
    <3>1. rows'[q] = aged /\ rows[q] # NoRow /\ aged # NoRow
      BY <1>2, <1>4, <1>5, <2>1
    <3> QED BY <2>1, <3>1, <1>4 DEF Share, HasStatus, Booked
  <2>2. CASE q # r
    BY <1>5, <2>2 DEF Share, HasStatus, Booked
  <2> QED BY <2>1, <2>2
<1>7. \A q \in RowIds : f[q] = g[q]
  BY <1>6
<1> HIDE DEF f, g
<1>8. Sum(f, RowIds) = Sum(g, RowIds)
  BY <1>1, <1>7, RowIdsFinite, SumSame
<1> QED BY <1>8 DEF SumOf, Share, f, g

LEMMA ProductAges ==
  ASSUME IInv, NEW r \in RowIds, TimePasses(r), NEW q \in RowIds, rows'[q] # NoRow
  PROVE  rows[q] # NoRow /\ rows'[q].product = rows[q].product
<1>1. rows[r] \in Row /\ rows' = [rows EXCEPT ![r].ends = "past"] /\ rows \in Table
      /\ rows[r] # NoRow
  BY DEF TimePasses, IInv, GoodRows, Table
<1> QED BY <1>1 DEF Table, Row

LEMMA AloneAges == ASSUME IInv, AloneInv, NEW r \in RowIds, TimePasses(r) PROVE AloneInv'
<1>1. UNCHANGED <<booking, approved, stock, call, sums, alone>>
  BY DEF TimePasses, counters, goods
<1>2. \A s \in Singles : /\ SumOf("TEMPORARY", s)' = SumOf("TEMPORARY", s)
                         /\ SumOf("CONFIRMED", s)' = SumOf("CONFIRMED", s)
  BY SumOfAges
<1>3. ASSUME NEW c \in alone, call[c] # Idle PROVE (Lonely(c) /\ SyncAt(c) /\ ConfirmAt(c))'
  <2>1. Lonely(c) /\ SyncAt(c) /\ ConfirmAt(c)
    BY <1>3 DEF AloneInv
  <2>2. Lonely(c)'
    BY <1>1, <2>1 DEF Lonely
  <2>3. SyncAt(c)'
    BY <1>1, <1>2, <2>1 DEF SyncAt, Summed, Unsaved
  <2>4. ConfirmAt(c)'
    <3>1. \A s \in Singles : Granted(c, s)' = Granted(c, s)
      BY <1>1, GrantAges DEF Granted, Pending, Pieces
    <3>2. \A q \in RowIds : rows'[q] # NoRow =>
            rows[q] # NoRow /\ rows'[q].product = rows[q].product
      BY ProductAges
    <3> QED BY <1>1, <2>1, <3>1, <3>2 DEF ConfirmAt, Remembers
  <2> QED BY <2>2, <2>3, <2>4
<1> QED BY <1>1, <1>3 DEF AloneInv

LEMMA ProductsTyped == Singles \subseteq Products
BY DEF Products

\* A request that begins is alone when none is in progress, and holds what it has just read.
LEMMA AloneBegins ==
  ASSUME IInv, CountInv, AloneInv, NEW c \in Callers, NEW job, NEW figures,
         Begin(c, job, figures),
         job.kind = "confirm" => FreshApproval(job, figures),
         job.kind = "sync" =>
           /\ job.at = "products"
           /\ \A s \in Singles : /\ figures.newB[s] = SumOf("TEMPORARY", s)
                                 /\ figures.newA[s] = SumOf("CONFIRMED", s)
  PROVE  AloneInv'
<1>1. /\ alone' \subseteq {c} /\ (c \in alone' => Quiet)
      /\ call'[c] = job /\ sums'[c] = figures
      /\ \A d \in Callers \ {c} : call'[d] = call[d]
      /\ UNCHANGED <<rows, booking, approved, stock>>
  BY DEF Begin, IInv, CountInv, lines, counters, goods
<1>2. ASSUME c \in alone' PROVE (Lonely(c) /\ SyncAt(c) /\ ConfirmAt(c))'
  <2>1. Lonely(c)'
    BY <1>1, <1>2 DEF Lonely, Quiet
  <2>2. SyncAt(c)'
    BY <1>1, SumOfKept DEF SyncAt, Summed
  <2>3. ConfirmAt(c)'
    <3> SUFFICES ASSUME job.kind = "confirm" PROVE ConfirmAt(c)'
      BY <1>1 DEF ConfirmAt
    <3>1. /\ job.at = "next" /\ sums'[c].stock = stock /\ sums'[c].oldA = approved
          /\ \A r \in RowIds : job.copies[r] # NoRow => job.copies[r] = rows[r]
      BY <1>1 DEF FreshApproval, Seen
    <3>2. rows \in Table /\ rows' = rows
      BY <1>1 DEF IInv, GoodRows
    <3>3. Remembers(c)'
      BY <1>1, <3>1, <3>2 DEF Remembers, CountInv, Counts
    <3>4. ASSUME NEW s \in Singles PROVE ApprovedOf(job.copies, rows, s) = 0
      <4>1. {r \in RowIds : /\ job.copies[r] # NoRow /\ job.copies[r].status = "TEMPORARY"
                            /\ rows[r] # NoRow /\ rows[r].status = "CONFIRMED"} = {}
        BY <3>1
      <4> QED BY <4>1, SumEmpty DEF ApprovedOf
    <3>5. ASSUME NEW s \in Singles
          PROVE  (/\ Granted(c, s) <= stock[s] - sums[c].stock[s]
                  /\ Granted(c, s) <= Minus(stock[s], sums[c].oldA[s]))'
      <4>1. Granted(c, s)' = 0
        BY <1>1, <3>1, <3>2, <3>4 DEF Granted, Pending
      <4>2. stock[s] \in Int /\ approved[s] \in Nat
        BY ProductsTyped DEF CountInv, Counts
      <4> QED BY <1>1, <3>1, <4>1, <4>2 DEF Minus
    <3> QED BY <1>1, <3>1, <3>3, <3>5 DEF ConfirmAt
  <2> QED BY <2>1, <2>2, <2>3
<1> QED BY <1>1, <1>2 DEF AloneInv

\* A synchronisation saves the sums it took, one product after another.
LEMMA SyncGoes ==
  ASSUME IInv, CountInv, NEW c \in Callers, Step(c), SyncAt(c) PROVE SyncAt(c)'
<1>1. PICK job, figures : Become(c, job, figures) /\ (job.kind = call[c].kind \/ job = Idle)
  BY StepOnward DEF Onward
<1>2. call'[c] = job /\ Idle.kind = "none"
  BY <1>1 DEF Become, IInv, Idle
<1>3. CASE call[c].kind # "sync"
  BY <1>1, <1>2, <1>3 DEF SyncAt
<1>4. CASE job = Idle
  BY <1>2, <1>4 DEF SyncAt
<1>5. CASE call[c].kind = "sync" /\ job # Idle
  <2>1. call[c].at \in {"products", "counters", "bulk"} /\ Summed(c) /\ call[c] \in Job
        /\ booking \in Counts /\ approved \in Counts
    BY <1>5 DEF CountInv, Bears, SyncAt, IInv
  <2>2. LoadProducts(c) \/ SaveCounter(c) \/ ApproveAll(c)
    BY <2>1 DEF Step, Treat, Reload, SaveRow, DeleteRows, InsertRows, SaveOrder, LoadProduct,
           TakeStock, Unbook, Unapprove, ReturnStock, ClearLines, SavePaper, RemovePaper, SaveIssue, At
  <2>3. CASE ApproveAll(c)
    <3>1. call'[c] = Idle
      BY <2>3 DEF ApproveAll, End, Become, IInv
    <3> QED BY <3>1, <1>2, <1>5
  <2>4. CASE LoadProducts(c)
    <3>1. PICK wrong : wrong = {s \in Singles : \/ booking[s] # sums[c].newB[s]
                                                \/ approved[s] # sums[c].newA[s]}
      OBVIOUS
    <3>2. /\ Become(c, [call[c] EXCEPT !.at = IF wrong = {} THEN "bulk" ELSE "counters",
                                       !.parts = wrong], sums[c])
          /\ UNCHANGED <<rows, booking, approved>>
      BY <2>4, <3>1 DEF LoadProducts, lines, counters
    <3>3. sums'[c] = sums[c] /\ call'[c].parts = wrong
          /\ (call'[c].at = "bulk" => wrong = {})
      BY <2>1, <3>2 DEF Become, IInv, CountInv, Job
    <3>4. Summed(c)'
      BY <2>1, <3>2, <3>3, SumOfKept DEF Summed
    <3>5. \A s \in Singles \ Unsaved(c)' : booking[s] = sums[c].newB[s] /\ approved[s] = sums[c].newA[s]
      BY <3>1, <3>3 DEF Unsaved
    <3> QED BY <3>2, <3>3, <3>4, <3>5 DEF SyncAt
  <2>5. CASE SaveCounter(c)
    <3>1. PICK s \in call[c].parts :
            /\ booking' = [booking EXCEPT ![s] = sums[c].newB[s]]
            /\ approved' = [approved EXCEPT ![s] = sums[c].newA[s]]
            /\ Become(c, [call[c] EXCEPT !.parts = @ \ {s},
                            !.at = IF call[c].parts = {s} THEN "bulk" ELSE @], sums[c])
      BY <1>5, <2>5 DEF SaveCounter
    <3>2. s \in Singles /\ UNCHANGED rows /\ call[c].at = "counters"
      BY <2>1, <2>5, <3>1 DEF SaveCounter, Job, lines, At
    <3>3. sums'[c] = sums[c] /\ call'[c].parts = call[c].parts \ {s}
          /\ (call'[c].at = "bulk" => call[c].parts = {s})
      BY <2>1, <3>1, <3>2 DEF Become, IInv, CountInv, Job
    <3>4. Summed(c)'
      BY <2>1, <3>2, <3>3, SumOfKept DEF Summed
    <3>5. \A q \in Singles \ call[c].parts : booking[q] = sums[c].newB[q] /\ approved[q] = sums[c].newA[q]
      BY <1>5, <3>2 DEF SyncAt, Unsaved
    <3>6. Unsaved(c)' = call[c].parts \ {s}
      BY <3>3 DEF Unsaved
    <3>7. \A q \in Singles \ Unsaved(c)' : booking'[q] = sums[c].newB[q] /\ approved'[q] = sums[c].newA[q]
      BY <2>1, <3>1, <3>2, <3>5, <3>6 DEF Counts
    <3> QED BY <3>3, <3>4, <3>7 DEF SyncAt
  <2> QED BY <2>2, <2>3, <2>4, <2>5
<1> QED BY <1>1, <1>3, <1>4, <1>5

\* What is covered is in stock beyond what is promised; a quantity of none promises nothing.
LEMMA CoveredPromise ==
  ASSUME NEW p \in Products, NEW n \in Nat, NEW inStock, NEW promised \in Counts,
         \A s \in Singles : inStock[s] \in Int, Covered(p, n, inStock, promised), NEW s \in Singles
  PROVE  /\ n * Parts[p][s] \in Nat
         /\ n * Parts[p][s] = 0 \/ promised[s] + n * Parts[p][s] <= inStock[s]
<1>1. n * Parts[p][s] \in Nat /\ Parts[p][s] \in Nat
  BY TimesNat, PiecesTyped
<1>2. CASE s \in Needed(p)
  <2>1. Most(Free(inStock, promised, s), 0) >= n * Parts[p][s]
    BY <1>2 DEF Covered
  <2>2. PICK more \in Nat : more = n * Parts[p][s]
    BY <1>1
  <2>3. inStock[s] \in Int /\ promised[s] \in Nat
    BY DEF Counts
  <2>4. more = 0 \/ promised[s] + more <= inStock[s]
    BY <2>1, <2>2, <2>3 DEF Most, Free
  <2> QED BY <1>1, <2>2, <2>4
<1>3. CASE s \notin Needed(p)
  <2>1. Parts[p][s] = 0
    BY <1>1, <1>3 DEF Needed
  <2> QED BY <1>1, <2>1
<1> QED BY <1>2, <1>3

\* An approval takes what is covered by the stock it remembers, which its rows before have lowered.
LEMMA ConfirmTreats ==
  ASSUME IInv, CountInv, NEW c \in Callers, Treat(c), ConfirmAt(c), call[c].kind = "confirm"
  PROVE  ConfirmAt(c)'
<1>1. PICK q \in call[c].todo : TreatConfirm(c, q) /\ call[c].at = "next" /\ rows' = rows
  BY DEF Treat, TreatBook, TreatExpire, TreatRevert, At, lines
<1>job. call[c] \in Job /\ Plan(call[c])
  BY DEF IInv, GoodJob
<1>2. PICK p, row : p = row.product /\ row = call[c].copies[q]
  OBVIOUS
<1>3. p \in Products /\ row.qty \in Nat
  BY <1>2, <1>job DEF Job, Plan, Table, Row
<1> DEFINE left(n) == Lowered(sums[c].stock, p, n)
           at == IF p \in Combos THEN "reload" ELSE "counters"
<1>4. PICK n \in 0..row.qty :
        /\ Covered(p, n, sums[c].stock, SourceA(c, p))
        /\ Become(c, [call[c] EXCEPT !.at = at, !.row = q, !.n = n, !.parts = Needed(p)],
                     [sums[c] EXCEPT !.newA = Plus(SourceA(c, p), p, n), !.stock = left(n)])
  BY <1>1, <1>2 DEF TreatConfirm
<1>5. /\ UNCHANGED <<stock, approved>> /\ n \in Nat /\ sums[c] \in Figures /\ Remembers(c)
      /\ SourceA(c, p) \in Counts /\ approved \in Counts /\ stock \in [Products -> Int]
  BY <1>3, <1>4, SourcesTyped DEF Treat, counters, goods, CountInv, ConfirmAt
<1>6. /\ sums[c].oldA \in Counts /\ sums[c].stock \in [Products -> Int]
      /\ \A s \in Singles : sums[c].oldA[s] <= approved[s]
  BY <1>5 DEF Figures, Remembers
<1>7. /\ call'[c] = [call[c] EXCEPT !.at = at, !.row = q, !.n = n, !.parts = Needed(p)]
      /\ sums'[c] = [sums[c] EXCEPT !.newA = Plus(SourceA(c, p), p, n), !.stock = left(n)]
  BY <1>4 DEF Become, IInv, CountInv
<1>at. at \in {"reload", "counters"} /\ (at = "counters" => p \notin Combos)
  OBVIOUS
<1>8. \A s \in Singles : n * Parts[p][s] \in Nat
  BY <1>3, <1>5, TimesNat, PiecesTyped
<1>9. /\ left(n) \in [Products -> Int]
      /\ \A s \in Singles : left(n)[s] = sums[c].stock[s] - n * Parts[p][s]
  BY <1>6, <1>8, ProductsTyped DEF Lowered
<1> HIDE DEF left, at
<1>10. /\ call'[c].kind = "confirm" /\ call'[c].at = at /\ call'[c].row = q /\ call'[c].n = n
       /\ call'[c].copies = call[c].copies
  BY <1>7, <1>job DEF Job
<1>11. /\ sums'[c].newA = Plus(SourceA(c, p), p, n) /\ sums'[c].stock = left(n)
       /\ sums'[c].oldA = sums[c].oldA
  BY <1>7, <1>5 DEF Figures
<1>12. Remembers(c)'
  BY <1>1, <1>5, <1>6, <1>9, <1>10, <1>11 DEF Remembers
<1>13. \A s \in Singles : sums[c].oldA[s] <= SourceA(c, p)[s]
  BY <1>6 DEF SourceA, Counts
<1>14. ASSUME NEW s \in Singles
       PROVE  (/\ Granted(c, s) <= stock[s] - sums[c].stock[s]
               /\ Granted(c, s) <= Minus(stock[s], sums[c].oldA[s]))'
  <2>1. PICK before \in Nat : before = ApprovedOf(call[c].copies, rows, s)
    BY ApprovedIsGranted DEF IInv, GoodRows
  <2>2. PICK more \in Nat : more = n * Parts[p][s]
    BY <1>8
  <2>3. Granted(c, s) = before /\ Granted(c, s)' = before + more
    BY <1>1, <1>2, <1>10, <1>at, <2>1, <2>2 DEF Granted, Pending, Pieces
  <2>4. before <= stock[s] - sums[c].stock[s] /\ before <= Minus(stock[s], sums[c].oldA[s])
    BY <2>3 DEF ConfirmAt
  <2>5. more = 0 \/ SourceA(c, p)[s] + more <= sums[c].stock[s]
    BY <1>3, <1>4, <1>5, <1>6, <2>2, ProductsTyped, CoveredPromise
  <2>6. /\ stock[s] \in Int /\ sums[c].stock[s] \in Int /\ sums[c].oldA[s] \in Nat
        /\ SourceA(c, p)[s] \in Nat /\ stock'[s] = stock[s] /\ sums'[c].oldA[s] = sums[c].oldA[s]
        /\ sums'[c].stock[s] = sums[c].stock[s] - more
    BY <1>5, <1>6, <1>9, <1>11, <2>2, ProductsTyped DEF Counts
  <2>7. before + more <= stock[s] - (sums[c].stock[s] - more)
    BY <2>4, <2>6
  <2>8. before + more <= Minus(stock[s], sums[c].oldA[s])
    BY <1>13, <2>4, <2>5, <2>6 DEF Minus
  <2> QED BY <2>3, <2>6, <2>7, <2>8
<1>15. ASSUME at = "counters" PROVE \A s \in Singles : sums'[c].oldA[s] <= sums'[c].newA[s]
  <2>1. \A s \in Singles : sums'[c].newA[s] = SourceA(c, p)[s] + n * Parts[p][s]
    BY <1>11 DEF Plus
  <2>2. \A s \in Singles : SourceA(c, p)[s] \in Nat /\ sums[c].oldA[s] \in Nat
    BY <1>5, <1>6 DEF Counts
  <2> QED BY <1>8, <1>11, <1>13, <2>1, <2>2
<1> QED BY <1>10, <1>12, <1>14, <1>15 DEF ConfirmAt

\* A step that leaves rows, stock and what is approved as they are, or raises this, and goes on with
\* the same row.
LEMMA ConfirmKept ==
  ASSUME IInv, CountInv, NEW c \in Callers, ConfirmAt(c), call[c].kind = "confirm",
         UNCHANGED <<rows, stock>>,
         call'[c].kind = "confirm", call'[c].copies = call[c].copies, call'[c].row = call[c].row,
         call'[c].n = call[c].n, call[c].at # "next", call'[c].at # "next",
         sums'[c].stock = sums[c].stock, sums'[c].oldA = sums[c].oldA,
         \A s \in Singles : sums[c].oldA[s] <= approved'[s],
         call'[c].at = "counters" => \A s \in Singles : sums'[c].oldA[s] <= sums'[c].newA[s]
  PROVE  ConfirmAt(c)'
<1>1. Remembers(c)'
  BY DEF ConfirmAt, Remembers
<1>2. \A s \in Singles : Granted(c, s)' = Granted(c, s)
  BY DEF Granted, Pending, Pieces
<1> QED BY <1>1, <1>2 DEF ConfirmAt

LEMMA ConfirmReloads ==
  ASSUME IInv, CountInv, NEW c \in Callers, Reload(c), ConfirmAt(c), call[c].kind = "confirm"
  PROVE  ConfirmAt(c)'
<1>job. call[c] \in Job /\ Plan(call[c]) /\ call[c].at = "reload"
  BY DEF IInv, GoodJob, Reload, At
<1>1. PICK p, n : p = call[c].copies[call[c].row].product /\ n = call[c].n
  OBVIOUS
<1>2. p \in Products /\ n \in Nat
  <2>1. MaxRow \in Nat /\ call[c].row \in 0..MaxRow /\ call[c].row # 0
        /\ call[c].copies \in Table /\ call[c].copies[call[c].row] # NoRow
    BY <1>job, LinesAssumption DEF Job, Plan
  <2>2. call[c].row \in RowIds
    BY <2>1
  <2>3. call[c].copies[call[c].row] \in Row
    BY <2>1, <2>2 DEF Table
  <2> QED BY <1>1, <1>job, <2>3 DEF Job, Row
<1>3. /\ Become(c, [call[c] EXCEPT !.at = "counters"], [sums[c] EXCEPT !.newA = Plus(approved, p, n)])
      /\ UNCHANGED <<rows, stock, approved>> /\ sums[c] \in Figures /\ Remembers(c)
      /\ approved \in Counts
  BY <1>1, <1>job DEF Reload, lines, counters, goods, CountInv, ConfirmAt
<1>4. /\ call'[c] = [call[c] EXCEPT !.at = "counters"]
      /\ sums'[c] = [sums[c] EXCEPT !.newA = Plus(approved, p, n)]
  BY <1>3 DEF Become, IInv, CountInv
<1>5. /\ call'[c].kind = "confirm" /\ call'[c].at = "counters" /\ call'[c].copies = call[c].copies
      /\ call'[c].row = call[c].row /\ call'[c].n = call[c].n
  BY <1>4, <1>job DEF Job
<1>6. /\ sums'[c].newA = Plus(approved, p, n) /\ sums'[c].stock = sums[c].stock
      /\ sums'[c].oldA = sums[c].oldA /\ sums[c].oldA \in Counts
  BY <1>3, <1>4 DEF Figures
<1>7. \A s \in Singles : /\ n * Parts[p][s] \in Nat /\ approved[s] \in Nat
                         /\ sums[c].oldA[s] \in Nat
                         /\ sums'[c].newA[s] = approved[s] + n * Parts[p][s]
                         /\ sums[c].oldA[s] <= approved[s]
  BY <1>2, <1>3, <1>6, TimesNat, PiecesTyped DEF Plus, Counts, Remembers
<1>8. \A s \in Singles : sums'[c].oldA[s] <= sums'[c].newA[s] /\ sums[c].oldA[s] <= approved'[s]
  BY <1>3, <1>6, <1>7
<1> QED BY <1>3, <1>5, <1>6, <1>8, <1>job, ConfirmKept

\* No counter is saved with less than was approved before.
LEMMA ConfirmCounts ==
  ASSUME IInv, CountInv, NEW c \in Callers, SaveCounter(c), ConfirmAt(c), call[c].kind = "confirm"
  PROVE  ConfirmAt(c)'
<1>job. call[c] \in Job /\ call[c].at = "counters"
  BY DEF IInv, SaveCounter, At
<1>1. PICK s \in call[c].parts :
        /\ approved' = [approved EXCEPT ![s] = sums[c].newA[s]]
        /\ Become(c, [call[c] EXCEPT !.parts = @ \ {s},
                        !.at = IF call[c].parts = {s} THEN AtRow(c) ELSE @], sums[c])
  BY DEF SaveCounter
<1>2. /\ UNCHANGED <<rows, stock>> /\ sums[c] \in Figures /\ Remembers(c) /\ s \in Singles
      /\ approved \in Counts /\ \A q \in Singles : sums[c].oldA[q] <= sums[c].newA[q]
  BY <1>job, <1>1 DEF SaveCounter, goods, lines, CountInv, ConfirmAt, Job
<1>3. /\ call'[c].kind = "confirm" /\ call'[c].copies = call[c].copies
      /\ call'[c].row = call[c].row /\ call'[c].n = call[c].n
      /\ call'[c].at # "next" /\ sums'[c] = sums[c]
  BY <1>1, <1>job DEF Become, IInv, CountInv, Job, AtRow
<1>4. \A q \in Singles : approved'[q] = IF q = s THEN sums[c].newA[q] ELSE approved[q]
  BY <1>1, <1>2 DEF Counts
<1>5. \A q \in Singles : sums[c].oldA[q] <= approved'[q]
  BY <1>2, <1>4 DEF Remembers
<1> QED BY <1>2, <1>3, <1>5, <1>job, ConfirmKept

\* The row that is saved has the pieces that were pending.
LEMMA ConfirmSaves ==
  ASSUME IInv, CountInv, NEW c \in Callers, SaveRow(c), ConfirmAt(c), call[c].kind = "confirm"
  PROVE  /\ ConfirmAt(c)'
         /\ \A s \in Singles :
              ApprovedOf(call[c].copies, rows', s) <= Minus(stock[s], sums[c].oldA[s])
<1>job. call[c] \in Job /\ Plan(call[c]) /\ call[c].at = "row" /\ rows \in Table
  BY DEF IInv, GoodJob, GoodRows, SaveRow, At
<1>1. PICK r, n : r = call[c].row /\ n = call[c].n
  OBVIOUS
<1>2. r \in RowIds /\ n \in Nat /\ call[c].copies[r] \in Row
  <2>1. MaxRow \in Nat /\ r \in 0..MaxRow /\ r # 0
        /\ call[c].copies \in Table /\ call[c].copies[r] # NoRow
    BY <1>1, <1>job, LinesAssumption DEF Job, Plan
  <2>2. r \in RowIds
    BY <2>1
  <2> QED BY <1>1, <1>job, <2>1, <2>2 DEF Job, Table
<1>3. PICK new : new = Saved(c)
  OBVIOUS
<1>4. /\ rows[r] = NoRow => new = NoRow
      /\ rows[r] # NoRow => new = [rows[r] EXCEPT !.status = "CONFIRMED", !.ends = "never",
                                                  !.booked = n]
  BY <1>1, <1>3 DEF Saved
<1>5. /\ rows[r] # NoRow => /\ new \in Row /\ new.booked = n
                            /\ new.product = call[c].copies[r].product
      /\ new \in Row \cup {NoRow}
  BY <1>2, <1>4, <1>job DEF Table, Row, ConfirmAt, Remembers
<1>6. /\ rows' = [rows EXCEPT ![r] = new] /\ UNCHANGED <<approved, stock>>
      /\ Skip(c, r)
  BY <1>1, <1>3 DEF SaveRow, counters, goods
<1>7. rows' \in Table /\ (\A q \in RowIds \ {r} : rows'[q] = rows[q]) /\ rows'[r] = new
  BY <1>2, <1>5, <1>6, <1>job DEF Table
<1>8. ASSUME NEW s \in Singles
      PROVE  ApprovedOf(call[c].copies, rows', s) <= Granted(c, s) /\ Granted(c, s) \in Nat
             /\ ApprovedOf(call[c].copies, rows', s) \in Nat
  <2>1. PICK before \in Nat, after \in Nat :
          /\ before = ApprovedOf(call[c].copies, rows, s)
          /\ after = ApprovedOf(call[c].copies, rows', s)
    BY <1>7, <1>job, ApprovedIsGranted
  <2>2. PICK more \in Nat : more = Pieces(call[c], s)
    <3>1. Parts[call[c].copies[r].product][s] \in Nat
      BY <1>2, PiecesTyped DEF Row
    <3> QED BY <1>1, <1>2, <3>1, TimesNat DEF Pieces
  <2>3. PICK old \in Nat, gained \in Nat :
          /\ old = Grant(call[c].copies, rows, s, r)
          /\ gained = Grant(call[c].copies, rows', s, r)
    BY <1>2, <1>7, <1>job, GrantTyped
  <2>4. gained <= more
    <3>1. gained = 0 \/ gained = more
      BY <1>1, <1>4, <1>5, <1>7, <2>2, <2>3 DEF Grant, Pieces
    <3> QED BY <3>1
  <2>5. after = before + (gained - old)
    BY <1>2, <1>7, <1>job, <2>1, <2>3, GrantChanged
  <2>6. Granted(c, s) = before + more
    BY <1>job, <2>1, <2>2 DEF Granted, Pending
  <2> QED BY <2>1, <2>4, <2>5, <2>6
<1>9. ASSUME NEW s \in Singles
      PROVE  /\ ApprovedOf(call[c].copies, rows', s) <= stock[s] - sums[c].stock[s]
             /\ ApprovedOf(call[c].copies, rows', s) <= Minus(stock[s], sums[c].oldA[s])
  <2>1. /\ Granted(c, s) <= stock[s] - sums[c].stock[s]
        /\ Granted(c, s) <= Minus(stock[s], sums[c].oldA[s])
    BY DEF ConfirmAt
  <2>2. stock[s] \in Int /\ sums[c].stock[s] \in Int /\ sums[c].oldA[s] \in Nat
    BY ProductsTyped DEF ConfirmAt, Remembers, CountInv, Figures, Counts
  <2>3. stock[s] - sums[c].stock[s] \in Int /\ Minus(stock[s], sums[c].oldA[s]) \in Int
    BY <2>2 DEF Minus
  <2> QED BY <1>8, <2>1, <2>3
<1>10. ConfirmAt(c)'
  <2>1. CASE End(c)
    <3>1. call'[c] = Idle
      BY <2>1 DEF End, Become, IInv
    <3> QED BY <3>1 DEF ConfirmAt, Idle
  <2>2. PICK rest : rest = call[c].todo \ {r}
    OBVIOUS
  <2>3. CASE Become(c, [call[c] EXCEPT !.at = "next", !.todo = rest], sums[c])
    <3>1. call'[c].at = "next" /\ sums'[c] = sums[c] /\ call'[c].copies = call[c].copies
      BY <1>job, <2>3 DEF Become, IInv, CountInv, Job
    <3>2. \A q \in RowIds : call[c].copies[q] # NoRow /\ rows'[q] # NoRow =>
                              rows'[q].product = call[c].copies[q].product
      BY <1>2, <1>4, <1>5, <1>7 DEF ConfirmAt, Remembers
    <3>3. Remembers(c)'
      BY <1>6, <3>1, <3>2 DEF ConfirmAt, Remembers
    <3>4. \A s \in Singles : Granted(c, s)' = ApprovedOf(call[c].copies, rows', s)
      <4> SUFFICES ASSUME NEW s \in Singles
                   PROVE  Granted(c, s)' = ApprovedOf(call[c].copies, rows', s)
        OBVIOUS
      <4>1. Granted(c, s)' = ApprovedOf(call[c].copies, rows', s) + 0
        BY <3>1 DEF Granted, Pending
      <4> QED BY <1>8, <4>1
    <3> QED BY <1>6, <1>9, <3>1, <3>3, <3>4 DEF ConfirmAt
  <2> QED BY <1>6, <2>1, <2>2, <2>3 DEF Skip
<1> QED BY <1>9, <1>10

LEMMA GrantedSoFar ==
  ASSUME IInv, CountInv, NEW c \in Callers, ConfirmAt(c), call[c].kind = "confirm", NEW s \in Singles
  PROVE  ApprovedOf(call[c].copies, rows, s) <= Minus(stock[s], sums[c].oldA[s])
<1>1. PICK before \in Nat : before = ApprovedOf(call[c].copies, rows, s)
  BY ApprovedIsGranted DEF IInv, GoodRows
<1>2. PICK more \in Nat : more = Pending(call[c], s)
  <2>1. CASE call[c].at = "next"
    BY <2>1 DEF Pending
  <2>2. CASE call[c].at # "next"
    <3>1. call[c].at \in {"reload", "counters", "row"} /\ Plan(call[c]) /\ call[c] \in Job
      BY <2>2 DEF CountInv, Bears, IInv, GoodJob
    <3>2. MaxRow \in Nat /\ call[c].row \in 0..MaxRow /\ call[c].row # 0
          /\ call[c].copies \in Table /\ call[c].copies[call[c].row] # NoRow
      BY <3>1, LinesAssumption DEF Job, Plan
    <3>3. call[c].row \in RowIds
      BY <3>2
    <3>4. call[c].copies[call[c].row] \in Row
      BY <3>2, <3>3 DEF Table
    <3>5. Parts[call[c].copies[call[c].row].product][s] \in Nat /\ call[c].n \in Nat
      BY <3>1, <3>4, PiecesTyped DEF Row, Job
    <3> QED BY <2>2, <3>5, TimesNat DEF Pending, Pieces
  <2> QED BY <2>1, <2>2
<1>3. before + more <= Minus(stock[s], sums[c].oldA[s])
  BY <1>1, <1>2 DEF ConfirmAt, Granted
<1>4. Minus(stock[s], sums[c].oldA[s]) \in Int
  BY ProductsTyped DEF CountInv, Figures, Counts, Minus
<1> QED BY <1>1, <1>3, <1>4

LEMMA ConfirmGoes ==
  ASSUME IInv, CountInv, NEW c \in Callers, Step(c), ConfirmAt(c)
  PROVE  /\ ConfirmAt(c)'
         /\ call[c].kind = "confirm" =>
              \A s \in Singles :
                ApprovedOf(call[c].copies, rows', s) <= Minus(stock[s], sums[c].oldA[s])
<1>1. PICK job, figures : Become(c, job, figures) /\ (job.kind = call[c].kind \/ job = Idle)
  BY StepOnward DEF Onward
<1>2. call'[c] = job /\ Idle.kind = "none"
  BY <1>1 DEF Become, IInv, Idle
<1>3. CASE call[c].kind # "confirm"
  BY <1>1, <1>2, <1>3 DEF ConfirmAt
<1>4. CASE call[c].kind = "confirm"
  <2>1. call[c].at \in {"next", "reload", "counters", "row"}
    BY <1>4 DEF CountInv, Bears
  <2>2. Treat(c) \/ Reload(c) \/ SaveCounter(c) \/ SaveRow(c)
    BY <2>1 DEF Step, DeleteRows, InsertRows, SaveOrder, LoadProduct, TakeStock, Unbook, Unapprove,
           ReturnStock, ClearLines, SavePaper, RemovePaper, SaveIssue, LoadProducts, ApproveAll, At
  <2>3. CASE SaveRow(c)
    BY <1>4, <2>3, ConfirmSaves
  <2>4. CASE ~SaveRow(c)
    <3>1. rows' = rows
      BY <2>2, <2>4 DEF Treat, Reload, SaveCounter, lines
    <3>2. ConfirmAt(c)'
      BY <1>4, <2>2, <2>4, ConfirmTreats, ConfirmReloads, ConfirmCounts
    <3> QED BY <1>4, <3>1, <3>2, GrantedSoFar
  <2> QED BY <2>3, <2>4
<1> QED BY <1>3, <1>4

LEMMA AloneNext == IInv /\ CountInv /\ AloneInv /\ [Next]_vars => AloneInv'
<1> SUFFICES ASSUME IInv, CountInv, AloneInv, [Next]_vars PROVE AloneInv'
  OBVIOUS
<1>1. ASSUME NEW c \in Callers, Step(c) PROVE AloneInv'
  <2>1. c \in alone => SyncAt(c) /\ ConfirmAt(c)
    BY <1>1, StepIsBusy DEF AloneInv
  <2>2. c \in alone => SyncAt(c)' /\ ConfirmAt(c)'
    BY <1>1, <2>1, SyncGoes, ConfirmGoes
  <2> QED BY <1>1, <2>2, AloneStep
<1>2. ASSUME NEW c \in Callers, Request(c) PROVE AloneInv'
  <2>1. PICK job, figures : Starts(c, job, figures)
    BY <1>2, RequestStarts DEF Started
  <2>2. Begin(c, job, figures)
    BY <2>1 DEF Starts, UserBegins
  <2> QED BY <2>1, <2>2, AloneBegins DEF Starts
<1>3. CASE Expire
  <2>1. PICK base \in Job : base = Loading("expire", "next", Overdue) /\ base.kind = "expire"
    BY LoadingAt DEF Tasks, AllKinds, Places
  <2>2. PICK job : job = [base EXCEPT !.todo = Overdue]
    OBVIOUS
  <2>3. job.kind = "expire"
    BY <2>1, <2>2 DEF Job
  <2>4. Begin(Cron, job, Seen)
    BY <1>3, <2>1, <2>2 DEF Expire
  <2> QED BY <2>3, <2>4, AloneBegins, CronAssumption
<1>4. ASSUME NEW r \in RowIds, TimePasses(r) PROVE AloneInv'
  BY <1>4, AloneAges
<1>5. CASE UNCHANGED vars
  <2>1. UNCHANGED <<rows, booking, approved, stock, call, sums, alone>>
    BY <1>5 DEF vars
  <2>2. \A c \in alone : Lonely(c) => Lonely(c)'
    BY <2>1 DEF Lonely
  <2>3. \A c \in alone : SyncAt(c) => SyncAt(c)'
    BY <2>1, SumOfKept DEF SyncAt, Summed, Unsaved
  <2>4. \A c \in alone : ConfirmAt(c) => ConfirmAt(c)'
    BY <2>1 DEF ConfirmAt, Remembers, Granted, Pending, Pieces
  <2> QED BY <2>1, <2>2, <2>3, <2>4 DEF AloneInv
<1> QED BY <1>1, <1>2, <1>3, <1>4, <1>5 DEF Next

LEMMA AloneHolds == Spec => [](IInv /\ CountInv /\ AloneInv)
<1>1. Init => AloneInv
  BY DEF Init, AloneInv
<1>2. IInv /\ CountInv /\ AloneInv /\ [Next]_vars => AloneInv'
  BY AloneNext
<1> QED BY <1>1, <1>2, CountHolds, PTL DEF Spec

\* While a request is alone, only it and the clock change anything.
LEMMA OnlyStep ==
  ASSUME IInv, CountInv, AloneInv, [Next]_vars, NEW c \in alone, call[c] # Idle
  PROVE  /\ c \in Callers /\ SyncAt(c) /\ ConfirmAt(c)
         /\ \/ Step(c)
            \/ call'[c] = call[c] /\ (rows' = rows \/ \E r \in RowIds : TimePasses(r))
<1>1. /\ Lonely(c) /\ SyncAt(c) /\ ConfirmAt(c) /\ c \in Callers
  BY DEF AloneInv, CountInv
<1>2. ASSUME NEW d \in Callers, Step(d) PROVE Step(c)
  BY <1>1, <1>2, StepIsBusy DEF Lonely
<1>3. ASSUME NEW d \in Callers, NEW job, NEW figures, Begin(d, job, figures)
      PROVE  call'[c] = call[c] /\ rows' = rows
  BY <1>1, <1>3 DEF Begin, IInv, lines
<1>4. ASSUME NEW d \in Callers, Request(d) PROVE call'[c] = call[c] /\ rows' = rows
  <2>1. PICK job, figures : Begin(d, job, figures)
    BY <1>4, RequestStarts DEF Started, Starts, UserBegins
  <2> QED BY <2>1, <1>3
<1>5. ASSUME Expire PROVE call'[c] = call[c] /\ rows' = rows
  BY <1>3, <1>5, CronAssumption DEF Expire
<1>6. ASSUME NEW r \in RowIds, TimePasses(r) PROVE call'[c] = call[c]
  BY <1>6 DEF TimePasses
<1>7. ASSUME UNCHANGED vars PROVE call'[c] = call[c] /\ rows' = rows
  BY <1>7 DEF vars
<1> QED BY <1>1, <1>2, <1>4, <1>5, <1>6, <1>7 DEF Next

\* While no other request is in progress, the rows one approval has approved never have more pieces
\* of a product together than were in stock and not approved before, whatever products and
\* components the rows of the plan share (confirmBookings: the stock it remembers is lowered by
\* what each row before took).
THEOREM PromisesAreInStock == Spec => ApprovalWithinStock
<1>1. ASSUME IInv, CountInv, AloneInv, [Next]_vars, NEW c \in alone, NEW s \in Singles,
             call[c].kind = "confirm"
      PROVE  ApprovedOf(call[c].copies, rows', s) <= Minus(stock[s], sums[c].oldA[s])
  <2>1. call[c] # Idle
    BY <1>1 DEF Idle
  <2>2. /\ c \in Callers /\ ConfirmAt(c)
        /\ Step(c) \/ rows' = rows \/ \E r \in RowIds : TimePasses(r)
    BY <1>1, <2>1, OnlyStep
  <2>3. CASE Step(c)
    BY <1>1, <2>2, <2>3, ConfirmGoes
  <2>4. CASE rows' = rows \/ \E r \in RowIds : TimePasses(r)
    <3>1. ApprovedOf(call[c].copies, rows', s) = ApprovedOf(call[c].copies, rows, s)
      BY <1>1, <2>4, GrantAges
    <3> QED BY <1>1, <2>2, <3>1, GrantedSoFar
  <2> QED BY <2>2, <2>3, <2>4
<1>2. IInv /\ CountInv /\ AloneInv /\ [Next]_vars =>
        [\A c \in alone, s \in Singles :
           call[c].kind = "confirm" =>
             ApprovedOf(call[c].copies, rows', s) <= Minus(stock[s], sums[c].oldA[s])]_vars
  BY <1>1
<1> QED BY <1>2, AloneHolds, PTL DEF Spec, ApprovalWithinStock

\* What the rows of a status hold is what getBookingStats counts.
LEMMA HeldIsCounted ==
  ASSUME GoodRows, NEW st, NEW s \in Singles PROVE Held(st, s) = SumOf(st, s)
<1> DEFINE f == [r \in RowIds |-> Share(st, s, r)]
           H == {r \in RowIds : HasStatus(r, st)}
           h == [r \in H |-> rows[r].booked * Parts[rows[r].product][s]]
<1>1. \A r \in RowIds : f[r] \in Nat
  BY ShareTyped
<1>2. \A r \in RowIds \ H : f[r] = 0
  BY DEF Share
<1>3. \A r \in H : r \in RowIds /\ f[r] = h[r]
  BY DEF Share, HasStatus, Booked
<1>4. H \in SUBSET RowIds /\ IsFiniteSet(H)
  BY RowIdsFinite, FS_Subset
<1> HIDE DEF f, h, H
<1>5. \A r \in RowIds : f[r] \in Int
  BY <1>1
<1>6. Sum(f, RowIds) = Sum(f, H)
  BY <1>2, <1>4, <1>5, RowIdsFinite, SumWithin
<1>7. Sum(f, H) = Sum(h, H)
  BY <1>3, <1>4, <1>5, SumSame
<1> QED BY <1>6, <1>7 DEF Held, SumOf, Share, f, h, H

\* A synchronisation that ran alone leaves the counters equal to the bookings of all rows, combos
\* counted by their components, unless it still had bookings of orders in production to approve
\* (syncBookingStock with getBookingStats: one saves per product what the other counted per row).
THEOREM SyncRepairs == Spec => SyncRestores
<1>1. ASSUME IInv, CountInv, AloneInv, [Next]_vars, NEW c \in alone,
             Doing(c, "sync", "bulk"), call'[c] = Idle,
             \A r \in RowIds : HasStatus(r, "TEMPORARY") => rows[r].order \notin issued,
             NEW s \in Singles
      PROVE  booking'[s] = Held("TEMPORARY", s)' /\ approved'[s] = Held("CONFIRMED", s)'
  <2>1. call[c].at = "bulk" /\ call[c].kind = "sync" /\ call[c] # Idle
    BY <1>1 DEF Doing, At, Idle
  <2>2. c \in Callers /\ SyncAt(c) /\ Step(c)
    BY <1>1, <2>1, OnlyStep
  <2>3. ApproveAll(c)
    BY <2>1, <2>2 DEF Step, Treat, Reload, SaveCounter, SaveRow, DeleteRows, InsertRows, SaveOrder,
           LoadProduct, TakeStock, Unbook, Unapprove, ReturnStock, ClearLines, SavePaper,
           RemovePaper, SaveIssue, LoadProducts, At
  <2>4. rows' = rows
    <3>1. rows' = [r \in RowIds |-> rows[r]]
      BY <1>1, <2>1, <2>3 DEF ApproveAll
    <3>2. rows = [r \in RowIds |-> rows[r]]
      BY <1>1 DEF IInv, GoodRows, Table
    <3> QED BY <3>1, <3>2
  <2>5. UNCHANGED <<booking, approved>>
    BY <2>3 DEF ApproveAll, counters
  <2>6. booking[s] = SumOf("TEMPORARY", s) /\ approved[s] = SumOf("CONFIRMED", s)
    BY <2>1, <2>2 DEF SyncAt, Summed, Unsaved
  <2>7. Held("TEMPORARY", s) = SumOf("TEMPORARY", s) /\ Held("CONFIRMED", s) = SumOf("CONFIRMED", s)
    BY <1>1, HeldIsCounted DEF IInv
  <2>8. Held("TEMPORARY", s)' = Held("TEMPORARY", s) /\ Held("CONFIRMED", s)' = Held("CONFIRMED", s)
    BY <2>4 DEF Held, HasStatus
  <2> QED BY <2>5, <2>6, <2>7, <2>8
<1>2. IInv /\ CountInv /\ AloneInv /\ [Next]_vars =>
        [\A c \in alone :
           /\ Doing(c, "sync", "bulk") /\ call'[c] = Idle
           /\ \A r \in RowIds : HasStatus(r, "TEMPORARY") => rows[r].order \notin issued
           => \A s \in Singles : /\ booking'[s] = Held("TEMPORARY", s)'
                                 /\ approved'[s] = Held("CONFIRMED", s)']_vars
  BY <1>1
<1> QED BY <1>2, AloneHolds, PTL DEF Spec, SyncRestores


=============================================================================
