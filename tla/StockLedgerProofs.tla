------------------------ MODULE StockLedgerProofs ------------------------
(***************************************************************************)
(* Proofs about StockLedger for any documents and any number of requests   *)
(* that overlap and fail anywhere.                                         *)
(***************************************************************************)
EXTENDS StockLedger, SumsProofs, TLAPS

-----------------------------------------------------------------------------
(* What is done has made all its moves *)

\* The part of the types the argument needs: a call is a record of these fields.
IsCall(r) ==
  /\ r = [kind |-> r.kind, doc |-> r.doc, at |-> r.at, todo |-> r.todo, seen |-> r.seen]
  /\ r.todo \in Seq(AllMoves)

Shape ==
  /\ DOMAIN call = Callers
  /\ \A c \in Callers : IsCall(call[c])
  /\ moved \in [Docs -> Nat]
  /\ DOMAIN status = Docs

Before == {"header", "load", "save", "saveTwin"}
Between == {"sum", "total", "log"}
AfterMoves == {"debt", "saveDebt", "loadPo", "saveFee", "finish"}

\* The moves a call still has to make, and those that were saved for its document, are
\* enough for the document; the move in hand counts once, saved or not.
EnoughAt(at, kind, doc, todo, n) ==
  /\ at \in Before =>
       todo # <<>> /\ (doc \in Docs => n + Len(todo) >= Len(Moves(doc)))
  /\ at \in Between =>
       todo # <<>> /\ (doc \in Docs => n + Len(todo) - 1 >= Len(Moves(doc)))
  /\ at \in AfterMoves => doc \in Docs /\ n >= Len(Moves(doc))
  /\ at = "deliver" => doc \in Issues
  /\ at = "edit" => doc \in Docs \ Receipts
  /\ at \in {"return", "saveReturn"} => todo # <<>>
  /\ kind = "confirm" => doc \in Docs
Enough(r, n) == EnoughAt(r.at, r.kind, r.doc, r.todo, n)

Saved(f, d) == IF d \in Docs THEN f[d] ELSE 0
CallsEnough == \A c \in Callers : Enough(call[c], Saved(moved, call[c].doc))

MovedInv == Shape /\ CallsEnough /\ DoneWasMoved

LEMMA LengthOfMoves == \A d \in Docs : Len(Moves(d)) \in Nat /\ Moves(d) # <<>>
BY MovesAssumption

LEMMA IdleIsCall == IsCall(Idle) /\ Idle.at = "idle" /\ Idle.kind = "none"
<1>1. <<>> \in Seq(AllMoves)
  OBVIOUS
<1> QED
  BY <1>1 DEF Idle, IsCall

LEMMA MovedInit == Init => MovedInv
<1> SUFFICES ASSUME Init PROVE MovedInv
  OBVIOUS
<1>1. \A c \in Callers : IsCall(call[c]) /\ call[c].at = "idle" /\ call[c].kind = "none"
  BY IdleIsCall DEF Init
<1>2. Shape
  BY <1>1 DEF Init, Shape
<1>3. CallsEnough
  BY <1>1 DEF CallsEnough, Enough, EnoughAt, Before, Between, AfterMoves
<1>4. DoneWasMoved
  BY DEF Init, DoneWasMoved, Done, Docs
<1> QED
  BY <1>2, <1>3, <1>4 DEF MovedInv

\* More saved moves are still enough.
LEMMA EnoughStays ==
  ASSUME NEW r, IsCall(r), NEW n \in Nat, NEW k \in Nat, k >= n, Enough(r, n)
  PROVE  Enough(r, k)
<1>1. Len(r.todo) \in Nat
  BY DEF IsCall
<1>2. r.doc \in Docs => Len(Moves(r.doc)) \in Nat
  BY LengthOfMoves
<1>3. CASE r.doc \in Docs
  BY <1>1, <1>2, <1>3 DEF Enough, EnoughAt
<1>4. CASE r.doc \notin Docs
  BY <1>4 DEF Enough, EnoughAt
<1> QED
  BY <1>3, <1>4

\* One call goes on to the record r, moves are only added and no document becomes done.
LEMMA CallGoesOn ==
  ASSUME MovedInv, NEW c \in Callers, NEW r,
         call' = [call EXCEPT ![c] = r], IsCall(r),
         moved' \in [Docs -> Nat], \A d \in Docs : moved'[d] >= moved[d],
         DOMAIN status' = Docs,
         \A d \in Receipts : Done(d)' => Done(d),
         Enough(r, Saved(moved', r.doc))
  PROVE  MovedInv'
<1>1. \A b \in Callers : call'[b] = IF b = c THEN r ELSE call[b]
  BY DEF MovedInv, Shape
<1>2. \A b \in Callers : IsCall(call[b]) /\ Enough(call[b], Saved(moved, call[b].doc))
  BY DEF MovedInv, Shape, CallsEnough
<1>3. \A b \in Callers : IsCall(call'[b])
  BY <1>1, <1>2
<1>4. Shape'
  BY <1>3 DEF MovedInv, Shape
<1>5. \A b \in Callers : Enough(call'[b], Saved(moved', call'[b].doc))
  <2> TAKE b \in Callers
  <2>1. CASE b = c
    BY <2>1, <1>1
  <2>2. CASE b # c
    <3>1. Saved(moved, call[b].doc) \in Nat /\ Saved(moved', call[b].doc) \in Nat
          /\ Saved(moved', call[b].doc) >= Saved(moved, call[b].doc)
      BY DEF Saved, MovedInv, Shape
    <3>2. Enough(call[b], Saved(moved', call[b].doc))
      BY <3>1, <1>2, EnoughStays
    <3> QED
      BY <3>2, <2>2, <1>1
  <2> QED
    BY <2>1, <2>2
<1>6. DoneWasMoved'
  <2> SUFFICES ASSUME NEW d \in Receipts, Done(d)'
               PROVE  moved'[d] >= Len(Moves(d))
    BY DEF DoneWasMoved
  <2>1. d \in Docs /\ Done(d)
    BY DEF Docs
  <2>2. moved[d] >= Len(Moves(d)) /\ moved[d] \in Nat /\ moved'[d] \in Nat
    BY <2>1 DEF DoneWasMoved, MovedInv, Shape
  <2> QED
    BY <2>1, <2>2, LengthOfMoves
<1> QED
  BY <1>4, <1>5, <1>6 DEF MovedInv, CallsEnough
-----------------------------------------------------------------------------
(* A request starts *)

LEMMA RequestBegins ==
  ASSUME MovedInv, NEW c \in Callers, NEW kind, NEW d, NEW at, NEW todo, NEW seen,
         Begin(c, kind, d, at, todo, seen), todo \in Seq(AllMoves),
         Enough([kind |-> kind, doc |-> d, at |-> at, todo |-> todo, seen |-> seen],
                Saved(moved, d))
  PROVE  MovedInv'
<1> DEFINE r == [kind |-> kind, doc |-> d, at |-> at, todo |-> todo, seen |-> seen]
<1>1. call' = [call EXCEPT ![c] = r]
  BY DEF Begin
<1>2. moved' = moved /\ status' = status
  BY DEF Begin, books, papers
<1>3. IsCall(r)
  BY DEF IsCall
<1>4. moved' \in [Docs -> Nat] /\ \A x \in Docs : moved'[x] >= moved[x]
  BY <1>2 DEF MovedInv, Shape
<1>5. DOMAIN status' = Docs /\ \A x \in Receipts : Done(x)' => Done(x)
  BY <1>2 DEF MovedInv, Shape, Done
<1>6. r.doc = d
  OBVIOUS
<1>7. Enough(r, Saved(moved', r.doc))
  BY <1>2, <1>6
<1> HIDE DEF r
<1> QED
  BY <1>1, <1>3, <1>4, <1>5, <1>7, CallGoesOn

LEMMA MoveTyped ==
  ASSUME NEW i \in Items, NEW p \in Places, NEW n \in Int PROVE Move(i, p, n) \in AllMoves
BY DEF Move, AllMoves

LEMMA SeqElement == ASSUME NEW S, NEW s \in Seq(S), NEW n \in 1..Len(s) PROVE s[n] \in S
OBVIOUS

LEMMA LineFields ==
  ASSUME NEW line \in [item : Items, qty : Nat, po : PoItems \cup {NoRow}]
  PROVE  line.item \in Items /\ line.qty \in Int
<1>1. line.item \in Items
  OBVIOUS
<1>2. line.qty \in Nat
  OBVIOUS
<1> QED
  BY <1>1, <1>2

LEMMA RequestStep == ASSUME MovedInv, NEW c \in Callers, Request(c) PROVE MovedInv'
<1> USE DEF Warehouses, Places
<1>none. NoDoc \notin Docs
  BY DocsAssumption DEF NoDoc
<1>empty. <<>> \in Seq(AllMoves)
  OBVIOUS
<1>qty. MaxQty \in Nat /\ -MaxQty \in Int
  BY BoundsAssumption
<1>1. CASE Adjust(c)
  <2>1. PICK i \in Items, p \in Warehouses, n \in (-MaxQty..MaxQty) \ {0} :
          Begin(c, "adjust", NoDoc, "load", <<Move(i, p, n)>>, NoRow)
    BY <1>1 DEF Adjust
  <2>2. <<Move(i, p, n)>> \in Seq(AllMoves) \ {<<>>}
    BY MoveTyped, <1>qty
  <2> QED
    BY <2>1, <2>2, <1>none, RequestBegins DEF Enough, EnoughAt, Before, Between, AfterMoves
<1>2. CASE Transfer(c)
  <2>1. PICK i \in Items, from \in Warehouses, to \in Warehouses, n \in 1..MaxQty :
          Begin(c, "transfer", NoDoc, "load", <<Move(i, from, -n), Move(i, to, n)>>, NoRow)
    BY <1>2 DEF Transfer
  <2>2. <<Move(i, from, -n), Move(i, to, n)>> \in Seq(AllMoves) \ {<<>>}
    BY MoveTyped, <1>qty
  <2> QED
    BY <2>1, <2>2, <1>none, RequestBegins DEF Enough, EnoughAt, Before, Between, AfterMoves
<1>3. CASE ConvertBtp(c)
  <2>1. PICK source \in Products, target \in Products, n \in 1..MaxQty :
          Begin(c, "convert", NoDoc, "load",
                <<Move(source, "KHO_BTP", -n), Move(target, "KHO_BTP", n)>>, NoRow)
    BY <1>3 DEF ConvertBtp
  <2>2. <<Move(source, "KHO_BTP", -n), Move(target, "KHO_BTP", n)>> \in Seq(AllMoves) \ {<<>>}
    BY MoveTyped, <1>qty DEF Items
  <2> QED
    BY <2>1, <2>2, <1>none, RequestBegins DEF Enough, EnoughAt, Before, Between, AfterMoves
<1>4. CASE Confirm(c)
  <2>1. PICK d \in Docs, at \in {"header", "load"} : Begin(c, "confirm", d, at, Moves(d), NoRow)
    BY <1>4 DEF Confirm
  <2>2. Saved(moved, d) \in Nat
    BY DEF MovedInv, Shape, Saved
  <2>3. Moves(d) \in Seq(AllMoves) /\ Moves(d) # <<>> /\ Len(Moves(d)) \in Nat
    BY MovesAssumption
  <2> QED
    BY <2>1, <2>2, <2>3, RequestBegins DEF Enough, EnoughAt, Before, Between, AfterMoves
<1>5. CASE DeliverIssue(c)
  <2>1. PICK d \in Issues : Begin(c, "deliver", d, "deliver", <<>>, NoRow)
    BY <1>5 DEF DeliverIssue
  <2> QED
    BY <2>1, <1>empty, RequestBegins DEF Enough, EnoughAt, Before, Between, AfterMoves
<1>6. CASE EditIssue(c) \/ MailDelivery(c) \/ UpdateDelivery(c)
  <2>0. PICK kind \in {"edit", "mail"}, d \in Issues \cup Exports :
          \E new : Begin(c, kind, d, "edit", <<>>, new)
    BY <1>6 DEF EditIssue, MailDelivery, UpdateDelivery
  <2>1. PICK new : Begin(c, kind, d, "edit", <<>>, new)
    BY <2>0
  <2>2. d \in Docs \ Receipts
    BY DocsAssumption DEF Docs
  <2> QED
    BY <2>1, <2>2, <1>empty, RequestBegins DEF Enough, EnoughAt, Before, Between, AfterMoves
<1>7. CASE DeleteReceipt(c)
  <2>1. PICK d \in Receipts : Begin(c, "delete", d, "delete", <<>>, NoRow)
    BY <1>7 DEF DeleteReceipt
  <2> QED
    BY <2>1, <1>empty, RequestBegins DEF Enough, EnoughAt, Before, Between, AfterMoves
<1>8. CASE DeleteIssue(c)
  <2>1. PICK d \in Issues :
          Begin(c, "delete", d, IF status[d] = "DRAFT" THEN "delete" ELSE "return",
            IF status[d] = "DRAFT" THEN <<>>
            ELSE [n \in DOMAIN Lines[d] |-> Move(Lines[d][n].item, "KHO_NPL", Lines[d][n].qty)],
            NoRow)
    BY <1>8 DEF DeleteIssue
  <2> DEFINE returned ==
        [n \in DOMAIN Lines[d] |-> Move(Lines[d][n].item, "KHO_NPL", Lines[d][n].qty)]
  <2>2. Lines[d] \in Seq([item : Items, qty : Nat, po : PoItems \cup {NoRow}]) /\ Lines[d] # <<>>
    BY LinesAssumption DEF Docs
  <2>3. returned \in Seq(AllMoves) /\ returned # <<>>
    <3>1. \A n \in 1..Len(Lines[d]) : Move(Lines[d][n].item, "KHO_NPL", Lines[d][n].qty) \in AllMoves
      <4> TAKE n \in 1..Len(Lines[d])
      <4>1. Lines[d][n] \in [item : Items, qty : Nat, po : PoItems \cup {NoRow}]
        BY <2>2, SeqElement
      <4>2. Lines[d][n].item \in Items /\ Lines[d][n].qty \in Int /\ "KHO_NPL" \in Places
        BY <4>1, LineFields
      <4> QED
        BY <4>2, MoveTyped
    <3>2. Len(Lines[d]) \in Nat \ {0} /\ DOMAIN Lines[d] = 1..Len(Lines[d])
      BY <2>2
    <3> QED
      BY <3>1, <3>2
  <2> HIDE DEF returned
  <2>4. CASE status[d] = "DRAFT"
    <3>1. Begin(c, "delete", d, "delete", <<>>, NoRow)
      BY <2>1, <2>4
    <3> QED
      BY <3>1, <1>empty, RequestBegins DEF Enough, EnoughAt, Before, Between, AfterMoves
  <2>5. CASE status[d] # "DRAFT"
    <3>1. Begin(c, "delete", d, "return", returned, NoRow)
      BY <2>1, <2>5 DEF returned
    <3> QED
      BY <3>1, <2>3, RequestBegins DEF Enough, EnoughAt, Before, Between, AfterMoves
  <2> QED
    BY <2>4, <2>5
<1>9. CASE Reset(c)
  BY <1>9, <1>empty, <1>none, RequestBegins DEF Reset, Enough, EnoughAt, Before, Between, AfterMoves
<1> QED
  BY <1>1, <1>2, <1>3, <1>4, <1>5, <1>6, <1>7, <1>8, <1>9 DEF Request
-----------------------------------------------------------------------------
(* A request goes on *)

LEMMA CallExcept ==
  ASSUME NEW r, IsCall(r), NEW at, NEW seen
  PROVE  [r EXCEPT !.at = at, !.seen = seen]
           = [kind |-> r.kind, doc |-> r.doc, at |-> at, todo |-> r.todo, seen |-> seen]
<1> DEFINE q == [r EXCEPT !.at = at]
<1>1. PICK k, d, a, t, s : r = [kind |-> k, doc |-> d, at |-> a, todo |-> t, seen |-> s]
  BY Zenon DEF IsCall
<1>2. [r EXCEPT !.at = at, !.seen = seen] = [q EXCEPT !.seen = seen]
  OBVIOUS
<1>3. q = [kind |-> k, doc |-> d, at |-> at, todo |-> t, seen |-> s]
  BY <1>1
<1> HIDE DEF q
<1>4. [q EXCEPT !.seen = seen] = [kind |-> k, doc |-> d, at |-> at, todo |-> t, seen |-> seen]
  BY <1>3
<1> QED
  BY <1>1, <1>2, <1>4

LEMMA CallTodo ==
  ASSUME NEW r, IsCall(r), NEW at, NEW todo
  PROVE  [r EXCEPT !.todo = todo, !.at = at]
           = [kind |-> r.kind, doc |-> r.doc, at |-> at, todo |-> todo, seen |-> r.seen]
<1> DEFINE q == [r EXCEPT !.todo = todo]
<1>1. PICK k, d, a, t, s : r = [kind |-> k, doc |-> d, at |-> a, todo |-> t, seen |-> s]
  BY Zenon DEF IsCall
<1>2. [r EXCEPT !.todo = todo, !.at = at] = [q EXCEPT !.at = at]
  OBVIOUS
<1>3. q = [kind |-> k, doc |-> d, at |-> a, todo |-> todo, seen |-> s]
  BY <1>1
<1> HIDE DEF q
<1>4. [q EXCEPT !.at = at] = [kind |-> k, doc |-> d, at |-> at, todo |-> todo, seen |-> s]
  BY <1>3
<1> QED
  BY <1>1, <1>2, <1>4

\* A call that only changes where it is and what it saw.
LEMMA GotoKeeps ==
  ASSUME MovedInv, NEW c \in Callers, NEW at, NEW seen, Goto(c, at, seen), moved' = moved,
         DOMAIN status' = Docs, \A d \in Receipts : Done(d)' => Done(d),
         EnoughAt(at, call[c].kind, call[c].doc, call[c].todo, Saved(moved, call[c].doc))
  PROVE  MovedInv'
<1> DEFINE r == [call[c] EXCEPT !.at = at, !.seen = seen]
<1>1. IsCall(call[c])
  BY DEF MovedInv, Shape
<1>2. r = [kind |-> call[c].kind, doc |-> call[c].doc, at |-> at, todo |-> call[c].todo,
           seen |-> seen]
  BY <1>1, CallExcept
<1>3. IsCall(r) /\ r.doc = call[c].doc
  BY <1>1, <1>2 DEF IsCall
<1>4. call' = [call EXCEPT ![c] = r]
  BY DEF Goto
<1>5. moved' \in [Docs -> Nat] /\ \A x \in Docs : moved'[x] >= moved[x]
  BY DEF MovedInv, Shape
<1>6. r.at = at /\ r.kind = call[c].kind /\ r.todo = call[c].todo
  BY <1>2
<1>7. Enough(r, Saved(moved', r.doc))
  BY <1>3, <1>6 DEF Enough
<1> HIDE DEF r
<1> QED
  BY <1>3, <1>4, <1>5, <1>7, CallGoesOn

LEMMA EndKeeps ==
  ASSUME MovedInv, NEW c \in Callers, End(c), moved' = moved,
         DOMAIN status' = Docs, \A d \in Receipts : Done(d)' => Done(d)
  PROVE  MovedInv'
<1>1. Enough(Idle, Saved(moved', Idle.doc))
  BY IdleIsCall DEF Enough, EnoughAt, Before, Between, AfterMoves
<1>2. moved' \in [Docs -> Nat] /\ \A x \in Docs : moved'[x] >= moved[x]
  BY DEF MovedInv, Shape
<1> QED
  BY <1>1, <1>2, IdleIsCall, CallGoesOn DEF End

LEMMA StatusKept ==
  ASSUME MovedInv, status' = status
  PROVE  DOMAIN status' = Docs /\ \A d \in Receipts : Done(d)' => Done(d)
BY DEF MovedInv, Shape, Done

\* A document is given a status that is not done, or an issue any status.
LEMMA StatusSet ==
  ASSUME MovedInv, NEW e, NEW new, status' = [status EXCEPT ![e] = new],
         new \in {"DRAFT", "DELETED"} \/ e \notin Receipts
  PROVE  DOMAIN status' = Docs /\ \A d \in Receipts : Done(d)' => Done(d)
<1>1. DOMAIN status' = Docs
  BY DEF MovedInv, Shape
<1>2. ASSUME NEW d \in Receipts, Done(d)' PROVE Done(d)
  <2>1. CASE d = e
    <3>1. status'[d] = new
      BY <2>1 DEF MovedInv, Shape, Docs
    <3> QED
      BY <1>2, <2>1, <3>1 DEF Done
  <2>2. CASE d # e
    <3>1. status'[d] = status[d]
      BY <2>2, <1>2 DEF MovedInv, Shape, Docs
    <3> QED
      BY <1>2, <3>1 DEF Done
  <2> QED
    BY <2>1, <2>2
<1> QED
  BY <1>1, <1>2

\* What is known of the record in hand.
LEMMA CallFacts ==
  ASSUME MovedInv, NEW c \in Callers
  PROVE  /\ IsCall(call[c]) /\ Saved(moved, call[c].doc) \in Nat /\ Len(call[c].todo) \in Nat
         /\ EnoughAt(call[c].at, call[c].kind, call[c].doc, call[c].todo,
                     Saved(moved, call[c].doc))
<1>1. IsCall(call[c]) /\ Enough(call[c], Saved(moved, call[c].doc))
  BY DEF MovedInv, Shape, CallsEnough
<1>2. Saved(moved, call[c].doc) \in Nat
  BY DEF MovedInv, Shape, Saved
<1>3. Len(call[c].todo) \in Nat
  BY <1>1 DEF IsCall
<1> QED
  BY <1>1, <1>2, <1>3 DEF Enough

LEMMA TailFacts ==
  ASSUME NEW S, NEW s \in Seq(S), s # <<>>
  PROVE  /\ Tail(s) \in Seq(S) /\ Len(s) \in Nat \ {0} /\ Len(Tail(s)) = Len(s) - 1
         /\ Len(s) # 1 => Tail(s) # <<>>
<1>1. Tail(s) \in Seq(S) /\ Len(s) \in Nat \ {0}
  OBVIOUS
<1>2. Len(Tail(s)) = Len(s) - 1
  OBVIOUS
<1>3. Len(<<>>) = 0
  OBVIOUS
<1>4. Tail(s) = <<>> => Len(Tail(s)) = 0
  BY <1>3, Zenon
<1> QED
  BY <1>1, <1>2, <1>4

LEMMA MoveKeeps == ASSUME MovedInv, NEW c \in Callers, MoveStep(c) PROVE MovedInv'
<1> USE DEF Before, Between, AfterMoves
<1>0. /\ IsCall(call[c]) /\ Saved(moved, call[c].doc) \in Nat /\ Len(call[c].todo) \in Nat
      /\ EnoughAt(call[c].at, call[c].kind, call[c].doc, call[c].todo, Saved(moved, call[c].doc))
  BY CallFacts
<1>doc. call[c].doc \in Docs => Len(Moves(call[c].doc)) \in Nat
  BY LengthOfMoves
<1>1. CASE LoadRow(c) \/ LoadTwin(c)
  <2>1. PICK at, seen :
          at \in {"save", "saveTwin"} /\ Goto(c, at, seen) /\ call[c].at = "load"
    BY <1>1 DEF LoadRow, LoadTwin
  <2>2. moved' = moved /\ status' = status
    BY <1>1 DEF LoadRow, LoadTwin, books, papers
  <2>3. EnoughAt(at, call[c].kind, call[c].doc, call[c].todo, Saved(moved, call[c].doc))
    BY <1>0, <2>1 DEF EnoughAt
  <2> QED
    BY <2>1, <2>2, <2>3, StatusKept, GotoKeeps
<1>2. CASE SaveRow(c) \/ InsertTwin(c) \/ SaveTwin(c)
  <2>at. PICK at \in {"log", "sum"} : Goto(c, at, NoRow)
    BY <1>2 DEF SaveRow, InsertTwin, SaveTwin
  <2> DEFINE r == [call[c] EXCEPT !.at = at, !.seen = NoRow]
  <2>1. call[c].at \in {"save", "saveTwin"} /\ call' = [call EXCEPT ![c] = r]
    BY <1>2, <2>at DEF SaveRow, InsertTwin, SaveTwin, Goto
  <2>2. moved' = IF call[c].doc \in Docs THEN [moved EXCEPT ![call[c].doc] = @ + 1] ELSE moved
    BY <1>2 DEF SaveRow, InsertTwin, SaveTwin, CountMove
  <2>3. status' = status
    BY <1>2 DEF SaveRow, InsertTwin, SaveTwin, papers
  <2>4. moved' \in [Docs -> Nat] /\ \A x \in Docs : moved'[x] >= moved[x]
    BY <2>2 DEF MovedInv, Shape
  <2>5. r.at = at /\ r.todo = call[c].todo /\ r.doc = call[c].doc /\ r.kind = call[c].kind
    BY <1>0, CallExcept
  <2>6. r = [kind |-> call[c].kind, doc |-> call[c].doc, at |-> at, todo |-> call[c].todo,
             seen |-> NoRow]
    BY <1>0, CallExcept
  <2> HIDE DEF r
  <2>call. IsCall(r)
    BY <1>0, <2>6 DEF IsCall
  <2>8. call[c].doc \in Docs => Saved(moved', call[c].doc) = Saved(moved, call[c].doc) + 1
    BY <2>2 DEF Saved, MovedInv, Shape
  <2>9. Enough(r, Saved(moved', r.doc))
    BY <1>0, <1>doc, <2>1, <2>5, <2>8 DEF Enough, EnoughAt
  <2> QED
    BY <2>1, <2>3, <2>4, <2>call, <2>9, StatusKept, CallGoesOn
<1>3. CASE SumRows(c)
  <2>1. PICK seen : Goto(c, "total", seen) /\ call[c].at = "sum"
    BY <1>3 DEF SumRows
  <2>2. moved' = moved /\ status' = status
    BY <1>3 DEF SumRows, books, papers
  <2>3. EnoughAt("total", call[c].kind, call[c].doc, call[c].todo, Saved(moved, call[c].doc))
    BY <1>0, <2>1 DEF EnoughAt
  <2> QED
    BY <2>1, <2>2, <2>3, StatusKept, GotoKeeps
<1>4. CASE SaveTotal(c)
  <2>1. Goto(c, "log", NoRow) /\ call[c].at = "total" /\ moved' = moved /\ status' = status
    BY <1>4 DEF SaveTotal, papers
  <2>2. EnoughAt("log", call[c].kind, call[c].doc, call[c].todo, Saved(moved, call[c].doc))
    BY <1>0, <2>1 DEF EnoughAt
  <2> QED
    BY <2>1, <2>2, StatusKept, GotoKeeps
<1>5. CASE LogMove(c)
  <2> DEFINE next == [call[c] EXCEPT !.todo = Tail(@), !.at = "load"]
  <2>1. /\ call[c].at = "log" /\ moved' = moved /\ status' = status
        /\ call' = [call EXCEPT ![c] = IF Len(call[c].todo) = 1 THEN After(c) ELSE next]
    BY <1>5 DEF LogMove, NextMove, papers
  <2>2. moved' \in [Docs -> Nat] /\ \A x \in Docs : moved'[x] >= moved[x]
    BY <2>1 DEF MovedInv, Shape
  <2>3. call[c].todo \in Seq(AllMoves) /\ call[c].todo # <<>>
    BY <1>0, <2>1 DEF IsCall, Enough, EnoughAt
  <2>4. CASE Len(call[c].todo) = 1
    <3>1. IsCall(After(c)) /\ Enough(After(c), Saved(moved, After(c).doc))
      <4>1. CASE call[c].kind # "confirm"
        BY <4>1, IdleIsCall DEF After, Enough, EnoughAt
      <4>2. CASE call[c].kind = "confirm"
        <5>1. PICK at \in {"debt", "loadPo", "finish"} :
                After(c) = [call[c] EXCEPT !.todo = <<>>, !.at = at]
          BY <4>2 DEF After
        <5>2. After(c) = [kind |-> call[c].kind, doc |-> call[c].doc, at |-> at,
                          todo |-> <<>>, seen |-> call[c].seen]
          BY <5>1, <1>0, CallTodo
        <5>3. <<>> \in Seq(AllMoves)
          OBVIOUS
        <5>4. IsCall(After(c))
          BY <5>2, <5>3 DEF IsCall
        <5>5. call[c].doc \in Docs /\ Saved(moved, call[c].doc) >= Len(Moves(call[c].doc))
          BY <4>2, <2>1, <2>4, <1>0, <1>doc DEF Enough, EnoughAt
        <5>6. After(c).at \in AfterMoves /\ After(c).doc = call[c].doc
          BY <5>2
        <5>7. Enough(After(c), Saved(moved, call[c].doc))
          BY <5>5, <5>6 DEF Enough, EnoughAt
        <5> QED
          BY <5>4, <5>6, <5>7
      <4> QED
        BY <4>1, <4>2
    <3>2. call' = [call EXCEPT ![c] = After(c)]
      BY <2>1, <2>4
    <3> QED
      BY <2>1, <2>2, <3>1, <3>2, StatusKept, CallGoesOn
  <2>5. CASE Len(call[c].todo) # 1
    <3>1. /\ Tail(call[c].todo) \in Seq(AllMoves) /\ Tail(call[c].todo) # <<>>
          /\ Len(Tail(call[c].todo)) = Len(call[c].todo) - 1
      BY <2>3, <2>5, TailFacts
    <3>2. next = [kind |-> call[c].kind, doc |-> call[c].doc, at |-> "load",
                  todo |-> Tail(call[c].todo), seen |-> call[c].seen]
      BY <1>0, CallTodo
    <3> HIDE DEF next
    <3>3. IsCall(next)
      BY <3>1, <3>2 DEF IsCall
    <3>4. /\ next.at = "load" /\ next.doc = call[c].doc /\ next.kind = call[c].kind
          /\ next.todo = Tail(call[c].todo)
      BY <3>2
    <3>5. Enough(next, Saved(moved, next.doc))
      BY <1>0, <1>doc, <2>1, <3>1, <3>4 DEF Enough, EnoughAt
    <3>6. call' = [call EXCEPT ![c] = next]
      BY <2>1, <2>5
    <3> QED
      BY <2>1, <2>2, <3>3, <3>5, <3>6, StatusKept, CallGoesOn
  <2> QED
    BY <2>4, <2>5
<1> QED
  BY <1>1, <1>2, <1>3, <1>4, <1>5 DEF MoveStep
LEMMA FinishKeeps == ASSUME MovedInv, NEW c \in Callers, Finish(c) PROVE MovedInv'
<1> DEFINE e == call[c].doc
           last == IF e \in Receipts THEN [call[c] EXCEPT !.at = "reloadPo", !.seen = NoRow]
                   ELSE Idle
<1>1. /\ call[c].at = "finish" /\ moved' = moved /\ call' = [call EXCEPT ![c] = last]
      /\ \E new : status' = [status EXCEPT ![e] = new]
  BY DEF Finish, Goto, End, books
<1>2. e \in Docs /\ moved[e] >= Len(Moves(e))
  BY <1>1, CallFacts DEF EnoughAt, Before, Between, AfterMoves, Saved
<1>3. \A d \in Receipts : Done(d)' => moved[d] >= Len(Moves(d))
  <2> SUFFICES ASSUME NEW d \in Receipts, Done(d)', d # e
               PROVE  moved[d] >= Len(Moves(d))
    BY <1>2
  <2>1. status'[d] = status[d]
    BY <1>1 DEF MovedInv, Shape, Docs
  <2> QED
    BY <2>1 DEF MovedInv, DoneWasMoved, Done
<1>4. IsCall(last) /\ Enough(last, Saved(moved, last.doc))
  <2>1. CASE e \in Receipts
    <3>1. last = [kind |-> call[c].kind, doc |-> e, at |-> "reloadPo",
                  todo |-> call[c].todo, seen |-> NoRow]
      BY <2>1, CallFacts, CallExcept
    <3> HIDE DEF last
    <3>2. IsCall(last)
      BY <3>1, CallFacts DEF IsCall
    <3>3. last.at = "reloadPo" /\ last.doc = e
      BY <3>1
    <3>4. Enough(last, Saved(moved, last.doc))
      BY <3>3, <1>2 DEF Enough, EnoughAt, Before, Between, AfterMoves
    <3> QED
      BY <3>2, <3>4
  <2>2. CASE e \notin Receipts
    <3>1. last = Idle
      BY <2>2
    <3>2. Enough(Idle, Saved(moved, Idle.doc))
      BY IdleIsCall DEF Enough, EnoughAt, Before, Between, AfterMoves
    <3> QED
      BY <3>1, <3>2, IdleIsCall
  <2> QED
    BY <2>1, <2>2
<1> HIDE DEF last
<1>5. \A b \in Callers : IsCall(call'[b]) /\ Enough(call'[b], Saved(moved', call'[b].doc))
  <2> TAKE b \in Callers
  <2>1. call'[b] = IF b = c THEN last ELSE call[b]
    BY <1>1 DEF MovedInv, Shape
  <2>2. IsCall(call[b]) /\ Enough(call[b], Saved(moved, call[b].doc))
    BY DEF MovedInv, Shape, CallsEnough
  <2> QED
    BY <1>1, <1>4, <2>1, <2>2
<1> QED
  BY <1>1, <1>3, <1>5 DEF MovedInv, Shape, CallsEnough, DoneWasMoved

LEMMA DocumentKeeps == ASSUME MovedInv, NEW c \in Callers, DocumentStep(c) PROVE MovedInv'
<1> USE DEF Before, Between, AfterMoves
<1>0. /\ IsCall(call[c]) /\ Saved(moved, call[c].doc) \in Nat /\ Len(call[c].todo) \in Nat
      /\ EnoughAt(call[c].at, call[c].kind, call[c].doc, call[c].todo, Saved(moved, call[c].doc))
  BY CallFacts
<1>1. CASE SaveHeader(c)
  <2>1. /\ call[c].at = "header" /\ Goto(c, "load", NoRow) /\ moved' = moved
        /\ status' = [status EXCEPT ![call[c].doc] = "DRAFT"]
    BY <1>1 DEF SaveHeader, books
  <2> QED
    BY <2>1, <1>0, StatusSet, GotoKeeps DEF EnoughAt
<1>2. ASSUME LoadDebt(c) \/ SaveDebt(c) \/ LoadPo(c) \/ SaveFee(c) PROVE MovedInv'
  <2>1. PICK at, seen :
          /\ at \in AfterMoves /\ call[c].at \in AfterMoves
          /\ Goto(c, at, seen) /\ moved' = moved /\ status' = status
    BY <1>2 DEF LoadDebt, SaveDebt, LoadPo, SaveFee, books, papers
  <2>2. EnoughAt(at, call[c].kind, call[c].doc, call[c].todo, Saved(moved, call[c].doc))
    BY <2>1, <1>0 DEF EnoughAt
  <2> QED
    BY <2>1, <2>2, StatusKept, GotoKeeps
<1>3. CASE Finish(c)
  BY <1>3, FinishKeeps
<1>4. CASE ReloadPo(c) \/ ReadReceipts(c)
  <2>1. PICK at, seen :
          /\ at \in {"readReceipts", "savePo"} /\ Goto(c, at, seen)
          /\ moved' = moved /\ status' = status
    BY <1>4 DEF ReloadPo, ReadReceipts, books, papers
  <2> QED
    BY <2>1, <1>0, StatusKept, GotoKeeps DEF EnoughAt
<1>5. CASE SavePo(c)
  BY <1>5, StatusKept, EndKeeps DEF SavePo, books
<1>6. ASSUME SaveDelivered(c) \/ SaveEdit(c) PROVE MovedInv'
  <2>1. PICK new : /\ call[c].at \in {"deliver", "edit"} /\ End(c) /\ moved' = moved
                   /\ status' = [status EXCEPT ![call[c].doc] = new]
    BY <1>6 DEF SaveDelivered, SaveEdit, books
  <2>2. call[c].doc \notin Receipts
    BY <2>1, <1>0, DocsAssumption DEF EnoughAt
  <2> QED
    BY <2>1, <2>2, StatusSet, EndKeeps
<1>7. CASE LoadReturn(c)
  <2>1. PICK seen : /\ call[c].at = "return" /\ Goto(c, "saveReturn", seen) /\ moved' = moved
                    /\ status' = status
    BY <1>7 DEF LoadReturn, books, papers
  <2> QED
    BY <2>1, <1>0, StatusKept, GotoKeeps DEF EnoughAt
<1>8. CASE SaveReturn(c)
  <2> DEFINE at == IF Len(call[c].todo) = 1 THEN "delete" ELSE "return"
             next == [call[c] EXCEPT !.todo = Tail(@), !.at = at]
  <2>1. /\ call[c].at = "saveReturn" /\ moved' = moved /\ status' = status
        /\ call' = [call EXCEPT ![c] = next]
    BY <1>8 DEF SaveReturn, papers
  <2>2. call[c].todo \in Seq(AllMoves) /\ call[c].todo # <<>>
    BY <2>1, <1>0 DEF IsCall, EnoughAt
  <2>3. /\ Tail(call[c].todo) \in Seq(AllMoves)
        /\ Len(call[c].todo) # 1 => Tail(call[c].todo) # <<>>
    BY <2>2, TailFacts
  <2>4. next = [kind |-> call[c].kind, doc |-> call[c].doc, at |-> at,
                todo |-> Tail(call[c].todo), seen |-> call[c].seen]
    BY <1>0, CallTodo
  <2> HIDE DEF next
  <2>one. Len(call[c].todo) = 1 => at = "delete"
    OBVIOUS
  <2>more. Len(call[c].todo) # 1 => at = "return"
    OBVIOUS
  <2> HIDE DEF at
  <2>6. IsCall(next)
    BY <2>3, <2>4 DEF IsCall
  <2>7. /\ next.at = at /\ next.doc = call[c].doc /\ next.kind = call[c].kind
        /\ next.todo = Tail(call[c].todo)
    BY <2>4
  <2>8. Enough(next, Saved(moved', next.doc))
    BY <1>0, <2>3, <2>one, <2>more, <2>7 DEF Enough, EnoughAt
  <2>9. moved' \in [Docs -> Nat] /\ \A x \in Docs : moved'[x] >= moved[x]
    BY <2>1 DEF MovedInv, Shape
  <2> QED
    BY <2>1, <2>6, <2>8, <2>9, StatusKept, CallGoesOn
<1>9. CASE Delete(c)
  BY <1>9, StatusSet, EndKeeps DEF Delete, books
<1> QED
  BY <1>1, <1>2, <1>3, <1>4, <1>5, <1>6, <1>7, <1>8, <1>9 DEF DocumentStep

LEMMA MovedStep == MovedInv /\ [Next]_vars => MovedInv'
<1> SUFFICES ASSUME MovedInv, [Next]_vars PROVE MovedInv'
  OBVIOUS
<1>1. CASE Next
  <2>1. PICK c \in Callers :
          Request(c) \/ MoveStep(c) \/ DocumentStep(c) \/ ResetStep(c) \/ Fail(c)
    BY <1>1 DEF Next
  <2>2. CASE Request(c) \/ MoveStep(c) \/ DocumentStep(c)
    BY <2>2, RequestStep, MoveKeeps, DocumentKeeps
  <2>3. CASE ClearHistory(c) \/ ClearStock(c)
    <3>1. PICK at \in {"clearStock", "clearTotal"} :
            Goto(c, at, NoRow) /\ moved' = moved /\ status' = status
      BY <2>3 DEF ClearHistory, ClearStock, papers
    <3>2. EnoughAt(at, call[c].kind, call[c].doc, call[c].todo, Saved(moved, call[c].doc))
      BY <3>1, CallFacts DEF EnoughAt, Before, Between, AfterMoves
    <3> QED
      BY <3>1, <3>2, StatusKept, GotoKeeps
  <2>4. CASE ClearTotal(c) \/ Fail(c)
    <3>1. End(c) /\ moved' = moved /\ status' = status
      BY <2>4 DEF ClearTotal, Fail, books, papers
    <3> QED
      BY <3>1, StatusKept, EndKeeps
  <2> QED
    BY <2>1, <2>2, <2>3, <2>4 DEF ResetStep
<1>2. CASE UNCHANGED vars
  <2>1. UNCHANGED <<call, moved, status>>
    BY <1>2 DEF vars
  <2> QED
    BY <2>1 DEF MovedInv, Shape, CallsEnough, DoneWasMoved, Done
<1> QED
  BY <1>1, <1>2

\* A receipt that is done has made all its moves, whatever the documents are, however many
\* requests overlap and wherever they fail: no save of a stale entity makes a receipt done
\* (confirmReceipt, deleteDraftReceipt).
THEOREM DoneIsMoved == Spec => []DoneWasMoved
<1>1. MovedInv => DoneWasMoved
  BY DEF MovedInv
<1> QED
  BY MovedInit, MovedStep, <1>1, PTL DEF Spec
-----------------------------------------------------------------------------
(* Types *)

Statuses == {"DRAFT", "COMPLETED", "SHIPPED", "CONFIRMED", "DELIVERED", "DELETED"}
PoStatuses == {"ORDERED", "PARTIAL_DELIVERED", "DELIVERED"}

\* What a request has read is a value of what it will write.
SeenAt(at, doc, seen) ==
  /\ at = "save" => seen \in Quantity
  /\ at \in {"total", "saveDebt", "saveReturn"} => seen \in Int
  /\ at = "saveTwin" => seen[2] \in Int
  /\ at \in {"saveFee", "readReceipts", "savePo"} => seen \in PoStatuses
  /\ at = "edit" => seen \in Statuses
  /\ at \in {"debt", "saveDebt"} => doc \in Receipts
SeenTyped == \A c \in Callers : SeenAt(call[c].at, call[c].doc, call[c].seen)

TypeInv == MovedInv /\ TypeOK /\ SeenTyped

LEMMA QtyTyped == \A row \in Quantity : Qty(row) \in Int
BY DEF Quantity, Qty

LEMMA CountedFacts == IsFiniteSet(Counted) /\ Counted \subseteq Places
<1>1. Counted = {"KHO_NPL", "KHO_TP", "KHO_BTP"}
  BY DEF Counted, Warehouses
<1>2. IsFiniteSet({}) /\ {"KHO_NPL"} = {} \cup {"KHO_NPL"}
  BY FS_EmptySet
<1>3. IsFiniteSet({} \cup {"KHO_NPL"})
  BY <1>2, FS_AddElement
<1>4. IsFiniteSet({"KHO_NPL"} \cup {"KHO_TP"})
  BY <1>2, <1>3, FS_AddElement
<1>5. IsFiniteSet(({"KHO_NPL"} \cup {"KHO_TP"}) \cup {"KHO_BTP"})
  BY <1>4, FS_AddElement
<1>6. Counted = ({"KHO_NPL"} \cup {"KHO_TP"}) \cup {"KHO_BTP"}
  BY <1>1
<1> QED
  BY <1>5, <1>6 DEF Counted, Places

\* The sum adjustStock computes from the rows of an item.
LEMMA SumOfTyped == ASSUME TypeOK, NEW i \in Items PROVE SumOf(i) \in Int
<1> DEFINE f == [p \in Counted |-> Qty(stock[i][p])]
<1>1. \A p \in Counted : f[p] \in Int
  BY QtyTyped, CountedFacts DEF TypeOK
<1> HIDE DEF f
<1>2. Sum(f, Counted) \in Int
  BY <1>1, CountedFacts, SumInt
<1> QED
  BY <1>2 DEF SumOf, f

LEMMA BroughtTyped == ASSUME NEW d \in Docs, NEW P PROVE Brought(d, P) \in Nat
<1> DEFINE f == [n \in DOMAIN Lines[d] |-> IF Lines[d][n].po \in P THEN Lines[d][n].qty ELSE 0]
<1>1. Lines[d] \in Seq([item : Items, qty : Nat, po : PoItems \cup {NoRow}])
  BY LinesAssumption
<1>2. DOMAIN Lines[d] = 1..Len(Lines[d]) /\ Len(Lines[d]) \in Nat
  BY <1>1
<1>3. IsFiniteSet(DOMAIN Lines[d])
  BY <1>2, FS_Interval
<1>4. \A n \in DOMAIN Lines[d] : f[n] \in Nat
  <2> TAKE n \in DOMAIN Lines[d]
  <2>1. Lines[d][n] \in [item : Items, qty : Nat, po : PoItems \cup {NoRow}]
    BY <1>1, <1>2, SeqElement
  <2>2. Lines[d][n].qty \in Nat
    BY <2>1
  <2> QED
    BY <2>2
<1> HIDE DEF f
<1>5. Sum(f, DOMAIN Lines[d]) \in Nat
  BY <1>3, <1>4, SumNat
<1> QED
  BY <1>5 DEF Brought, f

LEMMA OrderedTyped == ASSUME NEW d \in Docs PROVE OrderedQty(d) \in Nat
BY BroughtTyped DEF OrderedQty

LEMMA ReceivedOfTyped == ASSUME NEW R \in SUBSET Receipts, NEW P PROVE ReceivedOf(R, P) \in Nat
<1> DEFINE f == [d \in Receipts |-> Brought(d, P)]
<1>1. IsFiniteSet(R)
  BY DocsAssumption, FS_Subset
<1>2. \A d \in R : f[d] \in Nat
  BY BroughtTyped DEF Docs
<1> HIDE DEF f
<1>3. Sum(f, R) \in Nat
  BY <1>1, <1>2, SumNat
<1> QED
  BY <1>3 DEF ReceivedOf, f

LEMMA ReceivedTyped == ASSUME NEW R \in SUBSET Receipts PROVE Received(R) \in Nat
BY ReceivedOfTyped DEF Received

LEMMA TypeInit == Init => TypeInv
<1> SUFFICES ASSUME Init PROVE TypeInv
  OBVIOUS
<1>1. TypeOK
  BY BoundsAssumption DEF Init, TypeOK, Quantity
<1>2. SeenTyped
  BY IdleIsCall DEF Init, SeenTyped, SeenAt
<1> QED
  BY <1>1, <1>2, MovedInit DEF TypeInv

\* The record in hand and its next move are typed.
LEMMA TodoTyped ==
  ASSUME TypeInv, NEW c \in Callers, call[c].todo # <<>>
  PROVE  Todo(c).item \in Items /\ Todo(c).place \in Places /\ Todo(c).change \in Int
<1>1. call[c].todo \in Seq(AllMoves)
  BY DEF TypeInv, MovedInv, Shape, IsCall
<1>2. Head(call[c].todo) \in AllMoves
  BY <1>1
<1> QED
  BY <1>2 DEF Todo, AllMoves

\* Only the call of c changed.
LEMMA SeenKeeps ==
  ASSUME TypeInv, MovedInv', NEW c \in Callers, NEW r, call' = [call EXCEPT ![c] = r],
         SeenAt(r.at, r.doc, r.seen), TypeOK'
  PROVE  TypeInv'
<1>1. \A b \in Callers : call'[b] = IF b = c THEN r ELSE call[b]
  BY DEF TypeInv, MovedInv, Shape
<1> QED
  BY <1>1 DEF TypeInv, SeenTyped

LEMMA SeenGoto ==
  ASSUME TypeInv, MovedInv', NEW c \in Callers, NEW at, NEW seen, Goto(c, at, seen),
         SeenAt(at, call[c].doc, seen), TypeOK'
  PROVE  TypeInv'
<1> DEFINE r == [call[c] EXCEPT !.at = at, !.seen = seen]
<1>1. IsCall(call[c])
  BY DEF TypeInv, MovedInv, Shape
<1>2. r.at = at /\ r.doc = call[c].doc /\ r.seen = seen
  BY <1>1, CallExcept
<1>3. call' = [call EXCEPT ![c] = r]
  BY DEF Goto
<1> HIDE DEF r
<1> QED
  BY <1>2, <1>3, SeenKeeps

LEMMA SeenEnd ==
  ASSUME TypeInv, MovedInv', NEW c \in Callers, End(c), TypeOK'
  PROVE  TypeInv'
<1>1. SeenAt(Idle.at, Idle.doc, Idle.seen)
  BY IdleIsCall DEF SeenAt
<1> QED
  BY <1>1, SeenKeeps DEF End

\* The types but for the calls, which TypeOK only asks to be there.
LEMMA TypesKept ==
  ASSUME TypeInv, UNCHANGED <<books, papers>>, calls' \in 0..MaxCalls, DOMAIN call' = Callers
  PROVE  TypeOK'
BY DEF TypeInv, TypeOK, books, papers

LEMMA BeginTyped ==
  ASSUME TypeInv, MovedInv', NEW c \in Callers, NEW kind, NEW d, NEW at, NEW todo, NEW seen,
         Begin(c, kind, d, at, todo, seen), SeenAt(at, d, seen)
  PROVE  TypeInv'
<1> DEFINE r == [kind |-> kind, doc |-> d, at |-> at, todo |-> todo, seen |-> seen]
<1>1. call' = [call EXCEPT ![c] = r] /\ r.at = at /\ r.doc = d /\ r.seen = seen
  BY DEF Begin
<1>2. calls' \in 0..MaxCalls
  BY BoundsAssumption DEF Begin, TypeInv, TypeOK
<1>3. DOMAIN call' = Callers
  BY DEF MovedInv, Shape
<1>4. TypeOK'
  BY <1>2, <1>3, TypesKept DEF Begin
<1> HIDE DEF r
<1> QED
  BY <1>1, <1>4, SeenKeeps

LEMMA RequestTyped == ASSUME TypeInv, MovedInv', NEW c \in Callers, Request(c) PROVE TypeInv'
<1>1. CASE EditIssue(c) \/ MailDelivery(c) \/ UpdateDelivery(c)
  <2>1. \A d \in Docs : status[d] \in Statuses
    BY DEF TypeInv, TypeOK, Statuses
  <2>2. ASSUME NEW kind, NEW d \in Docs, NEW new \in Statuses, Begin(c, kind, d, "edit", <<>>, new)
        PROVE  TypeInv'
    <3>1. SeenAt("edit", d, new)
      BY DEF SeenAt
    <3> QED
      BY <2>2, <3>1, BeginTyped
  <2>3. CASE EditIssue(c)
    BY <2>1, <2>2, <2>3 DEF EditIssue, Docs
  <2>4. CASE MailDelivery(c)
    BY <2>2, <2>4 DEF MailDelivery, Docs, Statuses
  <2>5. CASE UpdateDelivery(c)
    <3>d. PICK d \in Exports : \E new \in {status[d], "DRAFT", "SHIPPED", "DELIVERED"} :
            Begin(c, "edit", d, "edit", <<>>, new)
      BY <2>5 DEF UpdateDelivery
    <3>1. PICK new \in {status[d], "DRAFT", "SHIPPED", "DELIVERED"} :
            Begin(c, "edit", d, "edit", <<>>, new)
      BY <3>d
    <3>2. d \in Docs /\ new \in Statuses
      BY <3>1, <2>1 DEF Docs, Statuses
    <3> QED
      BY <3>1, <3>2, <2>2
  <2> QED
    BY <1>1, <2>3, <2>4, <2>5
<1>2. CASE Adjust(c) \/ Transfer(c) \/ ConvertBtp(c)
  <2>1. PICK kind, todo : Begin(c, kind, NoDoc, "load", todo, NoRow)
    BY <1>2 DEF Adjust, Transfer, ConvertBtp
  <2> QED
    BY <2>1, BeginTyped DEF SeenAt
<1>3. CASE Confirm(c)
  <2>1. PICK d \in Docs, at \in {"header", "load"} : Begin(c, "confirm", d, at, Moves(d), NoRow)
    BY <1>3 DEF Confirm
  <2> QED
    BY <2>1, BeginTyped DEF SeenAt
<1>4. CASE DeliverIssue(c)
  BY <1>4, BeginTyped DEF DeliverIssue, SeenAt
<1>5. CASE DeleteReceipt(c)
  BY <1>5, BeginTyped DEF DeleteReceipt, SeenAt
<1>6. CASE DeleteIssue(c)
  <2>1. PICK d, at, todo :
          /\ d \in Issues /\ at \in {"delete", "return"}
          /\ Begin(c, "delete", d, at, todo, NoRow)
    BY <1>6 DEF DeleteIssue
  <2> QED
    BY <2>1, BeginTyped DEF SeenAt
<1>7. CASE Reset(c)
  BY <1>7, BeginTyped DEF Reset, SeenAt
<1> QED
  BY <1>1, <1>2, <1>3, <1>4, <1>5, <1>6, <1>7 DEF Request

LEMMA CallsStand ==
  ASSUME TypeInv, MovedInv', calls' = calls
  PROVE  DOMAIN call' = Callers /\ calls' \in 0..MaxCalls
BY DEF TypeInv, TypeOK, MovedInv, Shape

\* A save changes a function at one point, or not at all.
LEMMA ExceptOutside ==
  ASSUME NEW D, NEW S, NEW f \in [D -> S], NEW k, k \notin D, NEW v
  PROVE  [f EXCEPT ![k] = v] = f
OBVIOUS

LEMMA SavedInSeq ==
  ASSUME NEW s \in Seq(Int), NEW k, NEW n \in Int PROVE [s EXCEPT ![k] = n] \in Seq(Int)
<1>0. s \in [1..Len(s) -> Int] /\ Len(s) \in Nat
  OBVIOUS
<1>1. CASE k \in 1..Len(s)
  <2>1. PICK N \in Nat : N = Len(s)
    BY <1>0
  <2>2. [s EXCEPT ![k] = n] \in [1..N -> Int]
    BY <1>0, <1>1, <2>1
  <2> QED
    BY <2>1, <2>2
<1>2. CASE k \notin 1..Len(s)
  <2>1. [s EXCEPT ![k] = n] = s
    BY <1>0, <1>2, ExceptOutside
  <2> QED
    BY <2>1
<1> QED
  BY <1>1, <1>2

LEMMA MoveTypes == ASSUME TypeInv, MovedInv', NEW c \in Callers, MoveStep(c) PROVE TypeInv'
<1>0. call[c].at \in {"load", "save", "saveTwin", "sum", "total", "log"} /\ calls' = calls
  BY DEF MoveStep, LoadRow, SaveRow, SumRows, SaveTotal, LogMove, InsertTwin, LoadTwin, SaveTwin
<1>todo. call[c].todo # <<>>
  BY <1>0, CallFacts DEF EnoughAt, Before, Between, TypeInv
<1>m. Todo(c).item \in Items /\ Todo(c).place \in Places /\ Todo(c).change \in Int
  BY <1>todo, TodoTyped
<1>seen. SeenAt(call[c].at, call[c].doc, call[c].seen)
  BY DEF TypeInv, SeenTyped
<1>ok. TypeOK
  BY DEF TypeInv
<1>stand. DOMAIN call' = Callers /\ calls' \in 0..MaxCalls
  BY <1>0, CallsStand
<1>moved. moved' \in [Docs -> Nat]
  BY DEF MovedInv, Shape
<1>1. CASE LoadRow(c)
  <2>1. Goto(c, "save", stock[Todo(c).item][Todo(c).place]) /\ UNCHANGED <<books, papers>>
    BY <1>1 DEF LoadRow
  <2>2. stock[Todo(c).item][Todo(c).place] \in Quantity
    BY <1>m, <1>ok DEF TypeOK
  <2>3. SeenAt("save", call[c].doc, stock[Todo(c).item][Todo(c).place])
    BY <2>2 DEF SeenAt
  <2> QED
    BY <2>1, <2>3, <1>stand, TypesKept, SeenGoto
<1>2. CASE SaveRow(c)
  <2> DEFINE n == Qty(call[c].seen) + Todo(c).change
  <2>1. n \in Quantity
    <3>1. Qty(call[c].seen) \in Int
      BY <1>2, <1>seen, QtyTyped DEF SaveRow, SeenAt
    <3> QED
      BY <3>1, <1>m DEF Quantity
  <2>2. /\ stock' = [stock EXCEPT ![Todo(c).item][Todo(c).place] = n]
        /\ UNCHANGED <<twins, total, ledger, papers>>
    BY <1>2 DEF SaveRow
  <2>3. PICK at \in {"log", "sum"} : Goto(c, at, NoRow)
    BY <1>2 DEF SaveRow
  <2> HIDE DEF n
  <2>4. stock' \in [Items -> [Places -> Quantity]]
    BY <2>1, <2>2, <1>m, <1>ok DEF TypeOK
  <2>5. TypeOK'
    BY <2>2, <2>4, <1>ok, <1>stand, <1>moved DEF TypeOK, papers
  <2>6. SeenAt(at, call[c].doc, NoRow)
    BY DEF SeenAt
  <2> QED
    BY <2>3, <2>5, <2>6, SeenGoto
<1>3. CASE SumRows(c)
  <2>1. Goto(c, "total", SumOf(Todo(c).item)) /\ UNCHANGED <<books, papers>>
    BY <1>3 DEF SumRows
  <2>2. SumOf(Todo(c).item) \in Int
    BY <1>m, <1>ok, SumOfTyped
  <2>3. SeenAt("total", call[c].doc, SumOf(Todo(c).item))
    BY <2>2 DEF SeenAt
  <2> QED
    BY <2>1, <2>3, <1>stand, TypesKept, SeenGoto
<1>4. CASE SaveTotal(c)
  <2>1. /\ total' = [total EXCEPT ![Todo(c).item] = call[c].seen]
        /\ Goto(c, "log", NoRow) /\ UNCHANGED <<stock, twins, ledger, moved, papers>>
    BY <1>4 DEF SaveTotal
  <2>2. call[c].seen \in Int
    BY <1>4, <1>seen DEF SaveTotal, SeenAt
  <2>3. TypeOK'
    BY <2>1, <2>2, <1>ok, <1>stand DEF TypeOK, papers
  <2>4. SeenAt("log", call[c].doc, NoRow)
    BY DEF SeenAt
  <2> QED
    BY <2>1, <2>3, <2>4, SeenGoto
<1>5. CASE LogMove(c)
  <2>1. /\ ledger' = [ledger EXCEPT ![Todo(c).item][Todo(c).place] = @ + Todo(c).change]
        /\ call' = [call EXCEPT ![c] = NextMove(c)]
        /\ UNCHANGED <<stock, twins, total, moved, papers>>
    BY <1>5 DEF LogMove
  <2>2. ledger' \in [Items -> [Places -> Int]]
    BY <2>1, <1>m, <1>ok DEF TypeOK
  <2>3. TypeOK'
    BY <2>1, <2>2, <1>ok, <1>stand DEF TypeOK, papers
  <2>4. SeenAt(NextMove(c).at, NextMove(c).doc, NextMove(c).seen)
    <3>call. IsCall(call[c])
      BY DEF TypeInv, MovedInv, Shape
    <3>1. CASE Len(call[c].todo) = 1 /\ call[c].kind # "confirm"
      BY <3>1, IdleIsCall DEF NextMove, After, SeenAt
    <3>2. CASE Len(call[c].todo) = 1 /\ call[c].kind = "confirm"
      <4>1. PICK at \in {"debt", "loadPo", "finish"} :
              /\ NextMove(c) = [call[c] EXCEPT !.todo = <<>>, !.at = at]
              /\ at = "debt" => call[c].doc \in Receipts
        BY <3>2 DEF NextMove, After
      <4>2. NextMove(c).at = at /\ NextMove(c).doc = call[c].doc
        BY <4>1, <3>call, CallTodo
      <4> QED
        BY <4>1, <4>2 DEF SeenAt
    <3>3. CASE Len(call[c].todo) # 1
      <4>1. NextMove(c) = [call[c] EXCEPT !.todo = Tail(call[c].todo), !.at = "load"]
        BY <3>3 DEF NextMove
      <4>2. NextMove(c).at = "load"
        BY <4>1, <3>call, CallTodo
      <4> QED
        BY <4>2 DEF SeenAt
    <3> QED
      BY <3>1, <3>2, <3>3
  <2> QED
    BY <2>1, <2>3, <2>4, SeenKeeps
<1>twins. ASSUME NEW f, \A i \in Items, s \in Suppliers : f[i][s] \in Seq(Int),
                 twins' = [twins EXCEPT ![Todo(c).item][Todo(c).place] = f[Todo(c).item][Todo(c).place]],
                 UNCHANGED <<stock, total, ledger, papers>>
          PROVE  TypeOK'
  <2>1. twins \in [Items -> [Suppliers -> Seq(Int)]]
    BY <1>ok DEF TypeOK
  <2>2. PICK i \in Items, p \in Places : i = Todo(c).item /\ p = Todo(c).place
    BY <1>m
  <2>3. twins' = [twins EXCEPT ![i][p] = f[i][p]]
    BY <1>twins, <2>2
  <2>4. PICK v : v = f[i][p]
    OBVIOUS
  <2>5. p \in Suppliers => v \in Seq(Int)
    BY <2>4, <1>twins
  <2>6. [twins[i] EXCEPT ![p] = v] \in [Suppliers -> Seq(Int)]
    BY <2>1, <2>5
  <2>7. twins' = [twins EXCEPT ![i] = [twins[i] EXCEPT ![p] = v]]
    BY <2>3, <2>4
  <2>8. twins' \in [Items -> [Suppliers -> Seq(Int)]]
    BY <2>1, <2>6, <2>7
  <2> QED
    BY <2>8, <1>twins, <1>ok, <1>stand, <1>moved DEF TypeOK, papers
<1>log. SeenAt("log", call[c].doc, NoRow)
  BY DEF SeenAt
<1>6. CASE InsertTwin(c)
  <2> DEFINE f == [i \in Items |-> [s \in Suppliers |-> Append(twins[i][s], Todo(c).change)]]
  <2>1. \A i \in Items, s \in Suppliers : f[i][s] \in Seq(Int)
    BY <1>ok, <1>m DEF TypeOK
  <2>2. twins' = [twins EXCEPT ![Todo(c).item][Todo(c).place] = f[Todo(c).item][Todo(c).place]]
    BY <1>6, <1>m DEF InsertTwin
  <2>3. TypeOK'
    BY <1>6, <2>1, <2>2, <1>twins DEF InsertTwin
  <2> QED
    BY <1>6, <2>3, <1>log, SeenGoto DEF InsertTwin
<1>7. CASE LoadTwin(c)
  <2>1. PICK n \in DOMAIN twins[Todo(c).item][Todo(c).place] :
          Goto(c, "saveTwin", <<n, twins[Todo(c).item][Todo(c).place][n]>>)
    BY <1>7 DEF LoadTwin
  <2>2. PICK i \in Items, s \in Suppliers : i = Todo(c).item /\ s = Todo(c).place
    BY <1>7, <1>m DEF LoadTwin
  <2>3. twins[i][s] \in Seq(Int)
    BY <1>ok DEF TypeOK
  <2>4. twins[i][s][n] \in Int
    BY <2>1, <2>2, <2>3, SeqElement
  <2>5. SeenAt("saveTwin", call[c].doc, <<n, twins[i][s][n]>>)
    BY <2>4 DEF SeenAt
  <2>6. UNCHANGED <<books, papers>>
    BY <1>7 DEF LoadTwin
  <2> QED
    BY <2>1, <2>2, <2>5, <2>6, <1>stand, TypesKept, SeenGoto
<1>8. CASE SaveTwin(c)
  <2> DEFINE k == call[c].seen[1]
             n == call[c].seen[2] + Todo(c).change
             f == [i \in Items |-> [s \in Suppliers |-> [twins[i][s] EXCEPT ![k] = n]]]
  <2>1. n \in Int
    BY <1>8, <1>seen, <1>m DEF SaveTwin, SeenAt
  <2>2. twins' = [twins EXCEPT ![Todo(c).item][Todo(c).place][k] = n]
    BY <1>8 DEF SaveTwin
  <2> HIDE DEF k, n
  <2>3. \A i \in Items, s \in Suppliers : f[i][s] \in Seq(Int)
    <3> TAKE i \in Items, s \in Suppliers
    <3>1. twins[i][s] \in Seq(Int)
      BY <1>ok DEF TypeOK
    <3>2. [twins[i][s] EXCEPT ![k] = n] \in Seq(Int)
      BY <3>1, <2>1, SavedInSeq
    <3> QED
      BY <3>2
  <2>4. CASE Todo(c).place \in Suppliers
    <3>i. PICK i \in Items, t \in Suppliers : i = Todo(c).item /\ t = Todo(c).place
      BY <1>m, <2>4
    <3>f. f[i][t] = [twins[i][t] EXCEPT ![k] = n]
      OBVIOUS
    <3>t. twins' = [twins EXCEPT ![i][t] = [twins[i][t] EXCEPT ![k] = n]]
      BY <2>2, <3>i
    <3> HIDE DEF f
    <3>1. twins' = [twins EXCEPT ![Todo(c).item][Todo(c).place] = f[Todo(c).item][Todo(c).place]]
      BY <3>i, <3>f, <3>t
    <3>2. TypeOK'
      BY <1>8, <2>3, <3>1, <1>twins DEF SaveTwin
    <3> QED
      BY <1>8, <3>2, <1>log, SeenGoto DEF SaveTwin
  <2>5. CASE Todo(c).place \notin Suppliers
    <3>t. twins \in [Items -> [Suppliers -> Seq(Int)]]
      BY <1>ok DEF TypeOK
    <3>i. PICK i, p : i \in Items /\ i = Todo(c).item /\ p = Todo(c).place
      BY <1>m
    <3>r. PICK v : twins' = [twins EXCEPT ![i] = [twins[i] EXCEPT ![p] = v]]
      BY <2>2, <3>i
    <3>s. [twins[i] EXCEPT ![p] = v] = twins[i]
      BY <3>t, <3>i, <2>5, ExceptOutside
    <3>1. twins' = twins
      BY <3>t, <3>r, <3>s
    <3>2. TypeOK'
      BY <1>8, <3>1, <1>ok, <1>stand, <1>moved DEF SaveTwin, TypeOK, papers
    <3> QED
      BY <1>8, <3>2, <1>log, SeenGoto DEF SaveTwin
  <2> QED
    BY <2>4, <2>5
<1> QED
  BY <1>1, <1>2, <1>3, <1>4, <1>5, <1>6, <1>7, <1>8 DEF MoveStep

LEMMA PoStatusTyped ==
  ASSUME NEW R, NEW was \in PoStatuses PROVE PoStatusFor(R, was) \in PoStatuses
BY DEF PoStatusFor, PoStatuses

LEMMA DocumentTypes == ASSUME TypeInv, MovedInv', NEW c \in Callers, DocumentStep(c) PROVE TypeInv'
<1>0. calls' = calls
  BY DEF DocumentStep, SaveHeader, LoadPo, SaveFee, LoadDebt, SaveDebt, Finish, ReloadPo,
         ReadReceipts, SavePo, SaveDelivered, SaveEdit, LoadReturn, SaveReturn, Delete
<1>seen. SeenAt(call[c].at, call[c].doc, call[c].seen)
  BY DEF TypeInv, SeenTyped
<1>ok. TypeOK
  BY DEF TypeInv
<1>stand. DOMAIN call' = Callers /\ calls' \in 0..MaxCalls
  BY <1>0, CallsStand
<1>set. ASSUME NEW e, NEW new \in Statuses, status' = [status EXCEPT ![e] = new],
               UNCHANGED <<books, debt, poStatus>>
        PROVE  TypeOK'
  <2>1. status' \in [Docs -> Statuses]
    BY <1>set, <1>ok DEF TypeOK, Statuses
  <2> QED
    BY <1>set, <2>1, <1>ok, <1>stand DEF TypeOK, Statuses, books
<1>nothing. \A doc, at : at \in {"load", "loadPo", "finish", "reloadPo", "return", "delete"}
                           => SeenAt(at, doc, NoRow)
  BY DEF SeenAt
<1>1. CASE SaveHeader(c)
  <2>1. Goto(c, "load", NoRow) /\ TypeOK'
    BY <1>1, <1>set DEF SaveHeader, Statuses
  <2> QED
    BY <2>1, <1>nothing, SeenGoto
<1>2. CASE LoadDebt(c)
  <2>1. /\ Goto(c, "saveDebt", debt[SupplierOf[call[c].doc]]) /\ UNCHANGED <<books, papers>>
        /\ call[c].at = "debt"
    BY <1>2 DEF LoadDebt
  <2>2. call[c].doc \in Receipts
    BY <2>1, <1>seen DEF SeenAt
  <2>3. debt[SupplierOf[call[c].doc]] \in Int
    BY <2>2, <1>ok, SuppliersAssumption DEF TypeOK
  <2>4. SeenAt("saveDebt", call[c].doc, debt[SupplierOf[call[c].doc]])
    BY <2>2, <2>3 DEF SeenAt
  <2> QED
    BY <2>1, <2>4, <1>stand, TypesKept, SeenGoto
<1>3. CASE SaveDebt(c)
  <2>1. /\ debt' = [debt EXCEPT ![SupplierOf[call[c].doc]] = call[c].seen + OrderedQty(call[c].doc)]
        /\ Goto(c, "loadPo", NoRow) /\ UNCHANGED <<books, status, poStatus>>
        /\ call[c].at = "saveDebt"
    BY <1>3 DEF SaveDebt
  <2>2. call[c].doc \in Docs /\ call[c].seen \in Int
    BY <2>1, <1>seen DEF SeenAt, Docs
  <2>3. call[c].seen + OrderedQty(call[c].doc) \in Int
    BY <2>2, OrderedTyped
  <2>4. debt' \in [Suppliers -> Int]
    BY <2>1, <2>3, <1>ok DEF TypeOK
  <2>5. TypeOK'
    BY <2>1, <2>4, <1>ok, <1>stand DEF TypeOK, books
  <2> QED
    BY <2>1, <2>5, <1>nothing, SeenGoto
<1>4. CASE LoadPo(c) \/ ReloadPo(c)
  <2>1. PICK at \in {"saveFee", "readReceipts"} : Goto(c, at, poStatus) /\ UNCHANGED <<books, papers>>
    BY <1>4 DEF LoadPo, ReloadPo
  <2>2. SeenAt(at, call[c].doc, poStatus)
    BY <1>ok DEF SeenAt, TypeOK, PoStatuses
  <2> QED
    BY <2>1, <2>2, <1>stand, TypesKept, SeenGoto
<1>5. CASE SaveFee(c)
  <2>1. /\ poStatus' = call[c].seen /\ Goto(c, "finish", NoRow) /\ UNCHANGED <<books, status, debt>>
        /\ call[c].at = "saveFee"
    BY <1>5 DEF SaveFee
  <2>2. poStatus' \in PoStatuses
    BY <2>1, <1>seen DEF SeenAt
  <2>3. TypeOK'
    BY <2>1, <2>2, <1>ok, <1>stand DEF TypeOK, books, PoStatuses
  <2> QED
    BY <2>1, <2>3, <1>nothing, SeenGoto
<1>6. CASE Finish(c)
  <2>1. PICK new \in {"COMPLETED", "SHIPPED", "CONFIRMED"} :
          status' = [status EXCEPT ![call[c].doc] = new]
    BY <1>6 DEF Finish
  <2>2. TypeOK'
    BY <1>6, <2>1, <1>set DEF Finish, Statuses
  <2>3. Goto(c, "reloadPo", NoRow) \/ End(c)
    BY <1>6 DEF Finish
  <2> QED
    BY <2>2, <2>3, <1>nothing, SeenGoto, SeenEnd
<1>7. CASE ReadReceipts(c)
  <2>1. /\ Goto(c, "savePo", PoStatusFor(Completed, call[c].seen)) /\ UNCHANGED <<books, papers>>
        /\ call[c].at = "readReceipts"
    BY <1>7 DEF ReadReceipts
  <2>2. PoStatusFor(Completed, call[c].seen) \in PoStatuses
    BY <2>1, <1>seen, PoStatusTyped DEF SeenAt
  <2>3. SeenAt("savePo", call[c].doc, PoStatusFor(Completed, call[c].seen))
    BY <2>2 DEF SeenAt
  <2> QED
    BY <2>1, <2>3, <1>stand, TypesKept, SeenGoto
<1>8. CASE SavePo(c)
  <2>1. /\ poStatus' = call[c].seen /\ End(c) /\ UNCHANGED <<books, status, debt>>
        /\ call[c].at = "savePo"
    BY <1>8 DEF SavePo
  <2>2. poStatus' \in PoStatuses
    BY <2>1, <1>seen DEF SeenAt
  <2>3. TypeOK'
    BY <2>1, <2>2, <1>ok, <1>stand DEF TypeOK, books, PoStatuses
  <2> QED
    BY <2>1, <2>3, SeenEnd
<1>9. CASE SaveDelivered(c) \/ Delete(c)
  <2>1. PICK new \in {"DELIVERED", "DELETED"} : status' = [status EXCEPT ![call[c].doc] = new]
    BY <1>9 DEF SaveDelivered, Delete
  <2>2. TypeOK' /\ End(c)
    BY <1>9, <2>1, <1>set DEF SaveDelivered, Delete, Statuses
  <2> QED
    BY <2>2, SeenEnd
<1>10. CASE SaveEdit(c)
  <2>1. call[c].seen \in Statuses
    BY <1>10, <1>seen DEF SaveEdit, SeenAt
  <2>2. TypeOK' /\ End(c)
    BY <1>10, <2>1, <1>set DEF SaveEdit
  <2> QED
    BY <2>2, SeenEnd
<1>11. CASE LoadReturn(c)
  <2>1. Goto(c, "saveReturn", total[Todo(c).item]) /\ UNCHANGED <<books, papers>>
    BY <1>11 DEF LoadReturn
  <2>2. call[c].todo # <<>>
    BY <1>11, CallFacts DEF LoadReturn, EnoughAt, TypeInv
  <2>3. total[Todo(c).item] \in Int
    BY <2>2, <1>ok, TodoTyped DEF TypeOK
  <2>4. SeenAt("saveReturn", call[c].doc, total[Todo(c).item])
    BY <2>3 DEF SeenAt
  <2> QED
    BY <2>1, <2>4, <1>stand, TypesKept, SeenGoto
<1>12. CASE SaveReturn(c)
  <2> DEFINE at == IF Len(call[c].todo) = 1 THEN "delete" ELSE "return"
             next == [call[c] EXCEPT !.todo = Tail(@), !.at = at]
  <2>1. /\ call[c].at = "saveReturn" /\ call' = [call EXCEPT ![c] = next]
        /\ total' = [total EXCEPT ![Todo(c).item] = call[c].seen + Todo(c).change]
        /\ UNCHANGED <<stock, twins, ledger, moved, papers>>
    BY <1>12 DEF SaveReturn
  <2>2. call[c].todo # <<>> /\ IsCall(call[c])
    BY <2>1, CallFacts DEF EnoughAt, TypeInv
  <2>3. call[c].seen + Todo(c).change \in Int
    BY <2>1, <2>2, <1>seen, TodoTyped DEF SeenAt
  <2>4. TypeOK'
    BY <2>1, <2>3, <1>ok, <1>stand DEF TypeOK, papers
  <2>5. next = [call[c] EXCEPT !.todo = Tail(call[c].todo), !.at = at] /\ at \in {"delete", "return"}
    OBVIOUS
  <2> HIDE DEF next, at
  <2>6. next.at = at
    BY <2>2, <2>5, CallTodo
  <2>7. SeenAt(next.at, next.doc, next.seen)
    BY <2>5, <2>6 DEF SeenAt
  <2> QED
    BY <2>1, <2>4, <2>7, SeenKeeps
<1> QED
  BY <1>1, <1>2, <1>3, <1>4, <1>5, <1>6, <1>7, <1>8, <1>9, <1>10, <1>11, <1>12 DEF DocumentStep

LEMMA ResetTypes == ASSUME TypeInv, MovedInv', NEW c \in Callers, ResetStep(c) PROVE TypeInv'
<1>ok. TypeOK
  BY DEF TypeInv
<1>0. calls' = calls
  BY DEF ResetStep, ClearHistory, ClearStock, ClearTotal
<1>stand. DOMAIN call' = Callers /\ calls' \in 0..MaxCalls
  BY <1>0, CallsStand
<1>nothing. \A doc, at : at \in {"clearStock", "clearTotal"} => SeenAt(at, doc, NoRow)
  BY DEF SeenAt
<1>1. CASE ClearHistory(c)
  <2>1. Emptied(ledger, 0) \in [Items -> [Places -> Int]]
    BY <1>ok DEF Emptied, TypeOK
  <2>2. Goto(c, "clearStock", NoRow) /\ TypeOK'
    BY <1>1, <2>1, <1>ok, <1>stand DEF ClearHistory, TypeOK, papers
  <2> QED
    BY <2>2, <1>nothing, SeenGoto
<1>2. CASE ClearStock(c)
  <2>1. Emptied(stock, NoRow) \in [Items -> [Places -> Quantity]]
    BY <1>ok DEF Emptied, TypeOK, Quantity
  <2>2. Goto(c, "clearTotal", NoRow) /\ TypeOK'
    BY <1>2, <2>1, <1>ok, <1>stand DEF ClearStock, TypeOK, papers
  <2> QED
    BY <2>2, <1>nothing, SeenGoto
<1>3. CASE ClearTotal(c)
  <2>1. End(c) /\ TypeOK'
    BY <1>3, <1>ok, <1>stand DEF ClearTotal, TypeOK, papers
  <2> QED
    BY <2>1, SeenEnd
<1> QED
  BY <1>1, <1>2, <1>3 DEF ResetStep

LEMMA TypeStep == TypeInv /\ [Next]_vars => TypeInv'
<1> SUFFICES ASSUME TypeInv, [Next]_vars PROVE TypeInv'
  OBVIOUS
<1>0. MovedInv'
  BY MovedStep DEF TypeInv
<1>1. ASSUME NEW c \in Callers, Fail(c) PROVE TypeInv'
  <2>1. End(c) /\ UNCHANGED <<books, papers>> /\ calls' = calls
    BY <1>1 DEF Fail
  <2> QED
    BY <2>1, <1>0, CallsStand, TypesKept, SeenEnd
<1>2. CASE UNCHANGED vars
  BY <1>0, <1>2 DEF vars, TypeInv, TypeOK, SeenTyped
<1> QED
  BY <1>0, <1>1, <1>2, RequestTyped, MoveTypes, DocumentTypes, ResetTypes DEF Next

\* Whatever requests overlap and fail, balances, totals and debts are numbers and documents and
\* the order have statuses that exist: nothing read before another request wrote it, and nothing
\* summed, makes a later save store anything else.
THEOREM StockTyped == Spec => []TypeOK
<1>1. TypeInv => TypeOK
  BY DEF TypeInv
<1> QED
  BY TypeInit, TypeStep, <1>1, PTL DEF Spec

-----------------------------------------------------------------------------
(* One request after another *)

\* The kinds of request that keep the books: the others return no stock, or give a status that
\* nothing moved for.
Plain == {"adjust", "transfer", "convert", "confirm", "reset"}

\* c is the only caller, none of its statements fails, and its requests are plain ones.
Serial(c) == Callers = {c} /\ ~MayFail /\ Kinds \subseteq Plain

Clearing == {"clearHistory", "clearStock", "clearTotal"}
Late == {"reloadPo", "readReceipts", "savePo"}
Raised == {"loadPo", "saveFee", "finish"}
Ordering == {"debt", "saveDebt", "loadPo", "saveFee"} \cup Late

\* Where a plain request may be, and with what.
PlainAt(r) ==
  /\ r.at \in {"idle", "header", "load", "save"} \cup Between \cup AfterMoves \cup Ordering \cup Clearing
  /\ r.doc \in Docs <=> r.kind = "confirm"
  /\ r.at \in {"header"} \cup AfterMoves \cup Ordering => r.doc \in Docs
  /\ r.at \in Ordering => r.doc \in Receipts
  /\ r.at \in {"idle"} \cup Clearing => r.doc \notin Docs

\* A supplier has one row of a material: the second insert takes two requests.
NoTwins == \A i \in Items, s \in Suppliers : twins[i][s] = <<>>
RowsMatch == \A i \in Items, p \in Places : Qty(stock[i][p]) = ledger[i][p]
PlainMove(c) == LoadRow(c) \/ SaveRow(c) \/ SumRows(c) \/ SaveTotal(c) \/ LogMove(c)

\* The history explains the balances, but for the move m that was saved and not yet logged.
LedgerBut(m) ==
  \A i \in Items, p \in Places :
    Qty(stock[i][p]) = ledger[i][p] + (IF i = m.item /\ p = m.place THEN m.change ELSE 0)

\* The move in hand.
Hand(r) == Head(r.todo)

\* What holds of the books between two statements of the request r.
BooksAt(r) ==
  /\ r.at \notin Between \cup {"clearStock", "clearTotal"} => RowsMatch /\ TotalIsExact
  /\ r.at = "save" => r.seen = stock[Hand(r).item][Hand(r).place]
  /\ r.at \in Between => LedgerBut(Hand(r))
  /\ r.at \in {"sum", "total"} => \A i \in Items : i # Hand(r).item => total[i] = SumOf(i)
  /\ r.at = "total" => r.seen = SumOf(Hand(r).item)
  /\ r.at = "log" => TotalIsExact
  /\ r.at = "clearStock" => \A i \in Items, p \in Places :
       ledger[i][p] = IF p \in Warehouses THEN 0 ELSE Qty(stock[i][p])
  /\ r.at = "clearTotal" => RowsMatch /\ \A i \in Items, p \in Warehouses : stock[i][p] = NoRow

\* What holds of the documents: each but that of r is settled, and that of r has made the moves
\* that are no longer to make.
Settled(d) == status[d] # "DELETED" => moved[d] = IF Done(d) THEN Len(Moves(d)) ELSE 0
DocsAt(r) ==
  /\ \A d \in Docs : d # r.doc \/ r.at \in Late => Settled(d)
  /\ r.doc \in Docs =>
       /\ r.at \in Before \cup Between \cup AfterMoves => status[r.doc] = "DRAFT"
       /\ r.at \in Before => moved[r.doc] + Len(r.todo) = Len(Moves(r.doc))
       /\ r.at \in Between => moved[r.doc] + Len(r.todo) = Len(Moves(r.doc)) + 1
       /\ r.at \in AfterMoves => moved[r.doc] = Len(Moves(r.doc))

\* What holds of the debts and of the status of the order: a debt is raised before its receipt is
\* completed, and the order follows after.
From(s) == {d \in Completed : SupplierOf[d] = s}
Owed(d) == \A s \in Suppliers :
  debt[s] = Received(From(s)) + (IF d \in Receipts /\ SupplierOf[d] = s THEN OrderedQty(d) ELSE 0)
NobodyElse == \A s \in Suppliers : debt[s] = Received(From(s))
StatusIsRight ==
  poStatus = IF Completed = {} THEN "ORDERED" ELSE PoStatusFor(Completed, "ORDERED")
\* The completed receipts make the same of this status as of an order that is not delivered.
StatusFits(was) == PoStatusFor(Completed, was) = PoStatusFor(Completed, "ORDERED")
OrderAt(r) ==
  /\ r.at \notin Raised => NobodyElse
  /\ r.at = "saveDebt" => r.seen = debt[SupplierOf[r.doc]]
  /\ r.at \in Raised => Owed(r.doc)
  /\ r.at = "saveFee" => r.seen = poStatus
  /\ r.at \notin Late => StatusIsRight
  /\ r.at \in Late => Completed # {}
  /\ r.at = "reloadPo" => StatusFits(poStatus)
  /\ r.at = "readReceipts" => StatusFits(r.seen)
  /\ r.at = "savePo" => r.seen = PoStatusFor(Completed, "ORDERED")

SerialInv(c) ==
  /\ TypeInv /\ PlainAt(call[c]) /\ NoTwins
  /\ BooksAt(call[c]) /\ DocsAt(call[c]) /\ OrderAt(call[c])

\* The record of the request after its step.
LEMMA GotoFields ==
  ASSUME TypeInv, NEW c \in Callers, NEW at, NEW seen, Goto(c, at, seen)
  PROVE  /\ call'[c].kind = call[c].kind /\ call'[c].doc = call[c].doc
         /\ call'[c].todo = call[c].todo /\ call'[c].at = at /\ call'[c].seen = seen
<1> DEFINE r == [call[c] EXCEPT !.at = at, !.seen = seen]
<1>1. IsCall(call[c])
  BY DEF TypeInv, MovedInv, Shape
<1>2. r = [kind |-> call[c].kind, doc |-> call[c].doc, at |-> at, todo |-> call[c].todo,
           seen |-> seen]
  BY <1>1, CallExcept
<1>3. call'[c] = r
  BY DEF Goto, TypeInv, MovedInv, Shape
<1> HIDE DEF r
<1> QED
  BY <1>2, <1>3

LEMMA EndFields ==
  ASSUME TypeInv, NEW c \in Callers, End(c)
  PROVE  call'[c] = Idle /\ Idle.at = "idle" /\ Idle.kind = "none" /\ Idle.doc \notin Docs
<1>1. call'[c] = Idle
  BY DEF End, TypeInv, MovedInv, Shape
<1>2. Idle.at = "idle" /\ Idle.kind = "none" /\ Idle.doc = "none"
  BY DEF Idle, NoDoc
<1> QED
  BY <1>1, <1>2, DocsAssumption

LEMMA BeginFields ==
  ASSUME TypeInv, NEW c \in Callers, NEW kind, NEW d, NEW at, NEW todo, NEW seen,
         Begin(c, kind, d, at, todo, seen)
  PROVE  /\ call'[c].kind = kind /\ call'[c].doc = d /\ call'[c].at = at
         /\ call'[c].todo = todo /\ call'[c].seen = seen /\ kind \in Kinds
         /\ call[c].at = "idle" /\ call[c].doc \notin Docs /\ UNCHANGED <<books, papers>>
<1>1. call'[c] = [kind |-> kind, doc |-> d, at |-> at, todo |-> todo, seen |-> seen]
  BY DEF Begin, TypeInv, MovedInv, Shape
<1>2. call[c] = Idle /\ kind \in Kinds /\ UNCHANGED <<books, papers>>
  BY DEF Begin
<1>3. Idle.at = "idle" /\ Idle.doc = "none"
  BY DEF Idle, NoDoc
<1> QED
  BY <1>1, <1>2, <1>3, DocsAssumption

\* A plain request begins in one of three ways.
LEMMA PlainBegins ==
  ASSUME TypeInv, NEW c \in Callers, Serial(c), Request(c)
  PROVE  /\ call[c].at = "idle" /\ call[c].doc \notin Docs /\ UNCHANGED <<books, papers>>
         /\ \/ call'[c].at = "load" /\ call'[c].doc \notin Docs /\ call'[c].kind # "confirm"
            \/ /\ call'[c].at \in {"header", "load"} /\ call'[c].kind = "confirm"
               /\ call'[c].doc \in Docs /\ status[call'[c].doc] = "DRAFT"
               /\ call'[c].todo = Moves(call'[c].doc)
            \/ call'[c].at = "clearHistory" /\ call'[c].doc \notin Docs /\ call'[c].kind = "reset"
<1>kinds. Kinds \subseteq Plain
  BY DEF Serial
<1>none. NoDoc \notin Docs
  BY DocsAssumption DEF NoDoc
<1>1. CASE Adjust(c) \/ Transfer(c) \/ ConvertBtp(c)
  <2>1. ASSUME NEW kind \in {"adjust", "transfer", "convert"}, NEW todo,
               Begin(c, kind, NoDoc, "load", todo, NoRow)
        PROVE  call[c].at = "idle" /\ call[c].doc \notin Docs /\ UNCHANGED <<books, papers>>
               /\ call'[c].at = "load" /\ call'[c].doc \notin Docs /\ call'[c].kind # "confirm"
    BY <2>1, <1>none, BeginFields
  <2>2. CASE Adjust(c)
    BY <2>1, <2>2 DEF Adjust
  <2>3. CASE Transfer(c)
    BY <2>1, <2>3 DEF Transfer
  <2>4. CASE ConvertBtp(c)
    BY <2>1, <2>4 DEF ConvertBtp
  <2> QED
    BY <1>1, <2>2, <2>3, <2>4
<1>2. CASE Confirm(c)
  <2>1. PICK d \in Docs, at \in {"header", "load"} :
          Begin(c, "confirm", d, at, Moves(d), NoRow) /\ status[d] = "DRAFT"
    BY <1>2 DEF Confirm, Open
  <2> QED
    BY <2>1, BeginFields
<1>3. CASE Reset(c)
  <2>1. Begin(c, "reset", NoDoc, "clearHistory", <<>>, NoRow)
    BY <1>3 DEF Reset
  <2> QED
    BY <2>1, <1>none, BeginFields
<1>4. CASE DeliverIssue(c) \/ EditIssue(c) \/ MailDelivery(c) \/ UpdateDelivery(c)
           \/ DeleteReceipt(c) \/ DeleteIssue(c)
  <2>1. PICK kind \in {"deliver", "edit", "mail", "delete"} : kind \in Kinds
    BY <1>4 DEF DeliverIssue, EditIssue, MailDelivery, UpdateDelivery, DeleteReceipt, DeleteIssue,
       Begin
  <2> QED
    BY <2>1, <1>kinds DEF Plain
<1> QED
  BY <1>1, <1>2, <1>3, <1>4 DEF Request

\* After a move was logged there is a next one, or the request ends, or it goes on to its document.
LEMMA LogFields ==
  ASSUME TypeInv, NEW c \in Callers, LogMove(c)
  PROVE  \/ /\ Len(call[c].todo) = 1 /\ call[c].kind # "confirm" /\ call'[c] = Idle
         \/ /\ Len(call[c].todo) = 1 /\ call[c].kind = "confirm" /\ call'[c].kind = "confirm"
            /\ call'[c].doc = call[c].doc
            /\ \/ call'[c].at = "finish" /\ call[c].doc \notin Receipts
               \/ call'[c].at = "debt" /\ call[c].doc \in Receipts
               \/ /\ call'[c].at = "loadPo" /\ call[c].doc \in Receipts
                  /\ ~(OrderedQty(call[c].doc) > 0)
         \/ /\ Len(call[c].todo) # 1 /\ call'[c].kind = call[c].kind /\ call'[c].at = "load"
            /\ call'[c].doc = call[c].doc /\ call'[c].todo = Tail(call[c].todo)
            /\ Len(call'[c].todo) = Len(call[c].todo) - 1
<1>call. IsCall(call[c]) /\ call'[c] = NextMove(c)
  BY DEF TypeInv, MovedInv, Shape, LogMove
<1>1. CASE Len(call[c].todo) = 1 /\ call[c].kind # "confirm"
  BY <1>1, <1>call DEF NextMove, After
<1>2. CASE Len(call[c].todo) = 1 /\ call[c].kind = "confirm"
  <2>1. PICK at :
          /\ NextMove(c) = [call[c] EXCEPT !.todo = <<>>, !.at = at]
          /\ \/ at = "finish" /\ call[c].doc \notin Receipts
             \/ at = "debt" /\ call[c].doc \in Receipts
             \/ at = "loadPo" /\ call[c].doc \in Receipts /\ ~(OrderedQty(call[c].doc) > 0)
    BY <1>2 DEF NextMove, After
  <2>2. NextMove(c) = [kind |-> call[c].kind, doc |-> call[c].doc, at |-> at, todo |-> <<>>,
                       seen |-> call[c].seen]
    BY <2>1, <1>call, CallTodo
  <2>3. /\ NextMove(c).at = at /\ NextMove(c).doc = call[c].doc
        /\ NextMove(c).kind = call[c].kind
    BY <2>2
  <2> QED
    BY <1>2, <2>1, <2>3, <1>call
<1>3. CASE Len(call[c].todo) # 1
  <2>1. NextMove(c) = [call[c] EXCEPT !.todo = Tail(call[c].todo), !.at = "load"]
    BY <1>3 DEF NextMove
  <2>2. NextMove(c) = [kind |-> call[c].kind, doc |-> call[c].doc, at |-> "load",
                       todo |-> Tail(call[c].todo), seen |-> call[c].seen]
    BY <2>1, <1>call, CallTodo
  <2>4. /\ NextMove(c).at = "load" /\ NextMove(c).doc = call[c].doc
        /\ NextMove(c).kind = call[c].kind /\ NextMove(c).todo = Tail(call[c].todo)
    BY <2>2
  <2>3. call[c].todo \in Seq(AllMoves) /\ call[c].todo # <<>>
    BY CallFacts DEF TypeInv, LogMove, EnoughAt, Between, IsCall
  <2> QED
    BY <1>3, <2>4, <2>3, <1>call, TailFacts
<1> QED
  BY <1>1, <1>2, <1>3

\* No statement fails: the row that is saved was not there, or was loaded.
LEMMA NothingFails ==
  ASSUME TypeInv, NEW c \in Callers, Serial(c), BooksAt(call[c]) PROVE ~Fail(c)
BY DEF Fail, Serial, InsertClash, InsertTwice, BooksAt, Hand, Todo

LEMMA IdleIsPlain == PlainAt(Idle)
BY IdleIsCall, DocsAssumption
   DEF PlainAt, Idle, NoDoc, Before, Between, AfterMoves, Ordering, Late, Clearing

LEMMA PlainStep ==
  ASSUME TypeInv, NEW c \in Callers, Serial(c), PlainAt(call[c]), BooksAt(call[c]),
         Request(c) \/ PlainMove(c) \/ DocumentStep(c) \/ ResetStep(c) \/ Fail(c)
  PROVE  PlainAt(call'[c])
<1> USE DEF Before, Between, AfterMoves, Ordering, Late, Clearing
<1>kind. call[c].doc \in Docs <=> call[c].kind = "confirm"
  BY DEF PlainAt
<1>1. CASE Request(c)
  BY <1>1, PlainBegins DEF PlainAt
<1>2. CASE LogMove(c)
  <2>at. call[c].at = "log"
    BY <1>2 DEF LogMove
  <2>1. CASE call'[c] = Idle
    BY <2>1, IdleIsPlain
  <2>2. CASE /\ call'[c].kind = call[c].kind /\ call'[c].doc = call[c].doc
             /\ \/ call'[c].at = "load"
                \/ call[c].kind = "confirm" /\ call'[c].at = "finish"
                \/ call'[c].at \in {"debt", "loadPo"} /\ call[c].doc \in Receipts
    BY <2>2, <1>kind DEF PlainAt, Docs
  <2> QED
    BY <1>2, <2>1, <2>2, LogFields
<1>3. ASSUME NEW at, NEW seen, Goto(c, at, seen),
             \/ call[c].at = "header" /\ at = "load"
             \/ call[c].at = "load" /\ at = "save"
             \/ call[c].at = "save" /\ at \in {"sum", "log"}
             \/ call[c].at = "sum" /\ at = "total"
             \/ call[c].at = "total" /\ at = "log"
             \/ call[c].at = "debt" /\ at = "saveDebt"
             \/ call[c].at = "saveDebt" /\ at = "loadPo"
             \/ call[c].at = "loadPo" /\ at = "saveFee"
             \/ call[c].at = "saveFee" /\ at = "finish"
             \/ call[c].at = "reloadPo" /\ at = "readReceipts"
             \/ call[c].at = "readReceipts" /\ at = "savePo"
             \/ call[c].at = "finish" /\ at = "reloadPo" /\ call[c].doc \in Receipts
             \/ call[c].at = "clearHistory" /\ at = "clearStock"
             \/ call[c].at = "clearStock" /\ at = "clearTotal"
      PROVE  PlainAt(call'[c])
  BY <1>3, <1>kind, GotoFields DEF PlainAt, Docs
<1>4. ASSUME End(c) PROVE PlainAt(call'[c])
  BY <1>4, EndFields, IdleIsPlain
<1>5. CASE LoadRow(c) \/ SaveRow(c) \/ SumRows(c) \/ SaveTotal(c)
  <2>1. PICK at, seen :
          /\ Goto(c, at, seen)
          /\ \/ call[c].at = "load" /\ at = "save"
             \/ call[c].at = "save" /\ at \in {"sum", "log"}
             \/ call[c].at = "sum" /\ at = "total"
             \/ call[c].at = "total" /\ at = "log"
    BY <1>5 DEF LoadRow, SaveRow, SumRows, SaveTotal
  <2> QED
    BY <2>1, <1>3
<1>6. CASE SaveHeader(c) \/ LoadPo(c) \/ SaveFee(c) \/ LoadDebt(c) \/ SaveDebt(c)
           \/ ReloadPo(c) \/ ReadReceipts(c)
  BY <1>6, <1>3 DEF SaveHeader, LoadPo, SaveFee, LoadDebt, SaveDebt, ReloadPo, ReadReceipts
<1>7. CASE Finish(c)
  BY <1>7, <1>3, <1>4 DEF Finish
<1>8. CASE SavePo(c)
  BY <1>8, <1>4 DEF SavePo
<1>9. CASE SaveDelivered(c) \/ SaveEdit(c) \/ LoadReturn(c) \/ SaveReturn(c) \/ Delete(c)
  BY <1>9 DEF SaveDelivered, SaveEdit, LoadReturn, SaveReturn, Delete, PlainAt
<1>10. CASE ResetStep(c)
  BY <1>10, <1>3, <1>4 DEF ResetStep, ClearHistory, ClearStock, ClearTotal
<1>11. CASE Fail(c)
  BY <1>11, <1>4 DEF Fail
<1> QED
  BY <1>1, <1>2, <1>5, <1>6, <1>7, <1>8, <1>9, <1>10, <1>11 DEF PlainMove, DocumentStep

-----------------------------------------------------------------------------
(* The books of serial requests *)

\* The sum of an item whose counted rows stay, and of one that has no stock in them.
LEMMA SumOfKept ==
  ASSUME TypeOK, NEW i \in Items, \A p \in Counted : stock'[i][p] = stock[i][p]
  PROVE  SumOf(i)' = SumOf(i)
<1> DEFINE f == [p \in Counted |-> Qty(stock[i][p])]
           g == [p \in Counted |-> Qty(stock'[i][p])]
<1>1. \A p \in Counted : f[p] \in Int /\ f[p] = g[p]
  BY QtyTyped, CountedFacts DEF TypeOK
<1> HIDE DEF f, g
<1>2. Sum(f, Counted) = Sum(g, Counted)
  BY <1>1, CountedFacts, SumSame
<1> QED
  BY <1>2 DEF SumOf, f, g

LEMMA SumOfNothing ==
  ASSUME NEW i \in Items, \A p \in Counted : stock[i][p] = NoRow
  PROVE  SumOf(i) = 0
<1> DEFINE f == [p \in Counted |-> Qty(stock[i][p])]
<1>1. \A p \in Counted : f[p] \in Int /\ f[p] = 0
  BY DEF Qty
<1> HIDE DEF f
<1>2. Sum(f, Counted) = Sum(f, {})
  BY <1>1, CountedFacts, SumWithin
<1>3. Sum(f, {}) = 0
  BY SumEmpty
<1> QED
  BY <1>2, <1>3 DEF SumOf, f

LEMMA CountedPlaces == Counted \subseteq Warehouses /\ Counted \cap Suppliers = {}
BY SuppliersAssumption DEF Counted

\* The books are in order and stay as they are.
LEMMA BooksFrame ==
  ASSUME TypeOK, NEW c \in Callers, RowsMatch, TotalIsExact, UNCHANGED <<stock, total, ledger>>,
         call'[c].at \notin Between \cup {"save", "clearStock", "clearTotal"}
  PROVE  BooksAt(call[c])'
<1>1. \A i \in Items : SumOf(i)' = SumOf(i)
  BY SumOfKept
<1>2. RowsMatch' /\ TotalIsExact'
  BY <1>1 DEF RowsMatch, TotalIsExact
<1> QED
  BY <1>2 DEF BooksAt, Between

LEMMA BooksInit == ASSUME NEW c \in Callers, Init PROVE BooksAt(call[c])
<1>1. call[c] = Idle /\ Idle.at = "idle"
  BY IdleIsCall DEF Init
<1>2. \A i \in Items : SumOf(i) = 0
  BY SumOfNothing, CountedFacts DEF Init
<1>3. RowsMatch /\ TotalIsExact
  BY <1>2 DEF Init, RowsMatch, TotalIsExact, Qty
<1> QED
  BY <1>1, <1>3 DEF BooksAt, Between

\* A move is saved: the history lacks that move alone, and the total of that item alone may be old.
LEMMA SaveRowBooks ==
  ASSUME TypeInv, NEW c \in Callers, PlainAt(call[c]), BooksAt(call[c]), SaveRow(c)
  PROVE  BooksAt(call[c])'
<1> DEFINE m == Todo(c)
<1>m. m.item \in Items /\ m.place \in Places /\ m.change \in Int
  BY CallFacts, TodoTyped DEF TypeInv, SaveRow, EnoughAt, Before
<1>types. stock \in [Items -> [Places -> Quantity]] /\ ledger \in [Items -> [Places -> Int]]
  BY DEF TypeInv, TypeOK
<1>1. PICK i, p, n : i = m.item /\ p = m.place /\ n = m.change
  OBVIOUS
<1>typed. i \in Items /\ p \in Places /\ n \in Int
  BY <1>m, <1>1
<1>2. PICK q : q = Qty(stock[i][p]) + n
  OBVIOUS
<1>3. /\ stock' = [stock EXCEPT ![i][p] = q] /\ total' = total /\ ledger' = ledger
      /\ RowsMatch /\ TotalIsExact
  BY <1>1, <1>2 DEF SaveRow, BooksAt, Hand, Todo, Between, papers
<1>4. q \in Int /\ Qty(q) = q
  BY <1>2, <1>types, <1>typed, QtyTyped, NoRowAssumption DEF Qty
<1>5. \A j \in Items, w \in Places : stock'[j][w] = IF j = i /\ w = p THEN q ELSE stock[j][w]
  BY <1>3, <1>types, <1>typed
<1>6. \A j \in Items, w \in Places :
        Qty(stock'[j][w]) = ledger'[j][w] + (IF j = i /\ w = p THEN n ELSE 0)
  <2> TAKE j \in Items, w \in Places
  <2>1. Qty(stock[j][w]) = ledger[j][w] /\ ledger[j][w] \in Int
    BY <1>3, <1>types DEF RowsMatch
  <2>2. CASE j = i /\ w = p
    BY <2>1, <2>2, <1>2, <1>3, <1>4, <1>5, <1>typed
  <2>3. CASE ~(j = i /\ w = p)
    BY <2>1, <2>3, <1>3, <1>5
  <2> QED
    BY <2>2, <2>3
<1>7. \A j \in Items : j # i \/ p \in Suppliers => total'[j] = SumOf(j)'
  <2> SUFFICES ASSUME NEW j \in Items, j # i \/ p \in Suppliers PROVE total'[j] = SumOf(j)'
    OBVIOUS
  <2>1. \A w \in Counted : stock'[j][w] = stock[j][w]
    BY <1>5, CountedFacts, CountedPlaces
  <2>2. SumOf(j)' = SumOf(j)
    BY <2>1, SumOfKept DEF TypeInv
  <2> QED
    BY <2>2, <1>3 DEF TotalIsExact
<1>8. PICK at : Goto(c, at, NoRow) /\ at = IF p \in Suppliers THEN "log" ELSE "sum"
  BY <1>1 DEF SaveRow
<1>9. call'[c].at = at /\ call'[c].todo = call[c].todo
  BY <1>8, GotoFields
<1>10. LedgerBut(Hand(call[c]))'
  BY <1>6, <1>9, <1>1 DEF LedgerBut, Hand, Todo
<1>11. at = "log" => TotalIsExact'
  BY <1>7, <1>8 DEF TotalIsExact
<1>12. at = "sum" => \A j \in Items : j # Hand(call'[c]).item => total'[j] = SumOf(j)'
  BY <1>7, <1>9, <1>1 DEF Hand, Todo
<1> QED
  BY <1>8, <1>9, <1>10, <1>11, <1>12 DEF BooksAt, Between

LEMMA SaveTotalBooks ==
  ASSUME TypeInv, NEW c \in Callers, PlainAt(call[c]), BooksAt(call[c]), SaveTotal(c)
  PROVE  BooksAt(call[c])'
<1>1. Todo(c).item \in Items
  BY CallFacts, TodoTyped DEF TypeInv, SaveTotal, EnoughAt, Between
<1>2. PICK i, n : i \in Items /\ i = Todo(c).item /\ n = call[c].seen
  BY <1>1
<1>3. /\ total' = [total EXCEPT ![i] = n] /\ UNCHANGED <<stock, ledger>>
      /\ Goto(c, "log", NoRow) /\ call[c].at = "total"
  BY <1>2 DEF SaveTotal
<1>4. /\ n = SumOf(i) /\ \A j \in Items : j # i => total[j] = SumOf(j)
      /\ LedgerBut(Hand(call[c]))
  BY <1>2, <1>3 DEF BooksAt, Hand, Todo, Between
<1>5. call'[c].at = "log" /\ call'[c].todo = call[c].todo
  BY <1>3, GotoFields
<1>6. \A j \in Items : SumOf(j)' = SumOf(j)
  BY <1>3, SumOfKept DEF TypeInv
<1>7. TotalIsExact'
  BY <1>3, <1>4, <1>6 DEF TotalIsExact, TypeInv, TypeOK
<1>8. LedgerBut(Hand(call[c]))'
  BY <1>3, <1>4, <1>5 DEF LedgerBut, Hand
<1> QED
  BY <1>5, <1>7, <1>8 DEF BooksAt, Between

LEMMA LogMoveBooks ==
  ASSUME TypeInv, NEW c \in Callers, PlainAt(call[c]), BooksAt(call[c]), LogMove(c)
  PROVE  BooksAt(call[c])'
<1>1. Todo(c).item \in Items /\ Todo(c).place \in Places /\ Todo(c).change \in Int
  BY CallFacts, TodoTyped DEF TypeInv, LogMove, EnoughAt, Between
<1>2. PICK i \in Items, p \in Places, n \in Int :
        i = Todo(c).item /\ p = Todo(c).place /\ n = Todo(c).change
  BY <1>1
<1>types. stock \in [Items -> [Places -> Quantity]] /\ ledger \in [Items -> [Places -> Int]]
  BY DEF TypeInv, TypeOK
<1>3. PICK q : q = ledger[i][p] + n
  OBVIOUS
<1>4. /\ ledger' = [ledger EXCEPT ![i][p] = q] /\ UNCHANGED <<stock, total>>
      /\ call[c].at = "log" /\ call'[c] = NextMove(c)
  BY <1>2, <1>3 DEF LogMove, TypeInv, MovedInv, Shape
<1>5. TotalIsExact /\ LedgerBut(Todo(c))
  BY <1>4 DEF BooksAt, Hand, Todo, Between
<1>6. \A j \in Items, w \in Places : Qty(stock'[j][w]) = ledger'[j][w]
  <2> TAKE j \in Items, w \in Places
  <2>1. Qty(stock[j][w]) = ledger[j][w] + (IF j = i /\ w = p THEN n ELSE 0)
    BY <1>5, <1>2 DEF LedgerBut
  <2>2. ledger[j][w] \in Int
    BY <1>types
  <2>3. ledger'[j][w] = IF j = i /\ w = p THEN q ELSE ledger[j][w]
    BY <1>types, <1>4
  <2> QED
    BY <2>1, <2>2, <2>3, <1>3, <1>4
<1>7. \A j \in Items : SumOf(j)' = SumOf(j)
  BY <1>4, SumOfKept DEF TypeInv
<1>8. RowsMatch' /\ TotalIsExact'
  BY <1>4, <1>5, <1>6, <1>7 DEF RowsMatch, TotalIsExact
<1>9. call'[c].at \notin Between \cup {"save", "clearStock", "clearTotal"}
  BY <1>4, LogFields, IdleIsCall DEF Between
<1> QED
  BY <1>8, <1>9 DEF BooksAt, Between

\* What was read is still so when it is used: nobody else writes.
LEMMA ReadBooks ==
  ASSUME TypeInv, NEW c \in Callers, PlainAt(call[c]), BooksAt(call[c]), LoadRow(c) \/ SumRows(c)
  PROVE  BooksAt(call[c])'
<1>same. UNCHANGED <<stock, total, ledger>>
  BY DEF LoadRow, SumRows, books
<1>sums. \A i \in Items : SumOf(i)' = SumOf(i)
  BY <1>same, SumOfKept DEF TypeInv
<1>1. CASE LoadRow(c)
  <2>1. /\ call'[c].at = "save" /\ call'[c].todo = call[c].todo
        /\ call'[c].seen = stock[Todo(c).item][Todo(c).place] /\ call[c].at = "load"
    BY <1>1, GotoFields DEF LoadRow
  <2>2. RowsMatch /\ TotalIsExact
    BY <2>1 DEF BooksAt, Between
  <2>3. RowsMatch' /\ TotalIsExact'
    BY <2>2, <1>same, <1>sums DEF RowsMatch, TotalIsExact
  <2> QED
    BY <2>1, <2>3, <1>same DEF BooksAt, Between, Hand, Todo
<1>2. CASE SumRows(c)
  <2>1. /\ call'[c].at = "total" /\ call'[c].todo = call[c].todo
        /\ call'[c].seen = SumOf(Todo(c).item) /\ call[c].at = "sum"
    BY <1>2, GotoFields DEF SumRows
  <2>2. LedgerBut(Hand(call[c])) /\ \A i \in Items : i # Hand(call[c]).item => total[i] = SumOf(i)
    BY <2>1 DEF BooksAt, Between
  <2>3. LedgerBut(Hand(call[c]))'
    BY <2>1, <2>2, <1>same DEF LedgerBut, Hand
  <2>item. Todo(c).item \in Items
    BY <2>1, CallFacts, TodoTyped DEF TypeInv, EnoughAt, Between
  <2>4. call'[c].seen = SumOf(Hand(call[c]).item)'
    <3>1. Hand(call[c]).item' = Todo(c).item
      BY <2>1 DEF Hand, Todo
    <3>2. PICK i \in Items : i = Todo(c).item
      BY <2>item
    <3> QED
      BY <2>1, <3>1, <3>2, <1>sums
  <2>5. \A i \in Items : i # Hand(call[c]).item' => total'[i] = SumOf(i)'
    BY <2>1, <2>2, <1>same, <1>sums DEF Hand
  <2> QED
    BY <2>1, <2>3, <2>4, <2>5 DEF BooksAt, Between
<1> QED
  BY <1>1, <1>2

LEMMA ResetBooks ==
  ASSUME TypeInv, NEW c \in Callers, PlainAt(call[c]), BooksAt(call[c]), ResetStep(c)
  PROVE  BooksAt(call[c])'
<1>types. stock \in [Items -> [Places -> Quantity]] /\ ledger \in [Items -> [Places -> Int]]
  BY DEF TypeInv, TypeOK
<1>1. CASE ClearHistory(c)
  <2>1. call[c].at = "clearHistory" /\ call'[c].at = "clearStock" /\ UNCHANGED <<stock, total>>
    BY <1>1, GotoFields DEF ClearHistory
  <2>2. RowsMatch
    BY <2>1 DEF BooksAt, Between
  <2>3. \A i \in Items, p \in Places :
          ledger'[i][p] = IF p \in Warehouses THEN 0 ELSE Qty(stock[i][p])
    BY <1>1, <2>2 DEF ClearHistory, Emptied, RowsMatch
  <2> QED
    BY <2>1, <2>3 DEF BooksAt, Between
<1>2. CASE ClearStock(c)
  <2>1. call[c].at = "clearStock" /\ call'[c].at = "clearTotal" /\ UNCHANGED <<ledger, total>>
    BY <1>2, GotoFields DEF ClearStock
  <2>2. \A i \in Items, p \in Places :
          ledger[i][p] = IF p \in Warehouses THEN 0 ELSE Qty(stock[i][p])
    BY <2>1 DEF BooksAt
  <2>3. \A i \in Items, p \in Places :
          stock'[i][p] = IF p \in Warehouses THEN NoRow ELSE stock[i][p]
    BY <1>2 DEF ClearStock, Emptied
  <2>4. RowsMatch' /\ \A i \in Items, p \in Warehouses : stock'[i][p] = NoRow
    BY <2>1, <2>2, <2>3 DEF RowsMatch, Qty, Places
  <2> QED
    BY <2>1, <2>4 DEF BooksAt, Between
<1>3. CASE ClearTotal(c)
  <2>1. call[c].at = "clearTotal" /\ call'[c].at = "idle" /\ UNCHANGED <<ledger, stock>>
    BY <1>3, EndFields DEF ClearTotal
  <2>2. RowsMatch /\ \A i \in Items, p \in Warehouses : stock[i][p] = NoRow
    BY <2>1 DEF BooksAt
  <2>3. \A i \in Items : SumOf(i) = 0
    BY <2>2, CountedPlaces, SumOfNothing
  <2>4. \A i \in Items : SumOf(i)' = SumOf(i)
    BY <2>1, SumOfKept DEF TypeInv
  <2>5. RowsMatch' /\ TotalIsExact'
    BY <1>3, <2>1, <2>2, <2>3, <2>4 DEF ClearTotal, RowsMatch, TotalIsExact
  <2> QED
    BY <2>1, <2>5 DEF BooksAt, Between
<1> QED
  BY <1>1, <1>2, <1>3 DEF ResetStep

LEMMA BooksStep ==
  ASSUME TypeInv, NEW c \in Callers, Serial(c), PlainAt(call[c]), BooksAt(call[c]),
         Request(c) \/ PlainMove(c) \/ DocumentStep(c) \/ ResetStep(c) \/ Fail(c)
  PROVE  BooksAt(call[c])'
<1>typed. TypeOK
  BY DEF TypeInv
<1>1. CASE Request(c)
  <2>1. /\ call[c].at = "idle" /\ UNCHANGED <<stock, total, ledger>>
        /\ call'[c].at \in {"load", "header", "clearHistory"}
    BY <1>1, PlainBegins DEF books
  <2>2. RowsMatch /\ TotalIsExact
    BY <2>1 DEF BooksAt, Between
  <2> QED
    BY <2>1, <2>2, <1>typed, BooksFrame DEF Between
<1>2. CASE DocumentStep(c)
  <2>1. /\ call[c].at \in {"header"} \cup AfterMoves \cup Late
        /\ UNCHANGED <<stock, total, ledger>>
        /\ \/ End(c)
           \/ \E at, seen :
                /\ at \in {"load", "saveDebt", "loadPo", "saveFee", "finish"} \cup Late
                /\ Goto(c, at, seen)
    BY <1>2 DEF DocumentStep, SaveHeader, LoadPo, SaveFee, LoadDebt, SaveDebt, Finish, ReloadPo,
       ReadReceipts, SavePo, SaveDelivered, SaveEdit, LoadReturn, SaveReturn, Delete, PlainAt,
       AfterMoves, books, Before, Between, Ordering, Late, Clearing
  <2>2. RowsMatch /\ TotalIsExact
    BY <2>1 DEF BooksAt, Between, AfterMoves, Late
  <2>3. call'[c].at \in {"idle", "load", "saveDebt", "loadPo", "saveFee", "finish"} \cup Late
    BY <2>1, GotoFields, EndFields
  <2> QED
    BY <2>1, <2>2, <2>3, <1>typed, BooksFrame DEF Between, Late
<1>3. CASE Fail(c)
  BY <1>3, NothingFails
<1> QED
  BY <1>1, <1>2, <1>3, SaveRowBooks, SaveTotalBooks, LogMoveBooks, ReadBooks, ResetBooks
     DEF PlainMove

-----------------------------------------------------------------------------
(* The documents of serial requests *)

LEMMA DocsInit == ASSUME NEW c \in Callers, Init PROVE DocsAt(call[c])
<1>1. call[c] = Idle /\ Idle.at = "idle" /\ Idle.doc \notin Docs
  BY IdleIsCall, DocsAssumption DEF Init, Idle, NoDoc
<1>2. \A d \in Docs : Settled(d)
  BY DEF Init, Settled, Done
<1> QED
  BY <1>1, <1>2 DEF DocsAt

\* Status and moves stay, and the request goes on among points that ask the same of them.
LEMMA DocsFrame ==
  ASSUME NEW c \in Callers, DocsAt(call[c]), UNCHANGED <<status, moved>>,
         call'[c].doc = call[c].doc, Len(call'[c].todo) = Len(call[c].todo),
         \/ call[c].at \in Before /\ call'[c].at \in Before
         \/ call[c].at \in Between /\ call'[c].at \in Between
         \/ call[c].at \in AfterMoves /\ call'[c].at \in AfterMoves
         \/ call[c].at \in Late /\ call'[c].at \in Late
         \/ call'[c].doc \notin Docs
  PROVE  DocsAt(call[c])'
<1>1. \A d \in Docs : Settled(d) => Settled(d)'
  BY DEF Settled, Done
<1> QED
  BY <1>1 DEF DocsAt, Before, Between, AfterMoves, Late

\* A request that has no document, or is done with it, ends.
LEMMA DocsEnd ==
  ASSUME TypeInv, NEW c \in Callers, DocsAt(call[c]), UNCHANGED <<status, moved>>, End(c),
         call[c].doc \notin Docs \/ call[c].at \in Late
  PROVE  DocsAt(call[c])'
<1>1. \A d \in Docs : Settled(d)
  BY DEF DocsAt
<1>2. \A d \in Docs : Settled(d)'
  BY <1>1 DEF Settled, Done
<1>3. call'[c].doc \notin Docs /\ call'[c].at = "idle"
  BY EndFields
<1> QED
  BY <1>2, <1>3 DEF DocsAt

LEMMA DocsBegin ==
  ASSUME TypeInv, NEW c \in Callers, Serial(c), DocsAt(call[c]), Request(c)
  PROVE  DocsAt(call[c])'
<1>1. /\ call[c].doc \notin Docs /\ UNCHANGED <<status, moved>>
      /\ \/ call'[c].doc \notin Docs
         \/ /\ call'[c].at \in {"header", "load"} /\ call'[c].doc \in Docs
            /\ status[call'[c].doc] = "DRAFT" /\ call'[c].todo = Moves(call'[c].doc)
  BY PlainBegins DEF books, papers
<1>2. \A d \in Docs : Settled(d)
  BY <1>1 DEF DocsAt
<1>3. \A d \in Docs : Settled(d)'
  BY <1>1, <1>2 DEF Settled, Done
<1>4. CASE call'[c].doc \notin Docs
  BY <1>3, <1>4 DEF DocsAt
<1>5. ASSUME NEW d \in Docs, d = call'[c].doc, call'[c].at \in {"header", "load"},
             status[d] = "DRAFT", call'[c].todo = Moves(d)
      PROVE  DocsAt(call[c])'
  <2>1. moved[d] = 0
    BY <1>2, <1>5 DEF Settled, Done
  <2>2. Len(Moves(d)) \in Nat
    BY LengthOfMoves
  <2>3. moved'[d] + Len(call'[c].todo) = Len(Moves(d)) /\ status'[d] = "DRAFT"
    BY <1>1, <1>5, <2>1, <2>2
  <2> QED
    BY <1>3, <1>5, <2>3 DEF DocsAt, Before, Between, AfterMoves
<1> QED
  BY <1>1, <1>4, <1>5

\* A move that is saved is counted, and is in hand until it is logged.
LEMMA DocsSaveRow ==
  ASSUME TypeInv, NEW c \in Callers, PlainAt(call[c]), DocsAt(call[c]), SaveRow(c)
  PROVE  DocsAt(call[c])'
<1>1. /\ call[c].at = "save" /\ status' = status
      /\ moved' = IF call[c].doc \in Docs THEN [moved EXCEPT ![call[c].doc] = @ + 1] ELSE moved
  BY DEF SaveRow, CountMove, papers
<1>2. PICK at : Goto(c, at, NoRow) /\ at \in {"log", "sum"}
  BY DEF SaveRow
<1>3. call'[c].doc = call[c].doc /\ call'[c].todo = call[c].todo /\ call'[c].at \in {"log", "sum"}
  BY <1>2, GotoFields
<1>4. CASE call[c].doc \notin Docs
  BY <1>1, <1>3, <1>4, DocsFrame
<1>5. CASE call[c].doc \in Docs
  <2>1. PICK d \in Docs : d = call[c].doc
    BY <1>5
  <2>2. moved \in [Docs -> Nat] /\ moved' = [moved EXCEPT ![d] = @ + 1]
    BY <1>1, <2>1 DEF TypeInv, TypeOK
  <2>3. status[d] = "DRAFT" /\ moved[d] + Len(call[c].todo) = Len(Moves(d))
    BY <1>1, <2>1 DEF DocsAt, Before
  <2>4. Len(call[c].todo) \in Nat /\ Len(Moves(d)) \in Nat /\ moved[d] \in Nat
    BY CallFacts, LengthOfMoves, <2>2 DEF TypeInv
  <2>5. moved'[d] + Len(call'[c].todo) = Len(Moves(d)) + 1
    <3>1. PICK k \in Nat, n \in Nat, m \in Nat :
            k = Len(call[c].todo) /\ n = Len(Moves(d)) /\ m = moved[d]
      BY <2>4
    <3>2. m + k = n
      BY <2>3, <3>1
    <3>3. (m + 1) + k = n + 1
      BY <3>2
    <3>4. moved'[d] = m + 1 /\ call'[c].todo = call[c].todo
      BY <1>3, <2>2, <3>1
    <3> QED
      BY <3>1, <3>3, <3>4
  <2>6. \A e \in Docs : e # d => Settled(e)'
    BY <1>1, <2>1, <2>2 DEF DocsAt, Settled, Done
  <2> QED
    BY <1>1, <1>3, <2>1, <2>3, <2>5, <2>6 DEF DocsAt, Before, Between, AfterMoves, Late
<1> QED
  BY <1>4, <1>5

LEMMA DocsLogMove ==
  ASSUME TypeInv, NEW c \in Callers, PlainAt(call[c]), DocsAt(call[c]), LogMove(c)
  PROVE  DocsAt(call[c])'
<1>1. call[c].at = "log" /\ UNCHANGED <<status, moved>>
  BY DEF LogMove, papers
<1>2. call[c].doc \in Docs <=> call[c].kind = "confirm"
  BY DEF PlainAt
<1>3. CASE Len(call[c].todo) = 1 /\ call[c].kind # "confirm" /\ call'[c] = Idle
  <2>1. End(c)
    BY <1>3 DEF LogMove, NextMove, After, End
  <2> QED
    BY <2>1, <1>1, <1>2, <1>3, DocsEnd
<1>4. CASE /\ Len(call[c].todo) = 1 /\ call[c].kind = "confirm"
           /\ call'[c].doc = call[c].doc /\ call'[c].at \in {"finish", "debt", "loadPo"}
  <2>1. PICK d \in Docs : d = call[c].doc
    BY <1>2, <1>4
  <2>2. status[d] = "DRAFT" /\ moved[d] + 1 = Len(Moves(d)) + 1
    BY <1>1, <1>4, <2>1 DEF DocsAt, Between
  <2>3. moved[d] \in Nat /\ Len(Moves(d)) \in Nat
    BY LengthOfMoves DEF TypeInv, TypeOK
  <2>4. moved'[d] = Len(Moves(d)) /\ status'[d] = "DRAFT"
    BY <2>2, <2>3, <1>1
  <2>5. \A e \in Docs : e # d => Settled(e)'
    BY <1>1, <2>1 DEF DocsAt, Settled, Done
  <2> QED
    BY <1>4, <2>1, <2>4, <2>5 DEF DocsAt, Before, Between, AfterMoves, Late
<1>5. CASE /\ call'[c].at = "load" /\ call'[c].doc = call[c].doc
           /\ Len(call'[c].todo) = Len(call[c].todo) - 1
  <2>1. \A e \in Docs : e # call[c].doc => Settled(e)'
    BY <1>1 DEF DocsAt, Settled, Done
  <2>2. ASSUME NEW d \in Docs, d = call[c].doc
        PROVE  status'[d] = "DRAFT" /\ moved'[d] + Len(call'[c].todo) = Len(Moves(d))
    <3>1. status[d] = "DRAFT" /\ moved[d] + Len(call[c].todo) = Len(Moves(d)) + 1
      BY <1>1, <2>2 DEF DocsAt, Between
    <3>2. moved[d] \in Nat /\ Len(Moves(d)) \in Nat /\ Len(call[c].todo) \in Nat
      BY LengthOfMoves, CallFacts DEF TypeInv, TypeOK
    <3>3. PICK k \in Nat, n \in Nat, m \in Nat :
            k = Len(call[c].todo) /\ n = Len(Moves(d)) /\ m = moved[d]
      BY <3>2
    <3>4. m + k = n + 1
      BY <3>1, <3>3
    <3>5. m + (k - 1) = n
      BY <3>4
    <3>6. status'[d] = "DRAFT" /\ moved'[d] = m
      BY <1>1, <3>1, <3>3
    <3>7. Len(call'[c].todo) = k - 1
      BY <1>5, <3>3
    <3> QED
      BY <3>3, <3>5, <3>6, <3>7
  <2> QED
    BY <1>5, <2>1, <2>2 DEF DocsAt, Before, Between, AfterMoves, Late
<1> QED
  BY <1>3, <1>4, <1>5, LogFields

\* A document is done when all its moves are saved.
LEMMA DocsFinish ==
  ASSUME TypeInv, NEW c \in Callers, PlainAt(call[c]), DocsAt(call[c]), Finish(c)
  PROVE  DocsAt(call[c])'
<1>1. call[c].at = "finish" /\ call[c].doc \in Docs /\ moved' = moved
  BY DEF Finish, PlainAt, AfterMoves, books
<1>2. PICK d \in Docs : d = call[c].doc
  BY <1>1
<1>3. PICK new : /\ new \in {"COMPLETED", "SHIPPED", "CONFIRMED"}
                 /\ status' = [status EXCEPT ![d] = new]
  BY <1>2 DEF Finish
<1>4. moved[d] = Len(Moves(d))
  BY <1>1, <1>2 DEF DocsAt, AfterMoves
<1>5. status \in [Docs -> Statuses]
  BY DEF TypeInv, TypeOK, Statuses
<1>6. \A e \in Docs : Settled(e)'
  <2> TAKE e \in Docs
  <2>1. CASE e = d
    BY <2>1, <1>1, <1>3, <1>4, <1>5 DEF Settled, Done
  <2>2. CASE e # d
    BY <2>2, <1>1, <1>2, <1>3, <1>5 DEF DocsAt, Settled, Done
  <2> QED
    BY <2>1, <2>2
<1>7. \/ call'[c].at = "reloadPo"
      \/ call'[c].at = "idle" /\ call'[c].doc \notin Docs
  BY GotoFields, EndFields DEF Finish
<1> QED
  BY <1>6, <1>7 DEF DocsAt, Before, Between, AfterMoves, Late

LEMMA DocsStep ==
  ASSUME TypeInv, NEW c \in Callers, Serial(c), PlainAt(call[c]), BooksAt(call[c]),
         DocsAt(call[c]),
         Request(c) \/ PlainMove(c) \/ DocumentStep(c) \/ ResetStep(c) \/ Fail(c)
  PROVE  DocsAt(call[c])'
<1>1. CASE LoadRow(c) \/ SumRows(c) \/ SaveTotal(c)
  <2>1. PICK at, seen :
          /\ Goto(c, at, seen) /\ UNCHANGED <<status, moved>>
          /\ \/ call[c].at = "load" /\ at = "save"
             \/ call[c].at = "sum" /\ at = "total"
             \/ call[c].at = "total" /\ at = "log"
    BY <1>1 DEF LoadRow, SumRows, SaveTotal, books, papers
  <2> QED
    BY <2>1, GotoFields, DocsFrame DEF Before, Between
<1>2. CASE SaveHeader(c)
  <2>1. /\ call[c].at = "header" /\ moved' = moved /\ Goto(c, "load", NoRow)
        /\ status' = [status EXCEPT ![call[c].doc] = "DRAFT"] /\ call[c].doc \in Docs
    BY <1>2 DEF SaveHeader, books, PlainAt
  <2>2. status[call[c].doc] = "DRAFT"
    BY <2>1 DEF DocsAt, Before
  <2>3. status' = status
    BY <2>1, <2>2 DEF TypeInv, TypeOK
  <2> QED
    BY <2>1, <2>3, GotoFields, DocsFrame DEF Before
<1>3. CASE LoadPo(c) \/ SaveFee(c) \/ LoadDebt(c) \/ SaveDebt(c) \/ ReloadPo(c) \/ ReadReceipts(c)
  <2>1. PICK at, seen :
          /\ Goto(c, at, seen) /\ UNCHANGED <<status, moved>>
          /\ \/ call[c].at \in AfterMoves /\ at \in AfterMoves
             \/ call[c].at \in Late /\ at \in Late
    BY <1>3 DEF LoadPo, SaveFee, LoadDebt, SaveDebt, ReloadPo, ReadReceipts, books, papers,
       AfterMoves, Late
  <2> QED
    BY <2>1, GotoFields, DocsFrame
<1>4. CASE SavePo(c)
  BY <1>4, DocsEnd DEF SavePo, books, Late
<1>5. CASE SaveDelivered(c) \/ SaveEdit(c) \/ LoadReturn(c) \/ SaveReturn(c) \/ Delete(c)
  BY <1>5 DEF SaveDelivered, SaveEdit, LoadReturn, SaveReturn, Delete, PlainAt, Before, Between,
     AfterMoves, Ordering, Late, Clearing
<1>6. CASE ResetStep(c)
  <2>1. /\ call[c].at \in Clearing /\ UNCHANGED <<status, moved>>
        /\ End(c) \/ \E at : Goto(c, at, NoRow)
    BY <1>6 DEF ResetStep, ClearHistory, ClearStock, ClearTotal, papers, Clearing
  <2>2. call[c].doc \notin Docs
    BY <2>1 DEF PlainAt
  <2> QED
    BY <2>1, <2>2, DocsEnd, GotoFields, DocsFrame
<1>7. CASE Fail(c)
  BY <1>7, NothingFails
<1> QED
  BY <1>1, <1>2, <1>3, <1>4, <1>5, <1>6, <1>7, DocsBegin, DocsSaveRow, DocsLogMove, DocsFinish
     DEF PlainMove, DocumentStep

-----------------------------------------------------------------------------
(* The supplier's debt and the order of serial requests *)

LEMMA ReceivedOfAdded ==
  ASSUME NEW R \in SUBSET Receipts, NEW d \in Receipts, d \notin R, NEW P
  PROVE  ReceivedOf(R \cup {d}, P) = ReceivedOf(R, P) + Brought(d, P)
<1> DEFINE f == [e \in Receipts |-> Brought(e, P)]
<1>1. IsFiniteSet(R)
  BY DocsAssumption, FS_Subset
<1>2. \A e \in R \cup {d} : f[e] \in Int
  BY BroughtTyped DEF Docs
<1>3. f[d] = Brought(d, P)
  OBVIOUS
<1> HIDE DEF f
<1>4. Sum(f, R \cup {d}) = Sum(f, R) + f[d]
  BY <1>1, <1>2, SumAdded
<1> QED
  BY <1>3, <1>4 DEF ReceivedOf, f

LEMMA ReceivedAdded ==
  ASSUME NEW R \in SUBSET Receipts, NEW d \in Receipts, d \notin R
  PROVE  Received(R \cup {d}) = Received(R) + OrderedQty(d)
BY ReceivedOfAdded DEF Received, OrderedQty

LEMMA ReceivedNothing == Received({}) = 0 /\ \A P : ReceivedOf({}, P) = 0
BY SumEmpty DEF Received, ReceivedOf

\* One more receipt brings no less of any item: a status that fitted the receipts before is
\* overruled by what came, or nothing came yet and it is that of an order not delivered.
LEMMA StatusGrows ==
  ASSUME NEW R \in SUBSET Receipts, NEW d \in Receipts, d \notin R,
         NEW was, was = IF R = {} THEN "ORDERED" ELSE PoStatusFor(R, "ORDERED")
  PROVE  PoStatusFor(R \cup {d}, was) = PoStatusFor(R \cup {d}, "ORDERED")
<1>1. ASSUME NEW p \in PoItems
      PROVE  /\ ReceivedOf(R, {p}) \in Nat /\ ReceivedOf(R \cup {d}, {p}) \in Nat
             /\ ReceivedOf(R \cup {d}, {p}) >= ReceivedOf(R, {p})
  <2>1. ReceivedOf(R \cup {d}, {p}) = ReceivedOf(R, {p}) + Brought(d, {p})
    BY ReceivedOfAdded
  <2>2. ReceivedOf(R, {p}) \in Nat /\ Brought(d, {p}) \in Nat
    BY ReceivedOfTyped, BroughtTyped DEF Docs
  <2> QED
    BY <2>1, <2>2
<1>2. CASE \E p \in PoItems : ReceivedOf(R \cup {d}, {p}) > 0
  BY <1>2 DEF PoStatusFor
<1>3. CASE ~ \E p \in PoItems : ReceivedOf(R \cup {d}, {p}) > 0
  <2>1. ASSUME NEW p \in PoItems
        PROVE  ReceivedOf(R \cup {d}, {p}) = 0 /\ ReceivedOf(R, {p}) = 0
    <3>1. ~(ReceivedOf(R \cup {d}, {p}) > 0)
      BY <1>3
    <3> QED
      BY <1>1, <3>1
  <2>2. CASE \A p \in PoItems : ReceivedOf(R \cup {d}, {p}) * 100 >= Ordered[p] * 95
    BY <2>2 DEF PoStatusFor
  <2>3. CASE ~ \A p \in PoItems : ReceivedOf(R \cup {d}, {p}) * 100 >= Ordered[p] * 95
    <3>1. ~ \A p \in PoItems : ReceivedOf(R, {p}) * 100 >= Ordered[p] * 95
      BY <2>1, <2>3
    <3>2. ~ \E p \in PoItems : ReceivedOf(R, {p}) > 0
      <4> SUFFICES ASSUME NEW p \in PoItems PROVE ~(ReceivedOf(R, {p}) > 0)
        OBVIOUS
      <4> QED
        BY <2>1
    <3>3. was = "ORDERED"
      BY <3>1, <3>2 DEF PoStatusFor
    <3> QED
      BY <3>3
  <2> QED
    BY <2>2, <2>3
<1> QED
  BY <1>2, <1>3

LEMMA OrderInit == ASSUME NEW c \in Callers, Init PROVE OrderAt(call[c])
<1>1. call[c] = Idle /\ Idle.at = "idle"
  BY IdleIsCall DEF Init
<1>2. Completed = {}
  BY DEF Init, Completed, Docs
<1>3. \A s \in Suppliers : From(s) = {}
  BY <1>2 DEF From
<1>4. NobodyElse
  BY <1>3, ReceivedNothing DEF Init, NobodyElse
<1>5. StatusIsRight
  BY <1>2 DEF Init, StatusIsRight
<1> QED
  BY <1>1, <1>4, <1>5 DEF OrderAt, Raised, Late

\* The papers stay as they are.
LEMMA PapersKept ==
  ASSUME UNCHANGED papers
  PROVE  /\ Completed' = Completed /\ \A s \in Suppliers : From(s)' = From(s) /\ debt'[s] = debt[s]
         /\ NobodyElse => NobodyElse'
         /\ StatusIsRight => StatusIsRight'
         /\ \A d \in Docs : Owed(d) => Owed(d)'
         /\ \A was : StatusFits(was)' <=> StatusFits(was)
         /\ \A was : PoStatusFor(Completed', was) = PoStatusFor(Completed, was)
         /\ poStatus' = poStatus
<1>1. Completed' = Completed /\ debt' = debt /\ poStatus' = poStatus
  BY DEF papers, Completed
<1>2. \A s \in Suppliers : From(s)' = From(s)
  BY <1>1 DEF From
<1> QED
  BY <1>1, <1>2 DEF NobodyElse, StatusIsRight, StatusFits, Owed

LEMMA OrderFrame ==
  ASSUME NEW c \in Callers, OrderAt(call[c]), UNCHANGED papers,
         call[c].at \notin Raised \cup Late,
         call'[c].at \notin Raised \cup Late \cup {"saveDebt"}
  PROVE  OrderAt(call[c])'
<1>1. NobodyElse /\ StatusIsRight
  BY DEF OrderAt, Raised, Late
<1>2. NobodyElse' /\ StatusIsRight'
  BY <1>1, PapersKept
<1> QED
  BY <1>2 DEF OrderAt, Raised, Late

\* A receipt that brings nothing that was ordered, and any other document, raises no debt.
LEMMA OrderLogMove ==
  ASSUME TypeInv, NEW c \in Callers, PlainAt(call[c]), OrderAt(call[c]), LogMove(c)
  PROVE  OrderAt(call[c])'
<1>1. call[c].at = "log" /\ UNCHANGED papers
  BY DEF LogMove
<1>2. NobodyElse /\ StatusIsRight
  BY <1>1 DEF OrderAt, Raised, Late
<1>3. StatusIsRight'
  BY <1>1, <1>2, PapersKept
<1>4. CASE call'[c].at \in {"load", "debt", "idle"}
  BY <1>1, <1>4, OrderFrame DEF Raised, Late
<1>5. CASE /\ call'[c].doc = call[c].doc /\ call[c].kind = "confirm"
           /\ \/ call'[c].at = "finish" /\ call[c].doc \notin Receipts
              \/ /\ call'[c].at = "loadPo" /\ call[c].doc \in Receipts
                 /\ ~(OrderedQty(call[c].doc) > 0)
  <2>1. PICK d \in Docs : d = call[c].doc
    BY <1>5 DEF PlainAt
  <2>2. d \in Receipts => OrderedQty(d) = 0
    BY <1>5, <2>1, OrderedTyped
  <2>3. \A s \in Suppliers : Received(From(s)) \in Nat
    BY ReceivedTyped DEF From, Completed
  <2>4. Owed(d)
    BY <1>2, <2>2, <2>3 DEF Owed, NobodyElse
  <2>5. Owed(d)'
    BY <2>4, <1>1, PapersKept
  <2>6. Owed(call[c].doc)'
    BY <2>5, <2>1, <1>5 DEF Owed
  <2> QED
    BY <1>3, <1>5, <2>6 DEF OrderAt, Raised, Late
<1> QED
  BY <1>4, <1>5, LogFields, IdleIsCall

LEMMA OrderSaveDebt ==
  ASSUME TypeInv, NEW c \in Callers, PlainAt(call[c]), OrderAt(call[c]), SaveDebt(c)
  PROVE  OrderAt(call[c])'
<1>1. /\ call[c].at = "saveDebt" /\ UNCHANGED <<status, poStatus>>
      /\ call'[c].at = "loadPo" /\ call'[c].doc = call[c].doc
  BY GotoFields DEF SaveDebt
<1>2. PICK d \in Receipts : d = call[c].doc
  BY <1>1 DEF PlainAt, Ordering
<1>3. PICK s \in Suppliers : s = SupplierOf[d]
  BY SuppliersAssumption
<1>4. /\ NobodyElse /\ StatusIsRight
      /\ debt' = [debt EXCEPT ![s] = debt[s] + OrderedQty(d)]
  BY <1>1, <1>2, <1>3 DEF OrderAt, Raised, Late, SaveDebt
<1>5. /\ debt \in [Suppliers -> Int] /\ OrderedQty(d) \in Nat
      /\ \A t \in Suppliers : Received(From(t)) \in Nat
  BY ReceivedTyped, OrderedTyped DEF From, Completed, TypeInv, TypeOK, Docs
<1>6. Completed' = Completed /\ \A t \in Suppliers : From(t)' = From(t)
  BY <1>1 DEF Completed, From
<1>7. Owed(d)'
  <2> SUFFICES ASSUME NEW t \in Suppliers
               PROVE  debt'[t] = Received(From(t)') + (IF SupplierOf[d] = t THEN OrderedQty(d) ELSE 0)
    BY <1>2 DEF Owed
  <2> QED
    BY <1>3, <1>4, <1>5, <1>6 DEF NobodyElse
<1>8. StatusIsRight'
  BY <1>1, <1>4, <1>6 DEF StatusIsRight
<1> QED
  BY <1>1, <1>2, <1>7, <1>8 DEF OrderAt, Owed, Raised, Late

\* A receipt is completed: its goods, which the supplier is owed for, now count.
LEMMA OrderFinish ==
  ASSUME TypeInv, NEW c \in Callers, PlainAt(call[c]), DocsAt(call[c]), OrderAt(call[c]), Finish(c)
  PROVE  OrderAt(call[c])'
<1>1. /\ call[c].at = "finish" /\ call[c].doc \in Docs /\ debt' = debt /\ poStatus' = poStatus
      /\ \/ call[c].doc \in Receipts /\ call'[c].at = "reloadPo"
         \/ call[c].doc \notin Receipts /\ call'[c].at = "idle"
  BY GotoFields, EndFields DEF Finish, PlainAt, AfterMoves
<1>2. PICK d \in Docs : d = call[c].doc
  BY <1>1
<1>3. status[d] = "DRAFT" /\ Owed(d) /\ StatusIsRight
  BY <1>1, <1>2 DEF DocsAt, AfterMoves, OrderAt, Raised, Late
<1>status. status \in [Docs -> Statuses]
  BY DEF TypeInv, TypeOK, Statuses
<1>4. CASE d \in Receipts
  <2>1. status' = [status EXCEPT ![d] = "COMPLETED"]
    BY <1>2, <1>4 DEF Finish
  <2>2. Completed' = Completed \cup {d} /\ d \notin Completed
    BY <2>1, <1>3, <1>4, <1>status DEF Completed, Docs
  <2>3. NobodyElse'
    <3> SUFFICES ASSUME NEW s \in Suppliers PROVE debt'[s] = Received(From(s)')
      BY DEF NobodyElse
    <3>1. debt[s] = Received(From(s)) + (IF SupplierOf[d] = s THEN OrderedQty(d) ELSE 0)
      BY <1>3, <1>4 DEF Owed
    <3>2. From(s) \in SUBSET Receipts /\ d \notin From(s)
      BY <2>2 DEF From, Completed
    <3>3. From(s)' = IF SupplierOf[d] = s THEN From(s) \cup {d} ELSE From(s)
      BY <2>2 DEF From
    <3>4. Received(From(s)) \in Nat
      BY <3>2, ReceivedTyped
    <3> QED
      BY <3>1, <3>2, <3>3, <3>4, <1>1, <1>4, ReceivedAdded
  <2>4. StatusFits(poStatus)'
    <3>1. Completed \in SUBSET Receipts
      BY DEF Completed
    <3>2. poStatus = IF Completed = {} THEN "ORDERED" ELSE PoStatusFor(Completed, "ORDERED")
      BY <1>3 DEF StatusIsRight
    <3>3. PoStatusFor(Completed \cup {d}, poStatus) = PoStatusFor(Completed \cup {d}, "ORDERED")
      BY <3>1, <3>2, <1>4, <2>2, StatusGrows
    <3> QED
      BY <3>3, <2>2, <1>1 DEF StatusFits
  <2> QED
    BY <1>1, <1>2, <1>4, <2>2, <2>3, <2>4 DEF OrderAt, Raised, Late
<1>5. CASE d \notin Receipts
  <2>1. PICK new : status' = [status EXCEPT ![d] = new]
    BY <1>2 DEF Finish
  <2>2. Completed' = Completed
    BY <2>1, <1>5, <1>status DEF Completed, Docs
  <2>3. \A s \in Suppliers : From(s)' = From(s) /\ Received(From(s)) \in Nat
    BY <2>2, ReceivedTyped DEF From, Completed
  <2>4. NobodyElse'
    BY <1>1, <1>3, <1>5, <2>3 DEF NobodyElse, Owed
  <2>5. StatusIsRight'
    BY <1>1, <1>3, <2>2 DEF StatusIsRight
  <2> QED
    BY <1>1, <1>2, <1>5, <2>4, <2>5 DEF OrderAt, Raised, Late
<1> QED
  BY <1>4, <1>5

\* The status of the order is computed from the receipts, and saved before anything else happens.
LEMMA OrderSavePo ==
  ASSUME TypeInv, NEW c \in Callers, OrderAt(call[c]), SavePo(c)
  PROVE  OrderAt(call[c])'
<1>1. /\ call[c].at = "savePo" /\ call'[c].at = "idle" /\ UNCHANGED <<status, debt>>
      /\ poStatus' = call[c].seen
  BY EndFields DEF SavePo
<1>2. NobodyElse /\ Completed # {} /\ poStatus' = PoStatusFor(Completed, "ORDERED")
  BY <1>1 DEF OrderAt, Raised, Late
<1>3. Completed' = Completed /\ \A s \in Suppliers : From(s)' = From(s)
  BY <1>1 DEF Completed, From
<1>4. NobodyElse'
  BY <1>1, <1>2, <1>3 DEF NobodyElse
<1>5. StatusIsRight'
  BY <1>2, <1>3 DEF StatusIsRight
<1> QED
  BY <1>1, <1>4, <1>5 DEF OrderAt, Raised, Late

\* The debt, the order and the receipts are read, and the order is saved for its fee.
LEMMA OrderReads ==
  ASSUME TypeInv, NEW c \in Callers, PlainAt(call[c]), OrderAt(call[c]),
         LoadDebt(c) \/ LoadPo(c) \/ SaveFee(c) \/ ReloadPo(c) \/ ReadReceipts(c)
  PROVE  OrderAt(call[c])'
<1>1. CASE LoadDebt(c)
  <2>1. /\ call[c].at = "debt" /\ call'[c].at = "saveDebt" /\ call'[c].doc = call[c].doc
        /\ call'[c].seen = debt[SupplierOf[call[c].doc]] /\ UNCHANGED papers
    BY <1>1, GotoFields DEF LoadDebt
  <2>2. NobodyElse' /\ StatusIsRight' /\ debt' = debt
    BY <2>1, PapersKept DEF OrderAt, Raised, Late, papers
  <2> QED
    BY <2>1, <2>2 DEF OrderAt, Raised, Late
<1>2. CASE LoadPo(c) \/ SaveFee(c)
  <2>1. /\ call[c].at \in {"loadPo", "saveFee"} /\ call'[c].doc = call[c].doc
        /\ \/ call'[c].at = "saveFee" /\ call'[c].seen = poStatus
           \/ call'[c].at = "finish"
    BY <1>2, GotoFields DEF LoadPo, SaveFee
  <2>2. UNCHANGED papers
    BY <1>2 DEF LoadPo, SaveFee, papers, OrderAt
  <2>3. PICK d \in Docs : d = call[c].doc
    BY <2>1 DEF PlainAt, Ordering
  <2>4. Owed(d)' /\ StatusIsRight' /\ poStatus' = poStatus
    BY <2>1, <2>2, <2>3, PapersKept DEF OrderAt, Raised, Late
  <2>5. Owed(call[c].doc)'
    BY <2>1, <2>3, <2>4 DEF Owed
  <2> QED
    BY <2>1, <2>4, <2>5 DEF OrderAt, Raised, Late
<1>3. CASE ReloadPo(c)
  <2>1. /\ call[c].at = "reloadPo" /\ call'[c].at = "readReceipts"
        /\ call'[c].seen = poStatus /\ UNCHANGED papers
    BY <1>3, GotoFields DEF ReloadPo
  <2>2. NobodyElse /\ Completed # {} /\ StatusFits(poStatus)
    BY <2>1 DEF OrderAt, Raised, Late
  <2>3. NobodyElse' /\ Completed' # {} /\ PoStatusFor(Completed', poStatus) = PoStatusFor(Completed', "ORDERED")
    BY <2>1, <2>2, PapersKept DEF StatusFits
  <2>4. StatusFits(call[c].seen)'
    BY <2>1, <2>3 DEF StatusFits
  <2> QED
    BY <2>1, <2>3, <2>4 DEF OrderAt, Raised, Late
<1>4. CASE ReadReceipts(c)
  <2>1. /\ call[c].at = "readReceipts" /\ call'[c].at = "savePo"
        /\ call'[c].seen = PoStatusFor(Completed, call[c].seen) /\ UNCHANGED papers
    BY <1>4, GotoFields DEF ReadReceipts
  <2>2. NobodyElse /\ Completed # {} /\ StatusFits(call[c].seen)
    BY <2>1 DEF OrderAt, Raised, Late
  <2>3. /\ NobodyElse' /\ Completed' # {} /\ Completed' = Completed
        /\ call'[c].seen = PoStatusFor(Completed, "ORDERED")
    BY <2>1, <2>2, PapersKept DEF StatusFits
  <2>4. call'[c].seen = PoStatusFor(Completed', "ORDERED")
    BY <2>3
  <2> QED
    BY <2>1, <2>3, <2>4 DEF OrderAt, Raised, Late
<1> QED
  BY <1>1, <1>2, <1>3, <1>4

LEMMA OrderStep ==
  ASSUME TypeInv, NEW c \in Callers, Serial(c), PlainAt(call[c]), BooksAt(call[c]),
         DocsAt(call[c]), OrderAt(call[c]),
         Request(c) \/ PlainMove(c) \/ DocumentStep(c) \/ ResetStep(c) \/ Fail(c)
  PROVE  OrderAt(call[c])'
<1>1. CASE Request(c)
  <2>1. /\ call[c].at = "idle" /\ UNCHANGED papers
        /\ call'[c].at \in {"load", "header", "clearHistory"}
    BY <1>1, PlainBegins
  <2> QED
    BY <2>1, OrderFrame DEF Raised, Late
<1>2. CASE LoadRow(c) \/ SaveRow(c) \/ SumRows(c) \/ SaveTotal(c)
  <2>1. PICK at, seen :
          /\ Goto(c, at, seen) /\ UNCHANGED papers
          /\ call[c].at \in {"load", "save", "sum", "total"} /\ at \in {"save", "sum", "total", "log"}
    BY <1>2 DEF LoadRow, SaveRow, SumRows, SaveTotal
  <2> QED
    BY <2>1, GotoFields, OrderFrame DEF Raised, Late
<1>3. CASE SaveHeader(c)
  <2>1. /\ call[c].at = "header" /\ UNCHANGED <<debt, poStatus>> /\ Goto(c, "load", NoRow)
        /\ status' = [status EXCEPT ![call[c].doc] = "DRAFT"] /\ call[c].doc \in Docs
    BY <1>3 DEF SaveHeader, PlainAt
  <2>2. status[call[c].doc] = "DRAFT"
    BY <2>1 DEF DocsAt, Before
  <2>3. UNCHANGED papers
    BY <2>1, <2>2 DEF TypeInv, TypeOK, papers
  <2> QED
    BY <2>1, <2>3, GotoFields, OrderFrame DEF Raised, Late
<1>4. CASE SaveDelivered(c) \/ SaveEdit(c) \/ LoadReturn(c) \/ SaveReturn(c) \/ Delete(c)
  BY <1>4 DEF SaveDelivered, SaveEdit, LoadReturn, SaveReturn, Delete, PlainAt, Before, Between,
     AfterMoves, Ordering, Late, Clearing
<1>5. CASE ResetStep(c)
  <2>1. /\ call[c].at \in Clearing /\ UNCHANGED papers
        /\ call'[c].at \in Clearing \cup {"idle"}
    BY <1>5, GotoFields, EndFields DEF ResetStep, ClearHistory, ClearStock, ClearTotal, Clearing
  <2> QED
    BY <2>1, OrderFrame DEF Clearing, Raised, Late
<1>6. CASE Fail(c)
  BY <1>6, NothingFails
<1> QED
  BY <1>1, <1>2, <1>3, <1>4, <1>5, <1>6, OrderLogMove, OrderSaveDebt, OrderFinish, OrderSavePo,
     OrderReads DEF PlainMove, DocumentStep

-----------------------------------------------------------------------------
(* Serial requests keep the books *)

LEMMA SerialInit == ASSUME NEW c \in Callers PROVE Init => SerialInv(c)
<1> SUFFICES ASSUME Init PROVE SerialInv(c)
  OBVIOUS
<1>1. PlainAt(call[c])
  BY IdleIsPlain DEF Init
<1> QED
  BY <1>1, TypeInit, BooksInit, DocsInit, OrderInit DEF SerialInv, NoTwins, Init

\* What was read of a row is still so when it is saved, so a row is not inserted twice.
LEMMA OneRow ==
  ASSUME TypeInv, NEW c \in Callers, PlainAt(call[c]), BooksAt(call[c]), NoTwins,
         Request(c) \/ MoveStep(c) \/ DocumentStep(c) \/ ResetStep(c) \/ Fail(c)
  PROVE  /\ Request(c) \/ PlainMove(c) \/ DocumentStep(c) \/ ResetStep(c) \/ Fail(c)
         /\ NoTwins'
<1>1. ~InsertTwin(c)
  <2> SUFFICES ASSUME InsertTwin(c) PROVE FALSE
    OBVIOUS
  <2>1. call[c].at = "save" /\ InsertTwice(c)
    BY DEF InsertTwin
  <2>2. call[c].seen = stock[Todo(c).item][Todo(c).place]
    BY <2>1 DEF BooksAt, Hand, Todo
  <2> QED
    BY <2>1, <2>2 DEF InsertTwice
<1>2. ~LoadTwin(c)
  <2> SUFFICES ASSUME LoadTwin(c) PROVE FALSE
    OBVIOUS
  <2>1. call[c].at = "load" /\ Todo(c).place \in Suppliers
    BY DEF LoadTwin
  <2>2. Todo(c).item \in Items
    BY <2>1, CallFacts, TodoTyped DEF TypeInv, EnoughAt, Before
  <2>3. PICK i \in Items, s \in Suppliers : i = Todo(c).item /\ s = Todo(c).place
    BY <2>1, <2>2
  <2>4. DOMAIN twins[i][s] # {}
    BY <2>3 DEF LoadTwin
  <2>5. twins[i][s] = <<>>
    BY DEF NoTwins
  <2> QED
    BY <2>4, <2>5
<1>3. ~SaveTwin(c)
  BY DEF SaveTwin, PlainAt, Between, AfterMoves, Ordering, Late, Clearing
<1>4. Request(c) \/ PlainMove(c) \/ DocumentStep(c) \/ ResetStep(c) \/ Fail(c)
  BY <1>1, <1>2, <1>3 DEF MoveStep, PlainMove
<1>5. twins' = twins
  <2>1. CASE Request(c)
    BY <2>1 DEF Request, Adjust, Transfer, ConvertBtp, Confirm, DeliverIssue, EditIssue,
       MailDelivery, UpdateDelivery, DeleteReceipt, DeleteIssue, Reset, Begin, books
  <2>2. CASE PlainMove(c) \/ ResetStep(c) \/ Fail(c)
    BY <2>2 DEF PlainMove, LoadRow, SaveRow, SumRows, SaveTotal, LogMove, ResetStep, ClearHistory,
       ClearStock, ClearTotal, Fail, books
  <2>3. CASE DocumentStep(c)
    BY <2>3 DEF DocumentStep, SaveHeader, LoadPo, SaveFee, LoadDebt, SaveDebt, Finish, ReloadPo,
       ReadReceipts, SavePo, SaveDelivered, SaveEdit, LoadReturn, SaveReturn, Delete, books
  <2> QED
    BY <1>4, <2>1, <2>2, <2>3
<1> QED
  BY <1>4, <1>5 DEF NoTwins

LEMMA SerialStep ==
  ASSUME NEW c \in Callers, Serial(c)
  PROVE  SerialInv(c) /\ [Next]_vars => SerialInv(c)'
<1> SUFFICES ASSUME SerialInv(c), [Next]_vars PROVE SerialInv(c)'
  OBVIOUS
<1>type. TypeInv /\ TypeInv'
  BY TypeStep DEF SerialInv
<1>1. CASE Next
  <2>2. /\ PlainAt(call[c]) /\ BooksAt(call[c]) /\ DocsAt(call[c]) /\ OrderAt(call[c])
        /\ NoTwins
    BY DEF SerialInv
  <2>1. /\ Request(c) \/ PlainMove(c) \/ DocumentStep(c) \/ ResetStep(c) \/ Fail(c)
        /\ NoTwins'
    BY <1>1, <1>type, <2>2, OneRow DEF Next, Serial
  <2>3. PlainAt(call'[c])
    BY <1>type, <2>1, <2>2, PlainStep
  <2>4. BooksAt(call[c])'
    BY <1>type, <2>1, <2>2, BooksStep
  <2>5. DocsAt(call[c])'
    BY <1>type, <2>1, <2>2, DocsStep
  <2>6. OrderAt(call[c])'
    BY <1>type, <2>1, <2>2, OrderStep
  <2> QED
    BY <1>type, <2>1, <2>3, <2>4, <2>5, <2>6 DEF SerialInv
<1>2. CASE UNCHANGED vars
  <2>1. call' = call /\ UNCHANGED books /\ UNCHANGED papers
    BY <1>2 DEF vars, books, papers
  <2>2. PlainAt(call[c])' /\ BooksAt(call[c])' /\ NoTwins'
    <3>1. call'[c] = call[c] /\ UNCHANGED <<stock, twins, total, ledger>>
      BY <2>1 DEF books
    <3>2. \A i \in Items : SumOf(i)' = SumOf(i)
      BY <3>1, SumOfKept DEF SerialInv, TypeInv
    <3>3. PlainAt(call[c])' /\ NoTwins'
      BY <3>1 DEF SerialInv, PlainAt, NoTwins
    <3>4. /\ RowsMatch => RowsMatch'
          /\ TotalIsExact => TotalIsExact'
          /\ LedgerBut(Hand(call[c])) => LedgerBut(Hand(call[c]))'
      BY <3>1, <3>2 DEF RowsMatch, TotalIsExact, LedgerBut, Hand
    <3>5. call[c].at = "total" => call'[c].seen = SumOf(Hand(call[c]).item)'
      <4> SUFFICES ASSUME call[c].at = "total" PROVE call'[c].seen = SumOf(Hand(call[c]).item)'
        OBVIOUS
      <4>1. PICK i \in Items : i = Hand(call[c]).item
        BY CallFacts, TodoTyped DEF SerialInv, TypeInv, EnoughAt, Between, Todo, Hand
      <4>2. call[c].seen = SumOf(i)
        BY <4>1 DEF SerialInv, BooksAt
      <4>3. Hand(call[c]).item' = i
        BY <3>1, <4>1 DEF Hand
      <4> QED
        BY <3>1, <3>2, <4>2, <4>3
    <3>6. call[c].at \in {"sum", "total"} =>
            \A i \in Items : i # Hand(call[c]).item' => total'[i] = SumOf(i)'
      BY <3>1, <3>2 DEF SerialInv, BooksAt, Hand
    <3>7. BooksAt(call[c])
      BY DEF SerialInv
    <3>8. call[c].at = "save" => call'[c].seen = stock'[Hand(call[c]).item'][Hand(call[c]).place']
      BY <3>1, <3>7 DEF BooksAt, Hand
    <3>9. BooksAt(call[c])'
      BY <3>1, <3>4, <3>5, <3>6, <3>7, <3>8 DEF BooksAt, Between
    <3> QED
      BY <3>3, <3>9
  <2>3. DocsAt(call[c])'
    BY <2>1 DEF SerialInv, DocsAt, books, papers, Settled, Done
  <2>4. OrderAt(call[c])'
    <3>1. call'[c] = call[c] /\ OrderAt(call[c]) /\ debt' = debt /\ Completed' = Completed
      BY <2>1, PapersKept DEF SerialInv, papers
    <3>2. /\ NobodyElse => NobodyElse'
          /\ StatusIsRight => StatusIsRight'
          /\ \A was : StatusFits(was)' <=> StatusFits(was)
      BY <2>1, PapersKept
    <3>3. Owed(call[c].doc) => Owed(call[c].doc)'
      BY <2>1, <3>1 DEF Owed, From
    <3>4. /\ StatusFits(call[c].seen) => StatusFits(call[c].seen)'
          /\ StatusFits(poStatus) => StatusFits(poStatus)'
      BY <2>1, <3>1 DEF StatusFits, papers
    <3>5. call[c].at = "saveDebt" => call'[c].seen = debt'[SupplierOf[call'[c].doc]]
      BY <3>1 DEF OrderAt
    <3>6. call[c].at = "savePo" => call'[c].seen = PoStatusFor(Completed', "ORDERED")
      BY <3>1 DEF OrderAt
    <3>7. poStatus' = poStatus
      BY <2>1 DEF papers
    <3> QED
      BY <3>1, <3>2, <3>3, <3>4, <3>5, <3>6, <3>7 DEF OrderAt, Raised, Late
  <2> QED
    BY <1>type, <2>2, <2>3, <2>4 DEF SerialInv
<1> QED
  BY <1>1, <1>2

LEMMA SerialQuiet ==
  ASSUME NEW c \in Callers, Serial(c), SerialInv(c), Quiet
  PROVE  /\ LedgerMatches /\ TotalIsExact /\ NobodyElse /\ StatusIsRight
         /\ \A d \in Docs : Settled(d)
<1>1. call[c] = Idle /\ Idle.at = "idle" /\ Idle.doc \notin Docs
  BY IdleIsCall, DocsAssumption DEF Quiet, Idle, NoDoc
<1>2. RowsMatch /\ NoTwins
  BY <1>1 DEF SerialInv, BooksAt, Between
<1>3. LedgerMatches
  <2> SUFFICES ASSUME NEW i \in Items, NEW p \in Places PROVE Balance(i, p) = ledger[i][p]
    BY DEF LedgerMatches
  <2>1. ledger[i][p] \in Int /\ Qty(stock[i][p]) = ledger[i][p]
    BY <1>2 DEF RowsMatch, SerialInv, TypeInv, TypeOK
  <2>2. p \in Suppliers => Sum(twins[i][p], DOMAIN twins[i][p]) = 0
    <3> SUFFICES ASSUME p \in Suppliers PROVE Sum(twins[i][p], DOMAIN twins[i][p]) = 0
      OBVIOUS
    <3>1. twins[i][p] = <<>>
      BY <1>2 DEF NoTwins
    <3>2. DOMAIN twins[i][p] = {}
      BY <3>1
    <3> QED
      BY <3>2, SumEmpty
  <2> QED
    BY <2>1, <2>2 DEF Balance
<1> QED
  BY <1>1, <1>3 DEF SerialInv, BooksAt, DocsAt, OrderAt, Between, Raised, Late

\* Requests that do not overlap and do not fail keep the books: the history of every warehouse and
\* supplier explains its balance, and the total of an item is the sum of its warehouses (adjustStock,
\* adjustSupplierStock, resetAllStocks), for any items, documents and number of requests.
THEOREM SerialBooks == ASSUME NEW c \in Callers, Serial(c) PROVE Spec => []BooksAgree
<1>1. SerialInv(c) => BooksAgree
  BY SerialQuiet DEF BooksAgree
<1> QED
  BY <1>1, SerialInit, SerialStep, PTL DEF Spec

\* Requests that do not overlap and do not fail move the stock of a document once, when it is
\* confirmed, and a draft has moved none.
THEOREM SerialDocuments == ASSUME NEW c \in Callers, Serial(c) PROVE Spec => []DocumentMovesOnce
<1>1. SerialInv(c) => DocumentMovesOnce
  BY SerialQuiet DEF DocumentMovesOnce, Settled
<1> QED
  BY <1>1, SerialInit, SerialStep, PTL DEF Spec

\* Requests that do not overlap and do not fail leave each supplier owed exactly the goods of the
\* completed receipts, and the order with the status they justify, item by item
\* (updatePODeliveryStatus).
THEOREM SerialOrder == ASSUME NEW c \in Callers, Serial(c) PROVE Spec => []OrderFollowsReceipts
<1>1. SerialInv(c) => OrderFollowsReceipts
  <2> SUFFICES ASSUME SerialInv(c), Quiet
               PROVE  /\ \A s \in Suppliers :
                           debt[s] = Received({d \in Completed : SupplierOf[d] = s})
                      /\ poStatus = IF Completed # {} /\ \A p \in PoItems : Arrived(p) * 100 >= Ordered[p] * 95
                                    THEN "DELIVERED"
                                    ELSE IF \E p \in PoItems : Arrived(p) > 0 THEN "PARTIAL_DELIVERED"
                                    ELSE "ORDERED"
    BY DEF OrderFollowsReceipts
  <2>1. NobodyElse /\ StatusIsRight
    BY SerialQuiet
  <2>2. \A s \in Suppliers : debt[s] = Received({d \in Completed : SupplierOf[d] = s})
    BY <2>1 DEF NobodyElse, From
  <2>3. CASE Completed = {}
    <3>1. \A p \in PoItems : Arrived(p) = 0
      BY <2>3, ReceivedNothing DEF Arrived
    <3> QED
      BY <2>1, <2>2, <2>3, <3>1 DEF StatusIsRight
  <2>4. CASE Completed # {}
    BY <2>1, <2>2, <2>4 DEF StatusIsRight, PoStatusFor, Arrived
  <2> QED
    BY <2>3, <2>4
<1> QED
  BY <1>1, SerialInit, SerialStep, PTL DEF Spec

=============================================================================
