---------------------- MODULE OutboxDeliveryProofs ----------------------
(***************************************************************************)
(* Proofs about OutboxDelivery for any rows, recipients, runs and bounds.  *)
(***************************************************************************)
EXTENDS OutboxDelivery, FiniteSetTheorems, TLAPS

-----------------------------------------------------------------------------
(* What the helpers return *)

LEMMA OneMoreTyped ==
  ASSUME NEW n \in 0..MaxAttempts
  PROVE  OneMore(n) \in 0..MaxAttempts
BY BoundAssumption DEF OneMore

LEMMA OutcomeTyped ==
  ASSUME NEW r \in Rows, NEW row \in Row, NEW who
  PROVE  Outcome(r, row, who) \in Row
<1>1. OneMore(row.attempts) \in 0..MaxAttempts
  BY OneMoreTyped DEF Row
<1>2. Sent(row) \in Row
  BY DEF Sent, Row, Statuses
<1>3. (row.due /\ r \notin EmailRows) \in BOOLEAN
  OBVIOUS
<1>4. (IF r \in EmailRows /\ LastAttempt(row.attempts) THEN "failed" ELSE row.status) \in Statuses
  BY DEF Row, Statuses
<1>5. Failed(r, row) \in Row
  BY <1>1, <1>3, <1>4 DEF Failed, Row
<1> QED
  BY <1>2, <1>5 DEF Outcome

\* Recipients are never forgotten, so what was delivered enough stays so.
LEMMA DeliveredGrows ==
  ASSUME NEW r \in Rows, NEW who \in SUBSET Recipients, NEW more \in SUBSET Recipients,
         Delivered(r, who)
  PROVE  Delivered(r, who \cup more) /\ Delivered(r, more \cup who)
BY DEF Delivered

-----------------------------------------------------------------------------
(* Types *)

LEMMA TypeInit == Init => TypeOK
BY BoundAssumption, DieAssumption DEF Init, TypeOK, Row, NoRow, Statuses

LEMMA TypeStep == TypeOK /\ [Next]_vars => TypeOK'
<1> SUFFICES ASSUME TypeOK, [Next]_vars PROVE TypeOK'
  OBVIOUS
<1> USE DEF TypeOK
<1>0. NoRow \in Row /\ Queued \in Row
  BY BoundAssumption DEF NoRow, Queued, Row, Statuses
<1>1. ASSUME NEW r \in Rows, Enqueue(r) PROVE TypeOK'
  BY <1>0, <1>1 DEF Enqueue
<1>2. ASSUME NEW r \in Rows, BackoffEnds(r) PROVE TypeOK'
  <2>1. [table[r] EXCEPT !.due = TRUE] \in Row
    BY DEF Row
  <2>2. table' = [table EXCEPT ![r] = [table[r] EXCEPT !.due = TRUE]]
    BY <1>2 DEF BackoffEnds
  <2> QED
    BY <1>2, <2>1, <2>2 DEF BackoffEnds
<1>3. ASSUME NEW w \in Runs, Fetch(w) PROVE TypeOK'
  BY <1>0, <1>3 DEF Fetch
<1>4. ASSUME NEW w \in Runs, NEW r \in Rows, NEW who \in SUBSET Recipients,
             DeliverTo(w, r, who)
      PROVE  TypeOK'
  <2>1. Outcome(r, copy[w][r], who) \in Row
    BY OutcomeTyped
  <2>2. copy' = [copy EXCEPT ![w] = [copy[w] EXCEPT ![r] = Outcome(r, copy[w][r], who)]]
    BY <1>4 DEF DeliverTo
  <2>3. copy' \in [Runs -> [Rows -> Row]]
    BY <2>1, <2>2
  <2> QED
    BY <1>4, <2>3 DEF DeliverTo
<1>5. ASSUME NEW w \in Runs, NEW r \in Rows, SaveRow(w, r) PROVE TypeOK'
  <2>1. PICK row \in {copy[w][r], [copy[w][r] EXCEPT !.attempts = OneMore(@)]} :
          table' = [table EXCEPT ![r] = row]
    BY <1>5 DEF SaveRow
  <2>2. row \in Row
    <3>1. copy[w][r] \in Row
      OBVIOUS
    <3>2. OneMore(copy[w][r].attempts) \in 0..MaxAttempts
      BY <3>1, OneMoreTyped DEF Row
    <3>3. [copy[w][r] EXCEPT !.attempts = OneMore(@)] \in Row
      <4> HIDE DEF TypeOK
      <4> QED
        BY <3>1, <3>2 DEF Row
    <3> QED
      BY <3>1, <3>3
  <2>3. copy' \in [Runs -> [Rows -> Row]]
    BY <1>0, <1>5 DEF SaveRow
  <2> QED
    BY <1>5, <2>1, <2>2, <2>3 DEF SaveRow
<1>6. ASSUME NEW w \in Runs, Die(w) PROVE TypeOK'
  BY <1>0, <1>6, DieAssumption DEF Die
<1>7. ASSUME UNCHANGED vars PROVE TypeOK'
  BY <1>7 DEF vars
<1> QED
  BY <1>1, <1>2, <1>3, <1>4, <1>5, <1>6, <1>7 DEF Next, Deliver, Save

\* Rows and loaded copies keep their type: the count of attempts never passes its bound.
THEOREM OutboxTyped == Spec => []TypeOK
BY TypeInit, TypeStep, PTL DEF Spec

-----------------------------------------------------------------------------
(* What counts as sent was received, and what counts as failed was tried *)

\* A row, in the table or in the hands of a run, tells the truth about its delivery.
Honest(r, row) ==
  /\ row.status = "sent" => Delivered(r, told[r])
  /\ row.status = "failed" => r \in EmailRows /\ row.attempts = MaxAttempts

TableHonest == \A r \in Rows : Honest(r, table[r])
CopiesHonest == \A w \in Runs, r \in Rows : Honest(r, copy[w][r])
HonestInv == TableHonest /\ CopiesHonest

LEMMA HonestInit == Init => HonestInv
BY DEF Init, HonestInv, TableHonest, CopiesHonest, Honest, NoRow

LEMMA OutcomeHonest ==
  ASSUME TypeOK, NEW r \in Rows, NEW row \in Row, NEW who \in SUBSET Recipients,
         Honest(r, row)
  PROVE  LET o == Outcome(r, row, who) IN
         /\ o.status = "sent" => Delivered(r, told[r] \cup who)
         /\ o.status = "failed" => r \in EmailRows /\ o.attempts = MaxAttempts
<1>0. told[r] \in SUBSET Recipients
  BY DEF TypeOK
<1>1. CASE Delivered(r, who)
  <2>1. Outcome(r, row, who).status = "sent"
    BY <1>1 DEF Outcome, Sent, Row
  <2>2. Delivered(r, told[r] \cup who)
    BY <1>0, <1>1, DeliveredGrows
  <2> QED
    BY <2>1, <2>2
<1>2. CASE ~Delivered(r, who)
  <2>1. Outcome(r, row, who) = Failed(r, row)
    BY <1>2 DEF Outcome
  <2>2. Failed(r, row).status = "sent" => Delivered(r, told[r] \cup who)
    <3>1. Failed(r, row).status = "sent" => row.status = "sent"
      BY DEF Failed
    <3> QED
      BY <1>0, <3>1, DeliveredGrows DEF Honest
  <2>3. Failed(r, row).status = "failed"
          => r \in EmailRows /\ Failed(r, row).attempts = MaxAttempts
    <3>1. Failed(r, row).attempts = OneMore(row.attempts)
      BY DEF Failed
    <3>2. CASE row.status = "failed"
      BY <3>1, <3>2, BoundAssumption DEF Honest, OneMore
    <3>3. CASE row.status # "failed"
      BY <3>1, <3>3 DEF Failed, LastAttempt
    <3> QED
      BY <3>2, <3>3
  <2> QED
    BY <2>1, <2>2, <2>3
<1> QED
  BY <1>1, <1>2

LEMMA HonestStep == TypeOK /\ HonestInv /\ [Next]_vars => HonestInv'
<1> SUFFICES ASSUME TypeOK, HonestInv, [Next]_vars PROVE HonestInv'
  OBVIOUS
<1> USE DEF HonestInv
<1>1. ASSUME NEW r \in Rows, Enqueue(r) PROVE HonestInv'
  BY <1>1 DEF TypeOK, Enqueue, Queued, TableHonest, CopiesHonest, Honest
<1>2. ASSUME NEW r \in Rows, BackoffEnds(r) PROVE HonestInv'
  <2>1. PICK row : row = [table[r] EXCEPT !.due = TRUE]
    OBVIOUS
  <2>2. row.status = table[r].status /\ row.attempts = table[r].attempts
    BY <2>1 DEF TypeOK, Row
  <2>3. table' = [table EXCEPT ![r] = row]
    BY <1>2, <2>1 DEF BackoffEnds
  <2> QED
    BY <1>2, <2>2, <2>3 DEF TypeOK, BackoffEnds, TableHonest, CopiesHonest, Honest
<1>3. ASSUME NEW w \in Runs, Fetch(w) PROVE HonestInv'
  <2>1. \A v \in Runs, r \in Rows :
          copy'[v][r] = copy[v][r] \/ copy'[v][r] = table[r] \/ copy'[v][r] = NoRow
    BY <1>3 DEF TypeOK, Fetch
  <2>2. CopiesHonest'
    BY <1>3, <2>1 DEF Fetch, TableHonest, CopiesHonest, Honest, NoRow
  <2>3. TableHonest'
    BY <1>3 DEF Fetch, TableHonest, Honest
  <2> QED
    BY <2>2, <2>3
<1>4. ASSUME NEW w \in Runs, NEW r \in Rows, NEW who \in SUBSET Recipients,
             DeliverTo(w, r, who)
      PROVE  HonestInv'
  <2>1. PICK o : o = Outcome(r, copy[w][r], who)
    OBVIOUS
  <2>2. copy' = [copy EXCEPT ![w] = [copy[w] EXCEPT ![r] = o]]
    BY <1>4, <2>1 DEF DeliverTo
  <2>3. told'[r] = told[r] \cup who /\ \A q \in Rows \ {r} : told'[q] = told[q]
    BY <1>4 DEF DeliverTo, TypeOK
  <2>4. \A q \in Rows : \A row : Honest(q, row) => Honest(q, row)'
    <3> SUFFICES ASSUME NEW q \in Rows, NEW row, row.status = "sent" => Delivered(q, told[q])
                 PROVE  row.status = "sent" => Delivered(q, told'[q])
      BY DEF Honest, Delivered
    <3>1. CASE q = r
      <4>1. told[r] \in SUBSET Recipients
        BY DEF TypeOK
      <4>2. Delivered(r, told[r]) => Delivered(r, told[r] \cup who)
        BY <4>1, DeliveredGrows
      <4> QED
        BY <2>3, <3>1, <4>2
    <3>2. CASE q # r
      BY <2>3, <3>2
    <3> QED
      BY <3>1, <3>2
  <2>5. Honest(r, o)'
    <3>1. copy[w][r] \in Row /\ Honest(r, copy[w][r])
      BY DEF TypeOK, CopiesHonest
    <3>2. /\ o.status = "sent" => Delivered(r, told[r] \cup who)
          /\ o.status = "failed" => r \in EmailRows /\ o.attempts = MaxAttempts
      BY <2>1, <3>1, OutcomeHonest
    <3> QED
      BY <2>3, <3>2 DEF Honest, Delivered
  <2>6. TableHonest'
    BY <1>4, <2>4 DEF DeliverTo, TableHonest
  <2>7. CopiesHonest'
    BY <2>2, <2>4, <2>5 DEF CopiesHonest, TypeOK
  <2> QED
    BY <2>6, <2>7
<1>5. ASSUME NEW w \in Runs, NEW r \in Rows, SaveRow(w, r) PROVE HonestInv'
  <2>1. PICK row \in {copy[w][r], [copy[w][r] EXCEPT !.attempts = OneMore(@)]} :
          table' = [table EXCEPT ![r] = row]
    BY <1>5 DEF SaveRow
  <2>2. Honest(r, row)
    <3>1. copy[w][r] \in Row /\ Honest(r, copy[w][r])
      BY DEF TypeOK, CopiesHonest
    <3> QED
      BY <3>1, BoundAssumption DEF Honest, Row, OneMore
  <2>3. TableHonest'
    BY <1>5, <2>1, <2>2 DEF TypeOK, SaveRow, TableHonest, Honest
  <2>4. \A v \in Runs, q \in Rows : copy'[v][q] = copy[v][q] \/ copy'[v][q] = NoRow
    BY <1>5 DEF TypeOK, SaveRow
  <2>5. CopiesHonest'
    BY <1>5, <2>4 DEF SaveRow, CopiesHonest, Honest, NoRow
  <2> QED
    BY <2>3, <2>5
<1>6. ASSUME NEW w \in Runs, Die(w) PROVE HonestInv'
  <2>1. \A v \in Runs, q \in Rows : copy'[v][q] = copy[v][q] \/ copy'[v][q] = NoRow
    BY <1>6 DEF TypeOK, Die
  <2> QED
    BY <1>6, <2>1 DEF Die, TableHonest, CopiesHonest, Honest, NoRow
<1>7. ASSUME UNCHANGED vars PROVE HonestInv'
  BY <1>7 DEF vars, TableHonest, CopiesHonest, Honest
<1> QED
  BY <1>1, <1>2, <1>3, <1>4, <1>5, <1>6, <1>7 DEF Next, Deliver, Save

\* However many runs overlap, whatever stale copies they save and wherever they die, a
\* row that counts as sent was received, and only emails are given up, after every attempt.
THEOREM SettledIsHonest == Spec => []SettledIsTrue
<1>1. HonestInv => SettledIsTrue
  BY DEF HonestInv, TableHonest, Honest, SettledIsTrue, SentWasTold, FailedWasTried
<1> QED
  BY <1>1, HonestInit, HonestStep, OutboxTyped, PTL DEF Spec

-----------------------------------------------------------------------------
(* One run at a time keeps the promise *)

OneRun == \A v, w \in Runs : v = w

\* The rows a run holds are still pending: nobody else can have settled them.
HeldArePending ==
  \A w \in Runs, r \in Rows : copy[w][r].status # "absent" => table[r].status = "pending"

LEMMA HeldInit == Init => HeldArePending
BY DEF Init, HeldArePending, NoRow

LEMMA HeldStep == ASSUME OneRun PROVE TypeOK /\ HeldArePending /\ [Next]_vars => HeldArePending'
<1> SUFFICES ASSUME TypeOK, HeldArePending, [Next]_vars PROVE HeldArePending'
  OBVIOUS
<1>1. ASSUME NEW r \in Rows, Enqueue(r) PROVE HeldArePending'
  BY <1>1 DEF TypeOK, Enqueue, Queued, HeldArePending
<1>2. ASSUME NEW r \in Rows, BackoffEnds(r) PROVE HeldArePending'
  <2>1. PICK row : row = [table[r] EXCEPT !.due = TRUE]
    OBVIOUS
  <2>2. row.status = table[r].status
    BY <2>1 DEF TypeOK, Row
  <2>3. table' = [table EXCEPT ![r] = row]
    BY <1>2, <2>1 DEF BackoffEnds
  <2> QED
    BY <1>2, <2>2, <2>3 DEF TypeOK, BackoffEnds, HeldArePending
<1>3. ASSUME NEW w \in Runs, Fetch(w) PROVE HeldArePending'
  BY <1>3 DEF TypeOK, Fetch, FirstOf, Due, NoRow, HeldArePending
<1>4. ASSUME NEW w \in Runs, NEW r \in Rows, NEW who \in SUBSET Recipients,
             DeliverTo(w, r, who)
      PROVE  HeldArePending'
  <2>1. PICK o : o = Outcome(r, copy[w][r], who)
    OBVIOUS
  <2>2. copy' = [copy EXCEPT ![w] = [copy[w] EXCEPT ![r] = o]]
    BY <1>4, <2>1 DEF DeliverTo
  <2>3. copy[w][r].status # "absent"
    BY <1>4 DEF DeliverTo, IsNext, Batch
  <2> QED
    BY <1>4, <2>2, <2>3 DEF TypeOK, DeliverTo, HeldArePending
<1>5. ASSUME NEW w \in Runs, NEW r \in Rows, SaveRow(w, r) PROVE HeldArePending'
  <2>1. PICK row : table' = [table EXCEPT ![r] = row]
    BY <1>5 DEF SaveRow
  <2>2. copy' = [copy EXCEPT ![w] = [copy[w] EXCEPT ![r] = NoRow]]
    BY <1>5 DEF SaveRow
  <2> SUFFICES ASSUME NEW v \in Runs, NEW q \in Rows, copy'[v][q].status # "absent"
               PROVE  table'[q].status = "pending"
    BY DEF HeldArePending
  <2>3. v = w
    BY DEF OneRun
  <2>4. q # r
    BY <2>2, <2>3 DEF TypeOK, NoRow
  <2> QED
    BY <2>1, <2>2, <2>3, <2>4 DEF TypeOK, HeldArePending
<1>6. ASSUME NEW w \in Runs, Die(w) PROVE HeldArePending'
  BY <1>6 DEF TypeOK, Die, NoRow, HeldArePending
<1>7. ASSUME UNCHANGED vars PROVE HeldArePending'
  BY <1>7 DEF vars, HeldArePending
<1> QED
  BY <1>1, <1>2, <1>3, <1>4, <1>5, <1>6, <1>7 DEF Next, Deliver, Save

\* A run that works alone implements OutboxPromise, wherever it dies.
THEOREM OneRunKeepsPromise == ASSUME OneRun PROVE Spec => PromiseKept
<1>1. Init => Promise!Init
  BY DEF Init, Promise!Init, NoRow
<1>2. TypeOK /\ HonestInv /\ HeldArePending /\ [Next]_vars
        => [Promise!Next]_<<[r \in Rows |-> table[r].status], told>>
  <2> SUFFICES ASSUME TypeOK, HonestInv, HeldArePending, [Next]_vars
               PROVE  [Promise!Next]_<<[r \in Rows |-> table[r].status], told>>
    OBVIOUS
  <2> DEFINE fate == [r \in Rows |-> table[r].status]
  <2>1. ASSUME NEW r \in Rows, Enqueue(r) PROVE Promise!Enqueue(r)
    BY <2>1 DEF TypeOK, Enqueue, Queued, Promise!Enqueue
  <2>2. ASSUME NEW r \in Rows, BackoffEnds(r) PROVE UNCHANGED <<fate, told>>
    <3>1. PICK row : row = [table[r] EXCEPT !.due = TRUE]
      OBVIOUS
    <3>2. row.status = table[r].status
      BY <3>1 DEF TypeOK, Row
    <3>3. table' = [table EXCEPT ![r] = row]
      BY <2>2, <3>1 DEF BackoffEnds
    <3> QED
      BY <2>2, <3>2, <3>3 DEF TypeOK, BackoffEnds
  <2>3. ASSUME NEW w \in Runs, Fetch(w) PROVE UNCHANGED <<fate, told>>
    BY <2>3 DEF Fetch
  <2>4. ASSUME NEW w \in Runs, NEW r \in Rows, NEW who \in SUBSET Recipients,
               DeliverTo(w, r, who)
        PROVE  Promise!Tell(r)
    <3>1. table[r].status = "pending"
      BY <2>4 DEF DeliverTo, IsNext, Batch, HeldArePending
    <3> QED
      BY <2>4, <3>1 DEF DeliverTo, Promise!Tell
  <2>5. ASSUME NEW w \in Runs, NEW r \in Rows, SaveRow(w, r)
        PROVE  Promise!Settle(r) \/ UNCHANGED <<fate, told>>
    <3>1. PICK row \in {copy[w][r], [copy[w][r] EXCEPT !.attempts = OneMore(@)]} :
            table' = [table EXCEPT ![r] = row]
      BY <2>5 DEF SaveRow
    <3>2. row.status = copy[w][r].status
      BY DEF TypeOK, Row
    <3>3. row.status # "absent" /\ table[r].status = "pending"
      BY <2>5, <3>2 DEF SaveRow, IsNext, Batch, HeldArePending
    <3>4. Honest(r, copy[w][r])
      BY DEF HonestInv, CopiesHonest
    <3>5. fate' = [fate EXCEPT ![r] = row.status] /\ told' = told
      BY <2>5, <3>1 DEF TypeOK, SaveRow
    <3>6. CASE row.status = "sent"
      <4>1. Promise!ToldEnough(r, told[r])
        BY <3>2, <3>4, <3>6 DEF Honest, Delivered, Promise!ToldEnough
      <4> QED
        BY <3>3, <3>5, <3>6, <4>1 DEF Promise!Settle
    <3>7. CASE row.status = "failed"
      BY <3>2, <3>3, <3>4, <3>5, <3>7 DEF Honest, Promise!Settle
    <3>8. CASE row.status = "pending"
      BY <3>3, <3>5, <3>8
    <3> QED
      BY <3>2, <3>3, <3>6, <3>7, <3>8 DEF TypeOK, Row, Statuses
  <2>6. ASSUME NEW w \in Runs, Die(w) PROVE UNCHANGED <<fate, told>>
    BY <2>6 DEF Die
  <2>7. ASSUME UNCHANGED vars PROVE UNCHANGED <<fate, told>>
    BY <2>7 DEF vars
  <2> QED
    BY <2>1, <2>2, <2>3, <2>4, <2>5, <2>6, <2>7 DEF Next, Deliver, Save, Promise!Next
<1> QED
  BY <1>1, <1>2, OutboxTyped, HonestInit, HonestStep, HeldInit, HeldStep, PTL
  DEF Spec, PromiseKept, Promise!Spec

-----------------------------------------------------------------------------
(* One run at a time repeats a mail only by dying *)

\* Where a run stands tells what its copies may say: only the row it is about to save
\* has an outcome.
CopiesFollowPhase ==
  \A w \in Runs, r \in Rows :
    \/ copy[w][r].status = "absent"
    \/ phase[w] = "working" /\ copy[w][r].status = "pending"
    \/ phase[w] = "saving" /\ (copy[w][r].status = "pending" \/ IsNext(w, r))

LEMMA FollowInit == Init => CopiesFollowPhase
BY DEF Init, CopiesFollowPhase, NoRow

LEMMA FollowStep ==
  TypeOK /\ HeldArePending /\ CopiesFollowPhase /\ [Next]_vars => CopiesFollowPhase'
<1> SUFFICES ASSUME TypeOK, HeldArePending, CopiesFollowPhase, [Next]_vars
             PROVE  CopiesFollowPhase'
  OBVIOUS
<1>1. ASSUME UNCHANGED <<phase, copy>> PROVE CopiesFollowPhase'
  BY <1>1 DEF CopiesFollowPhase, IsNext, Batch
<1>2. ASSUME NEW w \in Runs, Fetch(w) PROVE CopiesFollowPhase'
  <2> SUFFICES ASSUME NEW v \in Runs, NEW q \in Rows, copy'[v][q].status # "absent"
               PROVE  \/ phase'[v] = "working" /\ copy'[v][q].status = "pending"
                      \/ phase'[v] = "saving" /\ (copy'[v][q].status = "pending" \/ IsNext(v, q)')
    BY DEF CopiesFollowPhase
  <2>1. CASE v = w
    BY <1>2, <2>1 DEF TypeOK, Fetch, FirstOf, Due, NoRow
  <2>2. CASE v # w
    BY <1>2, <2>2 DEF TypeOK, Fetch, CopiesFollowPhase, IsNext, Batch
  <2> QED
    BY <2>1, <2>2
<1>3. ASSUME NEW w \in Runs, NEW r \in Rows, NEW who \in SUBSET Recipients,
             DeliverTo(w, r, who)
      PROVE  CopiesFollowPhase'
  <2>1. PICK o : o = Outcome(r, copy[w][r], who)
    OBVIOUS
  <2>2. copy' = [copy EXCEPT ![w] = [copy[w] EXCEPT ![r] = o]]
    BY <1>3, <2>1 DEF DeliverTo
  <2>3. copy[w][r].status = "pending"
    BY <1>3 DEF DeliverTo, IsNext, Batch, CopiesFollowPhase
  <2>4. o.status # "absent"
    BY <2>1, <2>3 DEF Outcome, Sent, Failed, TypeOK, Row
  <2>5. Batch(w)' = Batch(w)
    BY <1>3, <2>2, <2>4 DEF DeliverTo, IsNext, Batch, TypeOK
  <2>6. IsNext(w, r)'
    BY <1>3, <2>5 DEF DeliverTo, IsNext
  <2> SUFFICES ASSUME NEW v \in Runs, NEW q \in Rows, copy'[v][q].status # "absent"
               PROVE  \/ phase'[v] = "working" /\ copy'[v][q].status = "pending"
                      \/ phase'[v] = "saving" /\ (copy'[v][q].status = "pending" \/ IsNext(v, q)')
    BY DEF CopiesFollowPhase
  <2>7. CASE v = w /\ q = r
    BY <1>3, <2>6, <2>7 DEF TypeOK, DeliverTo
  <2>8. CASE v = w /\ q # r
    BY <1>3, <2>2, <2>8 DEF TypeOK, DeliverTo, CopiesFollowPhase
  <2>9. CASE v # w
    BY <1>3, <2>2, <2>9 DEF TypeOK, DeliverTo, CopiesFollowPhase, IsNext, Batch
  <2> QED
    BY <2>7, <2>8, <2>9
<1>4. ASSUME NEW w \in Runs, NEW r \in Rows, SaveRow(w, r) PROVE CopiesFollowPhase'
  <2>1. copy' = [copy EXCEPT ![w] = [copy[w] EXCEPT ![r] = NoRow]]
    BY <1>4 DEF SaveRow
  <2> SUFFICES ASSUME NEW v \in Runs, NEW q \in Rows, copy'[v][q].status # "absent"
               PROVE  \/ phase'[v] = "working" /\ copy'[v][q].status = "pending"
                      \/ phase'[v] = "saving" /\ (copy'[v][q].status = "pending" \/ IsNext(v, q)')
    BY DEF CopiesFollowPhase
  <2>2. CASE v = w
    <3>1. q # r
      BY <2>1, <2>2 DEF TypeOK, NoRow
    <3>2. q \in Batch(w) /\ copy'[w][q] = copy[w][q]
      BY <2>1, <2>2, <3>1 DEF TypeOK, Batch
    <3>3. ~IsNext(w, q)
      <4>1. r \in Nat /\ q \in Nat /\ r <= q
        BY <1>4, <3>2, RowAssumption DEF SaveRow, IsNext, Batch
      <4>2. IsNext(w, q) => q <= r
        BY <1>4 DEF SaveRow, IsNext
      <4> QED
        BY <3>1, <4>1, <4>2
    <3>4. phase'[w] = "working"
      BY <1>4, <3>1, <3>2 DEF TypeOK, SaveRow
    <3>5. copy[w][q].status = "pending"
      BY <1>4, <3>2, <3>3 DEF SaveRow, CopiesFollowPhase, Batch
    <3> QED
      BY <2>2, <3>2, <3>4, <3>5
  <2>3. CASE v # w
    BY <1>4, <2>1, <2>3 DEF TypeOK, SaveRow, CopiesFollowPhase, IsNext, Batch
  <2> QED
    BY <2>2, <2>3
<1>5. ASSUME NEW w \in Runs, Die(w) PROVE CopiesFollowPhase'
  BY <1>5 DEF TypeOK, Die, NoRow, CopiesFollowPhase, IsNext, Batch
<1> QED
  BY <1>1, <1>2, <1>3, <1>4, <1>5
  DEF Next, Deliver, Save, Enqueue, BackoffEnds, vars

\* The emails that somebody has received although nothing says so, in the table or in the
\* hands of a run: they may be sent again.
AtRisk ==
  {r \in EmailRows : /\ told[r] # {}
                     /\ table[r].status # "sent"
                     /\ \A w \in Runs : copy[w][r].status # "sent"}

Endangered == Repeated \cup AtRisk

\* Counted together, these emails grow in number only when a run dies.
EachCostsADeath == IsFiniteSet(Endangered) /\ Cardinality(Endangered) <= deaths

LEMMA EndangeredInit == Init => EachCostsADeath
<1> SUFFICES ASSUME Init PROVE EachCostsADeath
  OBVIOUS
<1>1. Endangered = {}
  BY RowAssumption DEF Init, Endangered, Repeated, AtRisk
<1> QED
  BY <1>1, FS_EmptySet DEF Init, EachCostsADeath

\* Without a death nothing becomes endangered.
LEMMA EndangeredShrinks ==
  ASSUME OneRun, TypeOK, HeldArePending, CopiesFollowPhase, [Next]_vars,
         \A w \in Runs : ~Die(w)
  PROVE  Endangered' \subseteq Endangered /\ deaths' = deaths
<1> USE RowAssumption
<1>1. ASSUME NEW r \in Rows, Enqueue(r) PROVE Endangered' \subseteq Endangered
  <2>1. \A q \in Rows : table[q].status = "sent" => table'[q] = table[q]
    BY <1>1 DEF TypeOK, Enqueue
  <2> QED
    BY <1>1, <2>1 DEF Enqueue, Endangered, Repeated, AtRisk
<1>2. ASSUME NEW r \in Rows, BackoffEnds(r) PROVE Endangered' \subseteq Endangered
  <2>1. \A q \in Rows : table[q].status = "sent" => table'[q] = table[q]
    BY <1>2 DEF TypeOK, BackoffEnds
  <2> QED
    BY <1>2, <2>1 DEF BackoffEnds, Endangered, Repeated, AtRisk
<1>3. ASSUME NEW w \in Runs, Fetch(w) PROVE Endangered' \subseteq Endangered
  <2>1. \A v \in Runs, q \in Rows : copy[v][q].status # "sent"
    BY <1>3 DEF Fetch, OneRun, CopiesFollowPhase
  <2> QED
    BY <1>3, <2>1 DEF Fetch, Endangered, Repeated, AtRisk
<1>4. ASSUME NEW w \in Runs, NEW r \in Rows, NEW who \in SUBSET Recipients,
             DeliverTo(w, r, who)
      PROVE  Endangered' \subseteq Endangered
  <2>1. PICK o : o = Outcome(r, copy[w][r], who)
    OBVIOUS
  <2>2. copy' = [copy EXCEPT ![w] = [copy[w] EXCEPT ![r] = o]]
    BY <1>4, <2>1 DEF DeliverTo
  <2>3. copy[w][r].status = "pending" /\ table[r].status = "pending"
    BY <1>4 DEF DeliverTo, IsNext, Batch, CopiesFollowPhase, HeldArePending
  <2>4. r \in EmailRows /\ told[r] # {} => r \in AtRisk
    BY <2>3 DEF OneRun, AtRisk
  <2>5. Repeated' \subseteq Endangered
    <3>1. again' = again \cup {<<r, p>> : p \in who \cap told[r]}
      BY <1>4 DEF DeliverTo
    <3> SUFFICES ASSUME NEW q \in EmailRows, NEW p \in Recipients, <<q, p>> \in again',
                        <<q, p>> \notin again
                 PROVE  q \in AtRisk
      BY DEF Repeated, Endangered
    <3>2. q = r /\ p \in told[r]
      BY <3>1
    <3> QED
      BY <2>4, <3>2
  <2>6. AtRisk' \subseteq AtRisk
    <3> SUFFICES ASSUME NEW q \in EmailRows, q \in AtRisk' PROVE q \in AtRisk
      BY DEF AtRisk
    <3>1. CASE q = r
      <4>1. told'[r] = told[r] \cup who
        BY <1>4 DEF TypeOK, DeliverTo
      <4>2. who # {} => o.status = "sent"
        BY <2>1, <3>1 DEF Outcome, Delivered, Sent, TypeOK, Row
      <4>3. copy'[w][r] = o
        BY <2>2 DEF TypeOK
      <4>4. who = {}
        BY <3>1, <4>2, <4>3 DEF AtRisk
      <4>5. told'[q] # {}
        BY DEF AtRisk
      <4> QED
        BY <2>4, <3>1, <4>1, <4>4, <4>5
    <3>2. CASE q # r
      <4>1. told'[q] = told[q] /\ table' = table /\ \A v \in Runs : copy'[v][q] = copy[v][q]
        BY <1>4, <2>2, <3>2 DEF TypeOK, DeliverTo
      <4> QED
        BY <4>1 DEF AtRisk
    <3> QED
      BY <3>1, <3>2
  <2> QED
    BY <2>5, <2>6 DEF Endangered
<1>5. ASSUME NEW w \in Runs, NEW r \in Rows, SaveRow(w, r)
      PROVE  Endangered' \subseteq Endangered
  <2>1. PICK row \in {copy[w][r], [copy[w][r] EXCEPT !.attempts = OneMore(@)]} :
          table' = [table EXCEPT ![r] = row]
    BY <1>5 DEF SaveRow
  <2>2. row.status = copy[w][r].status
    <3>1. copy[w][r] \in Row
      BY DEF TypeOK
    <3> QED
      BY <3>1 DEF Row
  <2>3. copy' = [copy EXCEPT ![w] = [copy[w] EXCEPT ![r] = NoRow]]
    BY <1>5 DEF SaveRow
  <2>4. table[r].status = "pending"
    BY <1>5 DEF SaveRow, IsNext, Batch, HeldArePending
  <2>5. told' = told /\ again' = again
    BY <1>5 DEF SaveRow
  <2>6. AtRisk' \subseteq AtRisk
    <3> SUFFICES ASSUME NEW q \in EmailRows, q \in AtRisk' PROVE q \in AtRisk
      BY DEF AtRisk
    <3>1. CASE q = r
      <4>1. copy[w][r].status # "sent"
        BY <2>1, <2>2, <3>1 DEF TypeOK, AtRisk
      <4> QED
        BY <2>4, <2>5, <3>1, <4>1 DEF OneRun, AtRisk
    <3>2. CASE q # r
      <4>1. table'[q] = table[q] /\ \A v \in Runs : copy'[v][q] = copy[v][q]
        BY <2>1, <2>3, <3>2 DEF TypeOK
      <4> QED
        BY <2>5, <4>1 DEF AtRisk
    <3> QED
      BY <3>1, <3>2
  <2> QED
    BY <2>5, <2>6 DEF Endangered, Repeated
<1>6. ASSUME UNCHANGED vars PROVE Endangered' \subseteq Endangered
  BY <1>6 DEF vars, Endangered, Repeated, AtRisk
<1>7. deaths' = deaths
  BY DEF Next, Deliver, Save, Enqueue, BackoffEnds, Fetch, DeliverTo, SaveRow, vars
<1> QED
  BY <1>1, <1>2, <1>3, <1>4, <1>5, <1>6, <1>7 DEF Next, Deliver, Save

\* A run that dies forgets at most one outcome: that of the row it was about to save.
LEMMA DeathEndangersOne ==
  ASSUME OneRun, TypeOK, CopiesFollowPhase, NEW w \in Runs, Die(w)
  PROVE  (\E r : Endangered' \subseteq Endangered \cup {r}) /\ deaths' = deaths + 1
<1>1. \E r : AtRisk' \subseteq AtRisk \cup {r}
  <2>1. CASE \E r \in Rows : IsNext(w, r)
    <3>1. PICK r \in Rows : IsNext(w, r)
      BY <2>1
    <3>2. ASSUME NEW q \in AtRisk', q # r PROVE q \in AtRisk
      <4>1. q \in EmailRows /\ q \in Rows /\ told[q] # {} /\ table[q].status # "sent"
        BY RowAssumption DEF Die, AtRisk
      <4>2. ~IsNext(w, q)
        <5>1. IsNext(w, q) => q <= r /\ r <= q
          BY <3>1 DEF IsNext
        <5> QED
          BY <3>1, <3>2, <4>1, <5>1, RowAssumption
      <4>3. copy[w][q].status # "sent"
        BY <4>1, <4>2 DEF CopiesFollowPhase
      <4> QED
        BY <4>1, <4>3 DEF OneRun, AtRisk
    <3> QED
      BY <3>2
  <2>2. CASE ~\E r \in Rows : IsNext(w, r)
    <3>1. ASSUME NEW q \in AtRisk' PROVE q \in AtRisk
      <4>1. q \in EmailRows /\ q \in Rows /\ told[q] # {} /\ table[q].status # "sent"
        BY RowAssumption DEF Die, AtRisk
      <4>2. copy[w][q].status # "sent"
        BY <2>2, <4>1 DEF CopiesFollowPhase
      <4> QED
        BY <4>1, <4>2 DEF OneRun, AtRisk
    <3> QED
      BY <3>1
  <2> QED
    BY <2>1, <2>2
<1>2. Repeated' = Repeated /\ deaths' = deaths + 1
  BY DEF Die, Repeated
<1> QED
  BY <1>1, <1>2 DEF Endangered

LEMMA EndangeredStep ==
  ASSUME OneRun
  PROVE  TypeOK /\ HeldArePending /\ CopiesFollowPhase /\ EachCostsADeath /\ [Next]_vars
           => EachCostsADeath'
<1> SUFFICES ASSUME TypeOK, HeldArePending, CopiesFollowPhase, EachCostsADeath, [Next]_vars
             PROVE  EachCostsADeath'
  OBVIOUS
<1> DEFINE E == Endangered
<1>0. IsFiniteSet(E) /\ Cardinality(E) <= deaths /\ Cardinality(E) \in Nat /\ deaths \in Nat
  BY FS_CardinalityType, DieAssumption DEF EachCostsADeath, TypeOK
<1>1. CASE \A w \in Runs : ~Die(w)
  <2>1. E' \subseteq E /\ deaths' = deaths
    BY <1>1, EndangeredShrinks
  <2>2. IsFiniteSet(E') /\ Cardinality(E') <= Cardinality(E) /\ Cardinality(E') \in Nat
    BY <1>0, <2>1, FS_Subset, FS_CardinalityType
  <2> QED
    BY <1>0, <2>1, <2>2 DEF EachCostsADeath
<1>2. ASSUME NEW w \in Runs, Die(w) PROVE EachCostsADeath'
  <2>1. PICK r : E' \subseteq E \cup {r}
    BY <1>2, DeathEndangersOne
  <2>2. deaths' = deaths + 1
    BY <1>2, DeathEndangersOne
  <2>3. IsFiniteSet(E \cup {r}) /\ Cardinality(E \cup {r}) <= Cardinality(E) + 1
    <3> HIDE DEF E
    <3>1. /\ IsFiniteSet(E \cup {r})
          /\ Cardinality(E \cup {r}) = IF r \in E THEN Cardinality(E) ELSE Cardinality(E) + 1
      BY <1>0, FS_AddElement
    <3> QED
      BY <1>0, <3>1
  <2>4. Cardinality(E \cup {r}) \in Nat
    BY <2>3, FS_CardinalityType
  <2>5. IsFiniteSet(E') /\ Cardinality(E') <= Cardinality(E \cup {r}) /\ Cardinality(E') \in Nat
    BY <2>1, <2>3, FS_Subset, FS_CardinalityType
  <2> QED
    BY <1>0, <2>2, <2>3, <2>4, <2>5 DEF EachCostsADeath
<1> QED
  BY <1>1, <1>2

\* One run at a time repeats at most as many mails as it has died: an email is tried again
\* only when no address has taken it, or when the run that sent it was lost before it could
\* save that.
THEOREM OneRunRepeatsByDying == ASSUME OneRun PROVE Spec => []RepeatsNeedDeaths
<1>1. TypeOK /\ EachCostsADeath => RepeatsNeedDeaths
  <2> SUFFICES ASSUME TypeOK, EachCostsADeath PROVE RepeatsNeedDeaths
    OBVIOUS
  <2>1. Repeated \subseteq Endangered
    BY DEF Endangered
  <2>2. /\ Cardinality(Repeated) <= Cardinality(Endangered)
        /\ Cardinality(Repeated) \in Nat /\ Cardinality(Endangered) \in Nat
    BY <2>1, FS_Subset, FS_CardinalityType DEF EachCostsADeath
  <2> QED
    BY <2>2, DieAssumption DEF EachCostsADeath, RepeatsNeedDeaths, TypeOK
<1> QED
  BY <1>1, HeldInit, HeldStep, FollowInit, FollowStep, EndangeredInit, EndangeredStep,
     OutboxTyped, PTL DEF Spec
=============================================================================
