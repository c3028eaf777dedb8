------------------------- MODULE OutboxDelivery -------------------------
(***************************************************************************)
(* The delivery of chatbot_outbox rows: ChatbotOutboxService.run, started  *)
(* by a cron every minute and by hand (POST /outbox/run).  The lock of the *)
(* query ends with its own transaction, so runs may work on the same rows, *)
(* each on the copies it has loaded.                                       *)
(***************************************************************************)
EXTENDS Integers, FiniteSets

CONSTANTS
  Rows,         \* ids of outbox rows
  EmailRows,    \* the rows whose channel is 'email'; the others are 'inapp'
  Recipients,   \* whom a row is addressed to: users or email addresses
  Runs,         \* executions of run() that may be in progress at once
  BatchSize,    \* rows a run takes: 20
  MaxAttempts,  \* failed attempts before an email is given up: 8
  MaxDeaths     \* bound: how often a run may end early, by a database error or a stopped process

ASSUME RowAssumption == Rows \subseteq Nat /\ EmailRows \subseteq Rows
ASSUME BoundAssumption == BatchSize \in Nat \ {0} /\ MaxAttempts \in Nat \ {0}
ASSUME DieAssumption == MaxDeaths \in Nat

VARIABLES
  table,  \* rows of chatbot_outbox
  told,   \* recipients that have received each row
  again,  \* history: recipients that have received a row more than once
  phase,  \* what each run is doing
  copy,   \* the entities a run has loaded and not yet saved; NoRow for other rows
  deaths  \* history: how often a run ended early

vars == <<table, told, again, phase, copy, deaths>>

-----------------------------------------------------------------------------
Statuses == {"absent", "pending", "sent", "failed"}
Row == [status : Statuses, attempts : 0..MaxAttempts, due : BOOLEAN]
NoRow == [status |-> "absent", attempts |-> 0, due |-> FALSE]
Queued == [status |-> "pending", attempts |-> 0, due |-> TRUE]

\* Mutation: the query forgets to leave out rows that were given up.
DueOrFailed == {r \in Rows : table[r].status \in {"pending", "failed"}}
Due == {r \in Rows : table[r].status = "pending" /\ table[r].due}
FirstOf(S, n) == {r \in S : Cardinality({q \in S : q < r}) < n}

\* Only whether MaxAttempts is reached is ever tested, so the count stops there.
\* Mutation: it does not.
OneMoreUncapped(n) == n + 1
OneMore(n) == IF n < MaxAttempts THEN n + 1 ELSE n

\* Mutation: a mail counts as sent only if every address took it.
DeliveredToAll(r, who) == who = Recipients

\* An inapp row throws at the first user it cannot notify; one address that takes the
\* mail is enough for an email row.
Delivered(r, who) ==
  IF r \in EmailRows THEN who # {} \/ Recipients = {} ELSE who = Recipients

\* Mutation: there is no last attempt.
NeverLast(n) == FALSE
LastAttempt(n) == OneMore(n) = MaxAttempts

Sent(row) == [row EXCEPT !.status = "sent"]
\* A failed email waits for its back-off, or is given up; a failed inapp row is due again.
Failed(r, row) ==
  [status   |-> IF r \in EmailRows /\ LastAttempt(row.attempts) THEN "failed" ELSE row.status,
   attempts |-> OneMore(row.attempts),
   due      |-> row.due /\ r \notin EmailRows]

\* Mutation: a row counts as sent whatever happened.
OutcomeSent(r, row, who) == Sent(row)
Outcome(r, row, who) == IF Delivered(r, who) THEN Sent(row) ELSE Failed(r, row)

-----------------------------------------------------------------------------
(* Steps *)

\* A conversation's transaction inserts the row.
Enqueue(r) ==
  /\ table[r].status = "absent"
  /\ table' = [table EXCEPT ![r] = Queued]
  /\ UNCHANGED <<told, again, phase, copy, deaths>>

\* next_attempt_at <= now()
BackoffEnds(r) ==
  /\ table[r].status = "pending"
  /\ ~table[r].due
  /\ table' = [table EXCEPT ![r].due = TRUE]
  /\ UNCHANGED <<told, again, phase, copy, deaths>>

Fetch(w) ==
  /\ phase[w] = "idle"
  /\ Due # {}
  /\ copy' = [copy EXCEPT ![w] =
                [r \in Rows |-> IF r \in FirstOf(Due, BatchSize) THEN table[r] ELSE NoRow]]
  /\ phase' = [phase EXCEPT ![w] = "working"]
  /\ UNCHANGED <<table, told, again, deaths>>

Batch(w) == {r \in Rows : copy[w][r].status # "absent"}
IsNext(w, r) == r \in Batch(w) /\ \A q \in Batch(w) : r <= q

\* The loop over the recipients of the next row, up to the assignment of its status.
DeliverTo(w, r, who) ==
  /\ phase[w] = "working"
  /\ IsNext(w, r)
  /\ told' = [told EXCEPT ![r] = @ \cup who]
  /\ again' = again \cup {<<r, p>> : p \in who \cap told[r]}
  /\ copy' = [copy EXCEPT ![w][r] = Outcome(r, @, who)]
  /\ phase' = [phase EXCEPT ![w] = "saving"]
  /\ UNCHANGED <<table, deaths>>

Deliver(w) == \E r \in Rows, who \in SUBSET Recipients : DeliverTo(w, r, who)

\* The whole entity is saved.  When the save throws, the catch block counts one more
\* attempt and saves again.
SaveRow(w, r) ==
  /\ phase[w] = "saving"
  /\ IsNext(w, r)
  /\ \E row \in {copy[w][r], [copy[w][r] EXCEPT !.attempts = OneMore(@)]} :
       table' = [table EXCEPT ![r] = row]
  /\ copy' = [copy EXCEPT ![w][r] = NoRow]
  /\ phase' = [phase EXCEPT ![w] = IF Batch(w) = {r} THEN "idle" ELSE "working"]
  /\ UNCHANGED <<told, again, deaths>>

Save(w) == \E r \in Rows : SaveRow(w, r)

\* The database fails the second save too, or the process stops.
Die(w) ==
  /\ deaths < MaxDeaths
  /\ phase[w] # "idle"
  /\ deaths' = deaths + 1
  /\ phase' = [phase EXCEPT ![w] = "idle"]
  /\ copy' = [copy EXCEPT ![w] = [r \in Rows |-> NoRow]]
  /\ UNCHANGED <<table, told, again>>

Init ==
  /\ table = [r \in Rows |-> NoRow]
  /\ told = [r \in Rows |-> {}]
  /\ again = {}
  /\ phase = [w \in Runs |-> "idle"]
  /\ copy = [w \in Runs |-> [r \in Rows |-> NoRow]]
  /\ deaths = 0

Next ==
  \/ \E r \in Rows : Enqueue(r) \/ BackoffEnds(r)
  \/ \E w \in Runs : Fetch(w) \/ Deliver(w) \/ Save(w) \/ Die(w)

Spec == Init /\ [][Next]_vars

\* The cron ticks, time passes and a run goes on; and notifications, rows of the same
\* database, do not fail for ever.  Mail servers may.
Fairness ==
  /\ \A r \in Rows : WF_vars(BackoffEnds(r))
  /\ \A w \in Runs : WF_vars(Fetch(w)) /\ WF_vars(Deliver(w)) /\ WF_vars(Save(w))
  /\ \A w \in Runs, r \in Rows \ EmailRows : SF_vars(DeliverTo(w, r, Recipients))

FairSpec == Spec /\ Fairness

-----------------------------------------------------------------------------
(* Properties *)

\* Types of the rows and of what each run remembers.
TypeOK ==
  /\ table \in [Rows -> Row]
  /\ told \in [Rows -> SUBSET Recipients]
  /\ again \subseteq Rows \X Recipients
  /\ phase \in [Runs -> {"idle", "working", "saving"}]
  /\ copy \in [Runs -> [Rows -> Row]]
  /\ deaths \in 0..MaxDeaths

\* However many runs overlap, and whatever stale copies they save, a row that counts as
\* sent has reached a recipient, and every one of them when it is an inapp row.
SentWasTold == \A r \in Rows : table[r].status = "sent" => Delivered(r, told[r])

\* Only emails are given up, and only after all attempts.
FailedWasTried ==
  \A r \in Rows : table[r].status = "failed" => r \in EmailRows /\ table[r].attempts = MaxAttempts

\* Both: however runs overlap and die, a row that is settled says what happened.
SettledIsTrue == SentWasTold /\ FailedWasTried

\* With one run at a time, each time it dies repeats at most one mail: the one that was
\* sent and not yet saved.  Without that no address gets the same mail twice, although a
\* mail is tried again and some of its addresses may have failed.
Repeated == {r \in EmailRows : \E p \in Recipients : <<r, p>> \in again}
RepeatsNeedDeaths == Cardinality(Repeated) <= deaths

\* As long as runs do not die for ever, every row is sent or given up in the end, even
\* when its mail server never answers and although a failed inapp row keeps its place at
\* the head of the queue.
RowSettles ==
  \A r \in Rows : table[r].status = "pending" ~> table[r].status \in {"sent", "failed"}

Promise == INSTANCE OutboxPromise WITH fate <- [r \in Rows |-> table[r].status]

\* One run at a time keeps the promise: rows are told while they are pending and
\* settled once, whenever the run dies.
PromiseKept == Promise!Spec
=============================================================================
