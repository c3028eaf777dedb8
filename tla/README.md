# Verification of the ERP4U demo

TLA+ models of the backend in `src/src`, checked with TLC on small instances and proved with TLAPS
for every instance. Paths below are relative to `src/src` unless they start with `src/`.

The program is a NestJS server over one PostgreSQL database, with a React client. It has no workers of
its own: everything runs in the handlers of HTTP requests and in a few cron jobs of the same process.
What goes wrong in such a program goes wrong between two database statements, because another handler
runs there, because the statement after it throws, or because the process stops. The models therefore
have one action per transaction, and one per statement where the code opens no transaction.

- [Inventory](#inventory): what the program consists of
- [Plan](#plan): what is modelled, with which runs, theorems and files
- [ChatConversation](#chatconversation), [OutboxDelivery](#outboxdelivery-and-outboxpromise),
  [ChatFlows](#chatflows), [LlmGate](#llmgate): the chatbot
- [StockLedger](#stockledger), [Booking](#booking), [Payments](#payments): goods and money
- [Disagreements](#disagreements): where the code does what its comments or a reader would not expect
- [Left to TLC and left out](#left-to-tlc-and-left-out)

## Inventory

### Components with the program's own logic

**Chatbot conversation** (`chatbot/conversation`, `chatbot/controllers`).
State: `chatbot_conversations` (state, human_active, assigned user, unread count), `chatbot_messages`,
`chatbot_briefs` (numbered revisions), `chatbot_flow_states`, `chatbot_requests`, `chatbot_outbox`.
Operations: POST messages, POST actions, PUT brief, POST requests for customers; take, release, staff
message and request status for the inbox.
Hard: a turn stores the message under the row lock, releases it, calls an LLM under a timer that does
not stop the call, and takes the lock again to commit; retries with the same client id arrive in
between; the inbox loads and saves the whole row without a lock.
Correct when: staff who took over are not talked over; retries are answered once; no edit of the brief
is lost; a hand-over to sales is always announced; safety stops a running flow.

**Chatbot outbox** (`chatbot/outbox`). State: the rows of `chatbot_outbox`, with status, attempts and
next attempt. Operations: the run, started by a cron every minute and by hand.
Hard: runs overlap, since the `FOR UPDATE SKIP LOCKED` of the query ends with the statement; mail
servers fail or never answer; the process stops between a mail and the save of its row.
Correct when: sent means received, failed means tried to the limit, and every row settles.

**Inventory** (`inventory`, 2035 lines). State: `inventory_stocks`, `supplier_stocks`, their histories,
the totals on products and materials, goods receipts, sales deliveries (exports), goods issues, supplier
debt, status of the purchase order. Operations: adjust, transfer, convert, confirm each kind of document,
deliver, edit and delete issues, delete receipts, reset; samples are borrowed and returned.
Hard: none of it is in a transaction; one move is a load, a save, a sum, a save of the sum and a row of
history. Correct when: history explains every balance, totals are sums, a document moves its stock once.

**Chatbot limits and LLM gate** (`chatbot/security/chat-rate-limiter.ts`, `chatbot/llm`). State: windows
of time stamps per key in memory, the day's budget row, the circuit breaker, the retired models and the
chosen one. Operations: consume, take a unit, generate (understand and compose), choose a model.
Hard: a breaker read at the start of a call and written at its end; a budget that counts turns while a turn
makes several calls with several models and repetitions; a model retired by one call and chosen by another.
Correct when: a day costs no more than its units pay for, and an open breaker or a retired model gets only
what was under way.

**Chatbot flows** (`chatbot/flow`). State: `chatbot_flows` with a draft and a published graph and its version,
a cache of the published ones, the cursor of a conversation. Operations: create, edit, publish, enable,
disable, remove for administrators; answer, start, click for customers.
Hard: whole rows are saved as they were loaded; the cache is filled with what was read before it was
emptied; cursors stand on nodes that a new version lacks; circles in a graph.
Correct when: what is served was published, a cursor stands at a question, the cache catches up.

**Chatbot knowledge base, configuration, sessions, attachments, audit** (the rest of `chatbot`,
11774 lines in all). Versioned texts and settings with publish and roll back; session tokens; uploads; an
append-only log. Hard: publishing races editing.

**Sales** (`sales`, 4427). State: quotations, orders, bookings of stock, deliveries, invoices, counters of
booked quantities. Operations: book items, expire bookings (hourly cron), confirm, edit and revise the lines,
create, mail, change and delete deliveries, change the status of orders.
Hard: rows and counters are loaded, changed in memory and saved whole; the cron expires what a user
approves; an edit replaces the rows that others hold copies of; order codes are "last plus one".
Correct when: no line has more booked than it orders, the columns of a line agree, the lines of an approval
together promise no more than there is, and overdue bookings are released.

**Planning** (`planning`, 3833). Approves and reverts bookings, recomputes their counters, plans production
fulfilment orders from bills of material, sources them, draws Gantt charts. Hard: the same rows and counters
as sales.

**Finance** (`finance`, 1321) and **purchasing** (`purchasing`, 1589). State: transactions with allocations,
categories, the paid amount of purchase orders and of the pools that group them, the payment status of sales
orders, purchase requests, carts. Operations: income and expense, bulk expense, correction, approval,
deletion; create, price, pool and remove purchase orders.
Hard: a payment of a pool is shared out with rounding and taken back later; amounts are added to a
loaded row; a status is computed from a sum read before. Correct when: no order shows more paid than was
paid, and what is paid is what the transactions that are left allocate.

**Production** (`production`, 603) and **quality control** (`qc`, 467). Job tickets and their progress,
inspections. Hard: two steps completed at once each read the other as unfinished.

### Components that are records, I/O or views

| Part | Directories (lines) | State and operations |
|---|---|---|
| Master data | products 1669, materials 107, bom 50, suppliers 404, processes 105, categories 125 | CRUD; the models take it as constants |
| Carriers | shipping 3327 | clients of GHTK and Lalamove, webhooks that set a delivery's status |
| Customers and channels | customers 982, zns 769, marketing 714, tiktok 1437, social 563 | records, clients of other services |
| People and work | hr 2420, tasks 405, projects 553, discussions 251, designs 794, school-experience 612, website-projects 256 | mostly CRUD; attendance and task states |
| Access | auth 1211, users 303 | roles, a permission cache that expires, a shadow mode |
| System | system 1504, ai 2043, analytics 416, announcements 379, blogs 294, upload 1560, notifications 153, public 1914, common 473, database 686 | settings, prompts, reports, files, mail |
| Client | `src/frontend` (about 91000) | React views of the API |
| Entry | `src/api` | starts the server |

### How they interact

- A customer turn, a quick action and a quote request insert outbox rows **in the transaction** that
  changes the conversation; the outbox run reads them later. That table is all the two share.
- Flows, rules, the scripted responder and the LLM gate are **called** by a turn; the flow writes its
  cursor inside the turn's commit, but clears it outside of it. `ChatConversation` takes what a flow or the
  LLM answers as a choice; `ChatFlows` and `LlmGate` say what lies behind it.
- Sales creates the deliveries and purchasing the orders that inventory documents refer to; inventory
  writes back their status, supplier debt and the counters of booked stock. Finance adds payments to the
  orders of purchasing and sets the payment status of those of sales. They **share rows** and call each
  other's services, without a common transaction.
- Carriers, mail, notifications and the LLM are **external**; the outbox and the turn are the two places
  where their failures matter.

`PROJECT.json` lists every component with its files, and under `hazards` each place of the code where
these behaviours bite, with the properties that watch it or the reason none does.

## Plan

| Order | Module | Actors | What it is held against |
|---|---|---|---|
| 1 | `ChatConversation` | customers, the LLM, flows, staff | invariants over rows and the copies staff hold |
| 2 | `OutboxDelivery` | outbox runs, mail, notifications | `OutboxPromise`, by refinement |
| 3 | `StockLedger` | requests on stock and its documents | books that agree, documents that move once |
| 4 | `LlmGate` | turns, the provider, the day, restarts | what a unit of the budget pays for |
| 5 | `Booking` | users of sales, planning and inventory, the hourly job | bookings by row and by counter |
| 6 | `ChatFlows` | administrators, customers, the cache | the set of all that was ever published |
| 7 | `Payments` | users of finance, purchasing and sales | the allocations of the transactions that are left |

Composition happens inside a module wherever components share rows: `Booking` has the services of sales,
planning and inventory act on the same lines and counters, `Payments` those of finance, purchasing and sales,
`ChatConversation` the customer's and the inbox's handlers. What remains between the modules is named at the
end, with the components that are left out and why.

Runs: each module has a run with actors that race everywhere. What holds only without races is either a
run of one actor (`outbox_single`, `stock_serial`) or guarded by a history variable that tells which calls ran
alone (`alone` in `Booking` and `Payments`, `steady`, `calm`), so that it is checked in the same behaviours
that race elsewhere. Bounds are two of each actor whose steps race: each race in `PROJECT.json` is between
two.

Theorems: types of the modules, then for each the invariant with the most interleavings, then the rest of the
safety properties. 34 are listed below, module by module: all the invariants and action properties of the passing
runs but `CacheIsFresh`, which TLC alone checks.

| File | Contents |
|---|---|
| `ChatConversation.tla`, `MCChat.tla`, `MCChat{Takeover,Briefs,Turns,FlowRevived}.cfg` | the conversation, its small instances and four runs |
| `ChatConversationProofs.tla` | seven theorems |
| `OutboxPromise.tla`, `OutboxDelivery.tla`, `MCOutbox.tla`, `MCOutbox*.cfg` | the promise, the delivery, two runs |
| `OutboxDeliveryProofs.tla` | four theorems, one of them the refinement |
| `ChatFlows.tla`, `MCChatFlows.tla`, `MCChatFlows.cfg` | flows and their cache, one run |
| `ChatFlowsProofs.tla` | five theorems |
| `LlmGate.tla`, `MCLlmGate.tla`, `MCLlmGate.cfg` | budget, breaker and models, one run |
| `LlmGateProofs.tla` | four theorems |
| `StockLedger.tla`, `MCStock.tla`, `MCStock*.cfg` | stock and documents, two runs |
| `StockLedgerProofs.tla` | five theorems |
| `Booking.tla`, `MCBooking.tla`, `MCBooking.cfg` | bookings and deliveries, one run |
| `BookingProofs.tla` | five theorems |
| `Payments.tla`, `MCPayments.tla`, `MCPayments.cfg` | payments, one run |
| `PaymentsProofs.tla` | four theorems |
| `Sums.tla`, `SumsProofs.tla` | sums over finite sets, which the last three modules are about, and what the proofs need of them |

Sums: the books of an ERP are sums over rows. `Sum(f, S)` is a fold of the community modules; what such a fold
computes for every finite set cannot be had from the library's induction theorems, which take an operator. `SumsProofs`
argues by the smallest counterexample instead, which is first order: strict inclusion is well founded on the
subsets of a finite set, so among the sets that refute a fact there is one none of whose strict subsets
does (`SmallestSet`), and taking a member away from it gives a contradiction. From `SumRemove` (a sum is any one of its
numbers and the sum of the others) follow all others: sums of integers are integers, equal numbers have
equal sums, a change of one number changes the sum by as much, and a renaming of the rows none.

Definitions whose comment says "Mutation" are not part of a model. Each is a plausible bug
(a dropped check, a forgotten row) that replaces one definition to see that a property notices.

## ChatConversation

One conversation and everybody who writes to it.

| Variable | Code |
|---|---|
| `conv` | human_active, state, unread count and assigned user of `chatbot_conversations` |
| `briefs` | `chatbot_briefs`: a revision and the set of edits merged into it |
| `messages`, `outbox`, `requests` | rows of the tables of these names |
| `flowState` | the row of `chatbot_flow_states`, with the epoch in which it was decided |
| `turnPc`, `text`, `draft`, `seenEpoch` | local variables of `handleTurn` |
| `pipePc`, `pipeDraft` | local variables of `pipelineWork` in `executePipeline` |
| `formPc`, `formDraft`, `requestPc`, `requestRev` | local variables of `putBrief`, `postAction`, `createRequest` |
| `staffPc`, `snapshot` | an inbox operation and the entity it has loaded |
| `flowEpoch` | history: how often a flow was stopped for safety |

| Actions | Code |
|---|---|
| `PostMessage`, `RejectDuplicate` | `postMessage`: the idempotency check outside the lock, and the unique index that decides in the end |
| `StoreMessage`, `StoreForStaff` | phase 1 of `handleTurn`, under the lock |
| `Understand`, `StopFlow`, `FlowAnswers`, `NoFlowAnswers` | the rules, and what the flow says, without the lock |
| `CommitTurn` with `DropReply`, `RollBack`, `StoreReply` | `commitTurn`: brief, state, outbox, reply and cursor in one transaction, or nothing |
| `PipelineUnderstand`, `PipelineCommit`, `PipelineThrows` | the LLM calls, their merge and their commit |
| `PipelineSettles`, `PipelineTimesOut`, `ScriptedFallback` | `Promise.race` of the pipeline and the timer, and `runScriptedFallback` |
| `ActAsk`, `ActStart`, `ActHuman`, `ActSlot`, `ActFails` | `postAction`: the flow asked before the lock, then a transaction each, or its failure |
| `PutBriefRead`, `PutBriefSave` | `putBrief`, no transaction |
| `RequestLookup`, `RequestCheckBrief`, `RequestCommit` | `createRequest` |
| `TakeLoad`, `TakeSave`, `ReleaseLoad`, `ReleaseSave`, `SpeakLoad`, `SpeakStore`, `SpeakSave` | the inbox |
| `Crash` | the process stops and starts: calls in progress are gone, rows stay |

Abstractions, and why they keep what the properties tell apart:

- A transaction that holds the `FOR UPDATE` lock of the conversation row is one action: every other
  writer under that lock waits for it. `ActSlot` reads the brief in the same transaction it inserts it. The lock does
  not hold back `putBrief`, so the insert of a quick action may still meet a revision that is taken (`ActFails`).
- An empty text of the responder or of the LLM stores no AI message, as in `commitTurn`; a flow's reply always says something.
- `repository.save` of the inbox selects the row again and writes the differing columns; the model writes
  the whole loaded entity at once. The window between that select and the update is left out.
- A brief is the set of edits merged into it, each edit a field of its own. Whether an edit was lost is
  all the properties ask.
- Each turn carries one text, fixed at the start, and a retry carries the text of the first attempt. Of a
  text only its kind matters (plain, wish for a human, complaint) and whether the rules find fields in it.
- A denied LLM budget, an open breaker, a low score of the intent and an unusable reply all lead to a
  branch that `Route`, `PipelineThrows` or `ScriptedFallback` may take at any time.
- The scripted responder looks for a wish for a human with a pattern of its own, so `ScriptedFallback` may
  set any target state.
- Swallowed failures of auxiliary writes, logging and test hooks are left out.

### Runs

| Run | Instance | Shows |
|---|---|---|
| `chat_takeover` | a turn of every kind with every route of `script_first`, flows, a request, two staff, both channels | `TypeOK`, `HandoffIsBacked`, `TakeoverSilencesTurns` |
| `chat_briefs` | two turns, a quick action, a PUT brief, a request and its retry, `script_only`, crashes | `NoLostEdit`, `OneRequestPerKey` |
| `chat_turns` | a message and its retry, `llm_first`, flows, one of staff, crashes, fairness | `RetryIsAnsweredOnce`, `FailedPipelineLeavesNothing`, `KeptMessageIsDealtWith` |
| `chat_flow_revived` | two turns, flows | disagreement 1 below |

`HandoffIsBacked` says three things of the row: a conversation that waits for sales has told them, one that
is submitted has a request they were told of, and one that is taken has somebody assigned. `TakeoverSilencesTurns` is
about turns: a quick action of the customer is answered also while staff hold the conversation, as `postAction` does. The two members of staff are
alike (`SYMMETRY`), and none of the three properties names one.

Every race in the code is between two: a turn and its retry, a turn and a take-over, two writers of the
brief, a request and its retry. Two staff are needed for one to save a copy older than the other's
take-over. Nothing counts beyond the number of callers, so no bound cuts a behaviour off: each caller makes
one call, staff any number.

Fairness: `WF_vars(TurnStep(t))`. A handler that has begun is run on by the event loop and its timer
fires. `PipelineStep` has none, so an LLM call may hang for ever, and no customer or member of staff is
assumed to do anything. Under it `KeptMessageIsDealtWith` holds *because* of the timer: without
`PipelineTimesOut` TLC finds a turn that hangs.

### Theorems

For any sets of turns, actions, editors, requests and staff, any channels that contain `inapp`, any mode:

- `RowsAreTyped`: `TypeOK`. Its invariant (`TypeCorrect`) adds that the revisions have a greatest one (`HasLatest`), without which "the
  latest brief" means nothing; `TypeOK` alone is not inductive, since the next revision is computed from the
  latest.
- `HandoffCorrect`: `HandoffIsBacked`. The inductive invariant `HandoffInv` says the same (`SoundRow`) of the row *and* of every copy the inbox has loaded, for a copy
  may be saved over anything later. It is kept because outbox rows and requests are never removed.
- `NoEditIsLost`: `NoLostEdit` in `script_only` and `scripted` mode. `BriefInv` adds that every draft in
  progress is `Fresh`: it holds all edits of the revisions before its own. A draft that went stale has a
  revision that is taken, and the unique index refuses it. The assumption on the mode is needed: the LLM
  pipeline skips revisions (disagreement 2).
- `TakeoverSilences`: `TakeoverSilencesTurns`, from `TakenStepIsSilent`, step by step.
- `RetriesAreAnsweredOnce`: `RetryIsAnsweredOnce`. `AnswersInv` says that a turn which is at work or has said something has
  stored its message, and that of a message and its retry only one is stored; a turn that found the other one's
  message can therefore say nothing. It assumes that turns and actions are different calls (`CallersAssumption`).
- `KeysAreUnique`: `OneRequestPerKey`, which rests on the unique index that `RequestCommit` meets, not on its look-up.
- `FailedPipelinesAreSilent`: `FailedPipelineLeavesNothing`. `FailureInv` says that a pipeline which has not
  committed has said nothing, and that one which ended does not begin again.

## OutboxDelivery and OutboxPromise

`OutboxPromise` is what the rest of the program relies on: a row is told to recipients while it is pending,
settled once, and as sent only when it was told. `OutboxDelivery` is `ChatbotOutboxService.run`.

| Variable | Code |
|---|---|
| `table` | `chatbot_outbox`: status, attempts, and whether next_attempt_at has passed (`due`) |
| `copy` | the entities each run loaded and has not saved yet |
| `phase` | idle, in the loop, or before a save |
| `told`, `again` | what notifications and mails were received, and which twice (history) |
| `deaths` | how often a run ended early, at most `MaxDeaths` (history) |

| Actions | Code |
|---|---|
| `Enqueue` | the insert in a conversation's transaction, as in `commitTurn` |
| `Fetch` | the query: pending, due, by id, `BatchSize` rows |
| `Deliver` | the loop over the recipients of one row, and the assignment of the outcome in memory |
| `Save` | the save; if it throws, the catch block counts one more attempt and saves again |
| `BackoffEnds` | time passes next_attempt_at |
| `Die` | a database error outside the loop's catch, or the process stops |

A delivery may reach any subset of the recipients. The code goes through them in order, so for
notifications only prefixes happen: the model allows more. Attempts stop counting at `MaxAttempts` since
only that comparison reads them. Recipients of a row do not change while it waits.

| Run | Instance | Shows |
|---|---|---|
| `outbox_overlap` | two runs that die anywhere, twice, a notification and a mail, two recipients, both rows in a batch | `TypeOK`, `SettledIsTrue` |
| `outbox_single` | one run that dies twice, three rows, batches of **one**, a mail server that may never answer, fairness | `RepeatsNeedDeaths`, `PromiseKept`, `RowSettles` |

`BatchSize = 1` makes a failing notification fill the whole batch, as twenty do in the code;
`MaxAttempts = 2` gives one attempt with back-off and a last one, as eight do.

Fairness: the cron keeps ticking and a run goes on (weak fairness of `Fetch`, `Deliver`, `Save`, `BackoffEnds`),
and a notification, which is an insert in the same database, succeeds if it is tried again and again (strong
fairness of the delivery to all, for notifications only). Nothing is assumed of mail servers, so `RowSettles` holds for mails
because they are given up. Runs die at most `MaxDeaths` times: one that died after every mail would try it
for ever. A death loses at most one mail that went out, so with two of them one mail repeated, and two different
ones, both happen; the theorems are for any number.

### Theorems

For any rows, recipients, batch size and attempts:

- `OutboxTyped`; `SettledIsHonest`: `SettledIsTrue` for any number of overlapping, dying runs. `HonestInv` says of the
  copies what the properties say of the table: a stale copy carries an outcome that really happened, so
  whichever copy is saved last is true.
- `OneRunKeepsPromise`: with at most one run (`OneRun`), which may die anywhere, `Spec => PromiseKept`. It needs
  `HeldArePending`: a row that a run holds is pending in the table, so a delivery maps to `Tell` and a save to
  `Settle` or to a stutter. With two runs it is false: one saves its pending copy over the other's result.
- `OneRunRepeatsByDying`: `RepeatsNeedDeaths` with at most one run: no more mails are repeated than runs died, hence none
  if none did. The invariant `EachCostsADeath` counts together with the mails that were repeated those `AtRisk`, which
  somebody has received although neither the table nor the run says so. Only the row about to be saved has an outcome
  (`CopiesFollowPhase`), so a death adds at most one (`DeathEndangersOne`) and nothing else adds any (`EndangeredShrinks`).

## ChatFlows

`ChatbotFlowService` and the pure functions of `flow-graph.ts`. Administrators send graphs; customers walk
through the published ones.

| Variable | Code |
|---|---|
| `flows` | `chatbot_flows`: enabled, the draft, the published graph and its version |
| `cursor` | `chatbot_flow_states`: flow, version and node of each conversation |
| `cache` | the published flows in memory, or `NoCache` when there are none or their 30 seconds are over |
| `reading` | where each call is in `publishedFlows`: asked, found in the cache, queried |
| `call` | the row an administrator's call has loaded; the walk of a customer's call |
| `used`, `published` | ids given so far; every flow, version and graph that was ever published (history) |
| `calm` | history: no two calls of administrators overlapped, none failed before it emptied the cache, no stale answer filled it |
| `calls` | the bound on calls of administrators |

| Actions | Code |
|---|---|
| `AdminCall` | create, update (a graph or the name), publish, enable, disable, remove: the load and the checks before the next await |
| `CheckPublish`, `CheckEnable` | errors of the graph, and `startActionConflicts` against the published flows |
| `SaveFlow`, `ClearCursors`, `ClearFails`, `RemoveFlow`, `Invalidate` | the save of the whole row, the cursors a disabled or removed flow leaves, the end of the cache, which a failing delete of the cursors skips |
| `AskFlows`, `QueryFlows`, `FillCache` | `publishedFlows`: a look at the cache, the query, the cache set to its answer |
| `CustomerCall`, `LookUp`, `LeaveFlow`, `StartFlow` | `handleText`, `startByAction`: the cursor, its flow, its node, the button or keyword meant |
| `WalkStep`, `WalkEnd` | `walkFlow` node by node, up to `MaxSteps` |
| `CommitReply`, `DropReply` | the cursor saved with the reply, or neither |
| `ClearState` | a turn stopped for safety clears the cursor |
| `Age` | time passes the end of the cache |

`Sound`, `Clean` and `HasErrors` translate `validateFlowGraph`; `AllowedHandles`, `NextOf` and `Target` the functions
`allowedHandles`, `nextOf`, and `matchBranch` with `followBranch`. A node of a graph has a type and perhaps something to say; an answer's
wording, knowledge and prices are left out, so whether a silent node says something is part of the graph
(`says`). A text is what a customer means by it: a button or none, a keyword or none. Calls of administrators
are numbered in the order they begin, which is a symmetry and not an order of their steps.

Run `flows`: a flow in whose question a customer stands, whose button leads into a circle of two silent
steps; a second flow that is created with the same start button, a keyword, and an edge out of its
handoff that cleaning drops; two calls of administrators, one customer, three steps to a walk. Two calls
are an edit and its publish, or a publish and whatever it races; a circle of two is walked round before three steps are
over, as before ten.

| Property | Meaning |
|---|---|
| `ServedWasPublished` | whatever stale row is saved, flow, version and graph that customers are served belong together |
| `CursorWaits` | a cursor stands at a message with buttons of a graph that was published as its version |
| `TriggersUnique`, `PublishSticks` | while administrators work one by one (`calm`): no start button leads to two flows, a publish is not undone and a version names one graph |
| `CacheIsFresh` | every save ends by emptying the cache: while `calm`, it is what is published, but for the moment between a save and its invalidation |
| `CacheCatchesUp` | whatever overlaps and fails, in the end the cache is right for good |

Fairness (`FairSpec`): calls that have begun go on, since the event loop and the database run them, and time passes
(`Age`). `CacheCatchesUp` needs `Age` because a stale fill is not noticed by anything else.

Theorems, for any flows, graphs and callers, where the graphs sent are graphs (`BodiesAssumption`) and the
rows and cursors the system begins with are ones it could have made (`FlowsAssumption`, `TriggersAssumption`, `CursorsAssumption`):
`FlowsAreTyped` (`TypeOK`), `OnlyPublishedIsServed` (`ServedWasPublished`), `CursorsWait` (`CursorWaits`), `PublishesStick`
(`PublishSticks`). The inductive invariant says of every row a call has loaded or is about to save what it
says of the table: its published graph is one of `published`, because only `Launched` makes a new one and
that step records it. Published graphs are `Walkable`: each edge leaves a handle its node has, which `Clean` ensures
of any graph. Hence a walk stays in the graph's nodes, and a cursor is left only where the walk waits.
`PublishesStick` adds that, while `calm`, at most one call works (`OneWorks`) and its copy agrees with the table (`Agrees`).
`TriggersStayUnique` (`TriggersUnique`) has the invariant `ServeInv`: while `calm`, the cache is what is
published unless somebody has saved and not yet emptied it (`CacheInv`); what a check has read is what is published *now*
(`ReadInv`), since the only call that could change the table is the one that checks, and it found the cache
fresh or read the table itself; so the row it goes on to save fits the others (`Fits`). All of it fails once two
administrators overlap, which is why `calm` guards it.

## LlmGate

The way of a turn to the language model: `LlmBudgetService.tryConsume`, then two calls of
`GeminiProvider.generateJson`, for understanding and composing.

| Variable | Code |
|---|---|
| `now` | the clock, bounded by `MaxTime`; `DayOf` the date the budget is counted by |
| `budgets`, `used` | the values the setting `daily_call_budget` has had, and the row of `system_configs` that counts a day |
| `openUntil`, `blacklist`, `best` | `circuitOpenUntil`, `blacklistedModels`, `cachedBestModel`: memory of the process |
| `turn` | the day and the budget a turn has read, its call, attempt and repetition, its model, the list it waits for |
| `sent`, `late`, `wasted` | history: requests by day of the unit, requests since the breaker opened, requests to each model since it was known to be retired |

| Actions | Code |
|---|---|
| `SaveBudget` | an administrator changes the budget |
| `ReadBudget`, `TakeUnit` | `tryConsume`: the setting, then `UPDATE ... WHERE used < budget` of the day read before |
| `Begin` | the check of the breaker, once, at the start of `generateJson` |
| `Choose`, `ListArrives` | `getModel`: the chosen model, or the models' list, whose answer may come late or fail |
| `Send`, `Repeat`, `NotFound`, `Trips`, `Fails`, `Succeeds` | the request and its outcomes: a passing error repeated once, 404, a rate limit or an outage that opens the breaker, any other failure, an answer |
| `Tick`, `Age`, `Restart` | time, the day after which the chosen model is forgotten, and a restart that loses the memory |

The configuration is cached for 30 seconds and a save empties the cache, but a read that began before may fill it again with
the older setting (`chatbot-config.service.ts:91`): `ReadBudget` may find any of `budgets`, however old, which is more than the code
allows. A model has one name: that the environment and the configuration may name it with `models/` before it, and a 404
then retires another spelling than the one chosen later (`gemini.provider.ts:182`), is left out.

The statuses of the provider are external and any may come. A call's time-out is one of its failures; the
turn's own timer is not in the model, since the pipeline goes on after it.

Run `gate`: two turns (alike), a standard model and a lite one, of which the configuration names the lite and the
program falls back on the other; two models to a call, days of two ticks and three of time, budgets 1 and 2,
a rate limit of two ticks and an outage of one. Two turns suffice for every race of the memory; that an outage is
shorter than a rate limit lets a late, shorter answer bring the end of the pause forward.

| Property | Meaning |
|---|---|
| `DayIsPaid` | a day is charged no more units than the greatest budget configured, and each unit pays for 2 calls × `ModelAttempts` models × 2 requests, twelve in the code |
| `QuietIsKept` | once the breaker opened, what still reaches the provider is at most one call of each other turn |
| `RetiredIsLeft` | a model that answered 404 gets at most the request and repetition of each other turn that had chosen it, the built-in model excepted |

No liveness: a list of models is fetched without a time-out, so a turn may wait for it for ever.

Theorems, for any finite set of turns, models and bounds: `GateTyped`, `DaysArePaid`, `BreakerQuiets`,
`RetiredModelsLeft`. Each counter is bounded together with what may still be added to it: the requests sent
plus those the turns' present calls may still send, which is the size of a set of pairs and goes down by
one with each request. The bounds on `late` and `wasted` hold because the set of *other* turns under way when
the breaker opens, or the model is retired, can only shrink.

## StockLedger

The requests of `InventoryService`. A document is turned into the sequence of its moves (`Moves`), and a move
is the five statements of `adjustStock` (or the three of `adjustSupplierStock`), each an action.

| Variable | Code |
|---|---|
| `stock` | `inventory_stocks` and `supplier_stocks`, a row or `NoRow` per item and place |
| `twins` | further rows of `supplier_stocks` for one supplier and material, which has no unique index |
| `total` | `quantity_in_stock` of products and materials |
| `ledger` | the sums of `stock_history` and `supplier_transactions` |
| `status`, `poStatus`, `debt` | documents, the purchase order, the suppliers' debt |
| `call` | each request in progress: document, next statement, moves to make, value last read |
| `moved`, `calls` | history: moves saved per document; the bound on requests |

| Actions | Code |
|---|---|
| `LoadRow`, `LoadTwin`, `SaveRow`, `SaveTwin`, `InsertTwin`, `InsertClash`, `SumRows`, `SaveTotal`, `LogMove` | `adjustStock`, `adjustSupplierStock`; of two first inserts in a warehouse the second fails, those of a supplier leave two rows |
| `Adjust`, `Transfer`, `ConvertBtp`, `Reset` with `ClearHistory`, `ClearStock`, `ClearTotal` | the requests of these names |
| `Confirm`, `SaveHeader`, `Finish` | `confirmReceipt`, `confirmStockExport`, `confirmGoodsIssue` |
| `LoadDebt`, `SaveDebt`, `LoadPo`, `SaveFee`, `ReloadPo`, `ReadReceipts`, `SavePo` | debt, fee and status after a receipt |
| `DeliverIssue`, `SaveDelivered`, `EditIssue`, `SaveEdit` | `markGoodsIssueDelivered`, `updateGoodsIssue` |
| `DeleteReceipt`, `DeleteIssue`, `LoadReturn`, `SaveReturn`, `Delete` | deletions |
| `MailDelivery`, `UpdateDelivery` | `sendDeliveryEmail` and `updateDelivery` of `SalesService`, which save the status of an export without a move |
| `Fail` | a statement throws or the process stops |

A save writes the status its entity was loaded with, and inserts the row again if it was deleted. An export that
is PENDING_EXPORT is a `DRAFT`. Prices are one and the shipping fee is left out; so are the booking counters and
production orders a document touches (`Booking` has those of an export), the finance records, edits of the quantities of a receipt, the creation
of documents, which all exist from the start, and the deletion of deliveries (`Booking` has it).
The status of the purchase order compares, for each of its items, what the lines of completed receipts brought with 95% of what
was ordered (`PoStatusFor`); lines for no item of the order count for none.

| Run | Instance | Shows |
|---|---|---|
| `stock_serial` | one request at a time, three in a row, without failures: adjust, transfer, convert, confirm, reset | `TypeOK`, `BooksAgree`, `DocumentMovesOnce`, `OrderFollowsReceipts` |
| `stock_shared` | two requests, failures anywhere: confirm, delete, deliver, edit, mail | `DoneWasMoved` |

The documents are two receipts (an ordered product made of a material the supplier holds; 58 of 60 ordered pieces of a material, with a half-finished
product), the export of a combo and a goods issue. The 58 are within the tolerance of their item, and are 95% of all the pieces
ordered without being 95% of each item. Three requests (`MaxCalls`) bring both receipts of the order, which is
what separates partly from fully delivered, and one thing after them. `MaxQty = 1` suffices: quantities are only added
and compared with zero.

No liveness is claimed: requests that fail leave their document open, and nothing retries them.

### Theorems

`DoneIsMoved`: for any documents with lines, any number of overlapping requests and failures anywhere,
`DoneWasMoved`, which is about receipts: the mail and the update of a delivery make an export SHIPPED that moved nothing (disagreement 5). The inductive invariant `MovedInv` says that for each request the moves saved for its document and those it
still has to make are together enough (`CallsEnough`), which a failure cannot break since it ends the request. "At
least", not "exactly": two confirmations may both run, see below.

`StockTyped`: `TypeOK`, for any items, places, documents and callers, failures included. `TypeInv` adds that what a request
read before (`seen`) fits the place it is to be written to: a balance, a total, a debt or a status.

`SerialBooks` (`BooksAgree`), `SerialDocuments` (`DocumentMovesOnce`), `SerialOrder` (`OrderFollowsReceipts`): for any items,
documents and number of requests, of one caller `c` with `Serial(c)`. These are the conditions of run `stock_serial`: nobody
else, no failure, and the kinds adjust, transfer, convert, confirm and reset; each is needed, as the disagreements below show.
The invariant `SerialInv` says what holds *between* the statements:

- `BooksAt`: from the save of a balance to its entry in the history, the two differ by the move in hand and by nothing else
  (`LedgerBut`); the total of the item moved is recomputed in between, all others are right; a reset empties history, stock
  and totals in that order, and after each step the rest is still explained.
- `DocsAt`: every document but the one in hand is settled; that one has saved all its moves but those still to make.
- `OrderAt`: the debt is raised before the receipt is completed (`Owed`), so in between the supplier is owed one receipt more
  than is complete; the order's status is behind by one receipt until it is read again.

## Booking

Bookings of stock for the lines of sales orders, and the deliveries that ship them: `SalesService`,
`PlanningService` and the export of `InventoryService`, which work on the same rows and counters.

| Variable | Code |
|---|---|
| `rows`, `newId` | `sales_order_items`: order, product, quantity, booked quantity, status of the booking and whether its end has passed |
| `booking`, `approved` | `booking_stock` and `approved_booking_stock` of each single product |
| `stock` | the stock of each product, samples left out |
| `delivery` | `sales_deliveries`, each with one line |
| `issued` | orders whose production has issued materials |
| `call` | each request in progress: next statement, the rows it has loaded, what is left to treat |
| `sums` | the stock and counters it has loaded and is about to save |
| `calls` | the bound on requests |
| `born`, `alone` | history: what each row ordered and had booked when it was inserted; requests that ran alone so far |

| Actions | Code |
|---|---|
| `Book`, `ConfirmBookings`, `RevertBooking` | `bookItems`, `confirmBookings`, `revertBooking`: what they load |
| `EditOrder` with `DeleteRows`, `InsertRows`, `SaveOrder` | `update`: rows deleted, inserted with what the old ones had booked, order saved with its rows |
| `TouchOrder` | `createRevision`, `approveAllSamples`: the order saved with the rows it was loaded with |
| `CreateDelivery`, `UpdateDelivery`, `SendDeliveryEmail`, `DeleteDelivery`, `ConfirmStockExport` with `LoadProduct`, `TakeStock`, `Unbook`, `Unapprove`, `ReturnStock`, `ClearLines`, `SavePaper`, `RemovePaper` | deliveries: made, changed, mailed, exported, deleted, a statement each |
| `IssueMaterials`, `SaveIssue` | the issue of materials that approves the bookings of its order |
| `SyncBookingStock`, `LoadProducts`, `ApproveAll` | `syncBookingStock` |
| `Expire`, `TimePasses` | the hourly job, and the end of a booking |
| `Treat`, `Reload`, `SaveCounter`, `SaveRow` | the loop over rows that booking, approval, reversal and expiry share: compute, save the product's counters, save the row |

The entities a query returns are separate objects even for two rows of one product, so a loop over them
saves counters that each row computed from the same loaded value (`SourceB`, `SourceA`): this is in the model. A save
writes the whole row as it was loaded and inserts it again if it was deleted (`Saved`). The reads with which a
request begins are one step, `adjustStock` is one step (its statements are `StockLedger`'s subject), prices, files,
mails and notes are left out. Of a combo every component exists (`PartsAssumption`): with a row of the combo that names none, the
hourly job throws and leaves the rows behind it for later (`sales/sales.service.ts:1254`). Of time only whether the end of a booking has passed is kept.

Run `booking`: a single product with one piece booked of two ordered, overdue from the start, and a combo of two pieces that is
approved and about to leave; two users who make two requests of all twelve kinds, and the hourly job. Two
requests and the job bring any two into each other's windows with the third between them. Quantities are of
one piece (`MaxQty`), against two pieces to the combo and a line of two, so that sums may exceed what is ordered; row ids
go to four (`MaxRow`), enough for an edit to give one product two lines, each with the booking of the line it replaces.

| Property | Meaning |
|---|---|
| `BookedWithinOrder` | no stale save leaves a row with more booked than it orders, unless an edit carried that much over |
| `StatusAgrees` | a row that is released holds nothing, and a temporary booking has the end by which the job finds it; that a stale save brings a released booking back, temporary and with an end, is not excluded |
| `ApprovalWithinStock` | the rows an approval that runs alone has approved, also several of one product or of a combo and its components, never have together more pieces of a product than were in stock and not approved before |
| `SyncRestores` | a synchronisation that runs alone leaves the counters equal to the bookings of the rows |
| `OverdueIsReleased` | whatever users do, an overdue booking is released, renewed or approved |

Fairness (`FairSpec`): the cron starts the job again and again, and the job goes on (`WF_vars(Expire)`,
`WF_vars(Step(Cron))`). Nothing is assumed of users: their requests may stop anywhere.

### Theorems

For any products, orders, users and bounds:

- `NothingIsOverbooked` (`BookedWithinOrder`), `StatusesAgree` (`StatusAgrees`). The inductive invariant `IInv` says of every
  copy a request holds what it says of the table, that the row is sound and fits what it was born with (`GoodRows`,
  `GoodJob`), so that whichever is saved last is right. It needs the status a copy is given to depend on what the same
  request read of it, which is why a request that is between its computation and its save is part of the invariant.
- `BookingTyped` (`TypeOK`). `CountInv` adds to `IInv` that the counters, and those a request has computed and is about to
  save, do not go below zero, which `Minus` sees to, and that a request has what it needs where it is (`Bears`).
- `PromisesAreInStock` (`ApprovalWithinStock`). `AloneInv` says that the request that ran alone so far is the only one
  (`Lonely`), and of an approval that the pieces its rows have so far, with those of the row in hand (`Granted`), are at most what
  it has taken off the stock it remembers, and no more than was free at first (`ConfirmAt`). The property is about the rows and
  not about the counter: the counter an approval saves is the old one plus the last row of a product, and too low when there are several.
- `SyncRepairs` (`SyncRestores`). The other half of `AloneInv` (`SyncAt`): a synchronisation holds the sums of the rows, and the
  counters it has not still to save are equal to them. The update it ends with approves the temporary rows of issued orders, after
  the counters were computed; the property is therefore about tables without such rows.

## Payments

Money between `FinanceService`, `PurchasingService` and `SalesService`.

| Variable | Code |
|---|---|
| `purchases` | `purchase_orders`: total, paid amount, the pool an order is in, whether it is a pool |
| `sales` | `sales_orders`: total and payment status |
| `txs`, `newTx` | `transactions`: type, amount, reference, status and allocations |
| `call` | each request: next statement, the rows it has loaded, payments left to add |
| `calls` | the bound on requests |
| `given`, `undone` | history: what was ever added to each order, and allocations taken back |
| `alone`, `steady` | history: requests that ran alone; whether no two overlapped, no pool or price changed, and no receipt, note or correction changed what deleting the transactions would take back |

| Actions | Code |
|---|---|
| `Pay`, `Receive`, `Note`, `Correct`, `Reread`, `Approve`, `SaveApproved`, `DeleteTransaction`, `Erase`, `Paid` | the requests of finance: expense with allocations, income, a plain transaction, its correction, approval, deletion; a receipt and a note store any type and allocations that are sent, a correction any columns it names |
| `LoadSale`, `SumPayments`, `SaveStatus` | `syncSOPaymentStatus`: the order, the sum of completed income, the status saved with the order loaded before |
| `LoadPurchase`, `AddPayment`, `AddShare` | `updatePayment`, `updatePaymentById`: the order and, of a pool, its children, each with its rounded share |
| `Edit`, `SavePrice`, `LoadPool`, `SavePool` | a new price and the total of the pool that follows |
| `Pool`, `Link`, `Remove`, `Unlink`, `DeletePurchase`, `Clear`, `ClearOutsourced`, `DeletePools` | pooling orders, removing one, removing all |
| `Price`, `SaveSale` | `SalesService.update` of the total |

`Round` is `Math.round` of a fraction, halves up, which is not symmetric: the share taken back of a half is one
less than what was given. A save of a pool with its children sets the children's link again (`SavedWith`), and
a row whose pool is gone is refused by the foreign key (`Refused`); a request that is refused ends where it is. Categories,
reports and wording are left out.

Run `payments`: two orders of a pool with an odd payment on it, a free order id, a completed expense and
a draft income, amounts 1 and 2, a list that pays one order and one that pays the pool and one of its orders; users receive and
note income, completed and draft, and an expense with an allocation; corrections name the amount and status, the type and
reference, or the allocations; two callers (alike), three requests of twelve kinds. Three are a payment, its deletion and one that races either.

| Property | Meaning |
|---|---|
| `NoMoneyInvented` | whatever stale row is saved last, no order shows more paid than was ever paid on it |
| `PaidIsAllocated` | while `steady`: what is paid is what deleting the transactions that are left would take back, but for a rounding of at most one for each allocation taken back |
| `SyncIsRight` | a request that looks at the payments of a sales order, and runs alone, leaves the right status |

No liveness is claimed.

### Theorems

For any orders, pools, transactions, lists of allocations and callers:

- `PaymentsTyped` (`TypeOK`) and `MoneyIsNotInvented` (`NoMoneyInvented`), for any overlaps. The invariant `IInv` says of every
  copy that may still be saved what it says of the table (`BackedBy`): it shows no more paid than was given. A request has what it
  needs where it is (`Needs`), so that no share divides by zero or by a pool that has no orders.
- `LonelySyncIsRight` (`SyncIsRight`). `AloneInv` says that what a request that is alone found, the sale and the status its
  income calls for, is still so when it saves; it speaks of no other caller and of nothing that overlapped before.
- `PaidStaysAllocated`: `PaidIsAllocated` is kept, from a beginning where it holds. One more hypothesis is about the
  beginning only: a pool is an order that is a pool and is in none itself (`PoolsAreSound`, as `createPooledPO` makes them). The
  run's instance satisfies both. `steady` ends with a request the property is false of (disagreement 6), and goes on with
  receipts, notes and corrections of whatever type that leave alone what deletions take back.

  The invariant `SteadyInv` must say what holds in the middle of a payment, of an order or of a pool with any number of orders.
  The rows keep the totals and pools they had at first (`LikeFirst`), so shares are computed from constants. What a
  list allocates is then a sum that loses its first member with each allotment (`Listed`, `ListedFirst`), and what should be paid *by now*
  (`Owed`) is what the transactions record, less what the request has still to add, or, of a deletion, without its
  transaction, plus what it has still to take back (`Rest`). Each step moves one amount from `Rest` to one row (`Settles`, `PaymentKeeps`). `ShareBack`
  is the fact about `Math.round` behind the slack: a share of minus n and a share of n are together zero or one. While a deletion
  is among the orders of a pool, those still to be treated have one less of slack (`Slack`), since the allotment is counted in
  `undone` before they have been rounded.

## Disagreements

The first has a run that TLC refutes (`chat_flow_revived`). The others came up while the models were written;
the code is as described, and they are the reason that a property is not stated, is stated for a request that
runs alone, or allows for them.

1. `turn-orchestrator.service.ts:171` says that safety rules always stop the running flow. The flow row is deleted
   outside the lock, and a turn that was answered by the flow before saves the cursor when it commits.
2. `turn-orchestrator.service.ts:671`: when the rules have drafted revision r+1, the pipeline saves r+2 with the data of r.
   The unique index does not notice an edit that took r+1 in between, and the edit is lost. `NoLostEdit` is therefore
   checked and proved for modes without a pipeline.
3. `inventory.service.ts:961` says that deleting a confirmed issue returns the quantity. It is returned to the total only,
   which the next adjustment recomputes from rows that still lack it. `stock_serial` deletes nothing.
4. `inventory.service.ts:647` throws "to ensure data integrity". The parts already deducted stay deducted and the export stays
   open, so that it deducts them again. `DocumentMovesOnce` is checked without failures.
5. `inventory.service.ts:655` says "SHIPPED means Stock Deducted". `sendDeliveryEmail` (`sales.service.ts:1348`) and `updateDelivery` (1014) set
   that status without deducting; the export is then refused, and deleting the delivery returns goods that never left, to a warehouse MAIN
   and a combo as itself. Both are in `StockLedger`, and `DoneWasMoved` is therefore about receipts only.
6. `finance.service.ts:166` says "Rollback PO paid_amount". Of a half, `Math.round` gives one more than it takes back, so
   one may stay on an order for each share taken back (`undone` in `PaidIsAllocated`). Only `createPOPayment` and `createBulkPoPayment` pay what they allocate:
   an expense that `createPayment` (66, 73) or `createTransaction` (56) stores with allocations adds nothing to an order, and its deletion takes
   them back all the same; an expense that `updateTransaction` (212) makes an income is not taken back at all, and one whose allocations it
   changes by what it then says; an expense without a list of allocations is not rolled back; two deletions of one expense roll it back
   twice, down to zero. Such receipts, notes and corrections are in the model and end `steady`.
7. `finance.service.ts:214` says "Sync SO Payment Status if status was updated". Approving a transaction (566) and plain transactions
   (56) do not look at it, and neither does a new total of the order.

Chatbot:

- A save of the inbox takes back the unread count, the state and the take-over written since its load; a staff message
  that overlaps a release takes the conversation again.
- A request may name a revision superseded while it was being validated.
- A message stored before a crash is answered to its retry with the stored messages and no reply.
- Two outbox runs may mail the same row twice and set a sent row back to pending.
- A flow saved whole reverts a publish that happened since its load, or inserts a removed flow again; two concurrent
  publishes give one version number to two graphs; both may enable the same start button.
- A cache filled with an old answer serves old flows for up to 30 seconds, and hides a conflict of start buttons meanwhile.
- Errors of edges that cleaning drops vanish when the draft is saved. A circle of silent steps is cut after `max_steps`. A
  continuation that says nothing leaves the cursor where it was. A turn under way may save a cursor of a disabled flow.
- A late, shorter answer of the provider brings the end of the breaker's pause forward. The fallback model is requested even when it
  is retired. The list of models is fetched without a time-out.

Goods and money:

- Two adjustments of one row lose one of them; two conversions may pass the check for the same pieces; two
  confirmations of one receipt both move it.
- A transfer that fails half-way stays half done. A draft issue can be marked delivered. A receipt confirmed while it is
  being deleted is gone, its moves are not.
- Counters of bookings drift: two rows of one product in one approval or expiry write over each other's counter, as do
  two requests. The synchronisation repairs it, but approves bookings of issued orders after it computed the counters.
- An edit keeps a booking above a lowered quantity, and drops the bookings of removed lines without releasing their
  counters. A deleted row is inserted again by whoever saves a copy of it.
- A top-up of an approved booking makes it temporary, and its next approval adds what was approved before once more. An
  approved line with nothing booked lets a delivery leave without a check of stock, and a delivery's quantity is not compared with what
  is booked.
- Concurrent payments on an order lose one; removing a pool may stop half-way at the foreign key with some of
  its orders unlinked. Two overlapping looks at the payments of a sales order may leave the older status.
- Two steps of a work order completed at once (`production.service.ts:95`) may each read the other as unfinished and leave the
  order in progress. Order codes (`sales.service.ts:102`) are the last plus one, read before the insert.

## Left to TLC and left out

Only model-checked:

- liveness (`KeptMessageIsDealtWith`, `RowSettles`, `OverdueIsReleased`, `CacheCatchesUp`), which depends on fairness and so on
  ENABLED, out of reach of the prover;
- the property of `chat_flow_revived`, which the code does not have: the behaviour TLC finds is the evidence.

- `CacheIsFresh`, whose `calm` excludes all fills and failures that could make the cache old.

All other properties of the runs are theorems.

The proofs rest on the named assumptions of the modules (`ASSUME`; each is evaluated by TLC for the instances of the runs) and on
what a theorem itself states (`ScriptMode`, `OneRun`, `Serial`, `PoolsAreSound`). Of `Moves` the proofs
of `StockLedger` use that it is a non-empty sequence of moves, an assumption (`MovesAssumption`) TLC evaluates in every run.

Between the modules: `ChatConversation` takes the answers of flows and of the LLM as choices, so that every behaviour of
`ChatFlows` and `LlmGate` is allowed there; an export appears in `StockLedger` with all statements of its moves and in `Booking` with
the counters, each abstracting what the other has.

Not modelled:

- **Rate limits**: each `consume` is one synchronous step over the time stamps of one key, nothing interleaves, and
  "no more than the limit in a window" is the guard itself. `LlmConcurrency` beside it is not used.
- **Samples**, **production and quality control**: small status changes of single rows; the one race found is named above.
- **Requests and carts of purchasing, material demand and sourcing of planning, invoices and quotations**: computations over
  a snapshot or changes of one status, with the same load-and-save pattern as the modelled parts.
- **Knowledge base, configuration, prompts**: versioned texts, saved like flows, without cursors or a walk.
- **Permission cache and sessions**: read-mostly; what a stale permission means is a question of policy.
- **Text understanding**: regular expressions over Vietnamese text; its result is an input of the models.
- **Frontend, carriers, social networks, reports, files, CRUD of master data and people**: views, I/O and records without
  a state that several actors change.
