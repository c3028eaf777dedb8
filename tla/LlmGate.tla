------------------------------ MODULE LlmGate ------------------------------
(***************************************************************************)
(* The way of a chat turn to the language model (LlmBudgetService and      *)
(* GeminiProvider): a turn takes a unit of the budget of the day, which a  *)
(* row of the database counts, and may then call the provider twice, to    *)
(* understand and to compose.  Each call passes the circuit breaker once,  *)
(* chooses a model, sends its request, repeats it once when the answer is  *)
(* a passing error, and chooses another model when the model is retired.   *)
(* The breaker, the retired models and the chosen one are memory of the    *)
(* process, shared by all turns and gone when it restarts.                 *)
(***************************************************************************)
EXTENDS Integers, FiniteSets

CONSTANTS
  Turns,        \* turns of the chatbot that get as far as the language model
  Models,       \* models that can generate content and are named flash
  Standard,     \* those that are not lite, experimental or a preview
  Place,        \* their places when they are sorted, the newest first
  Fallback,     \* the model that is built in
  EnvModel,     \* the model of the environment, or NoModel
  ConfigModel,  \* the model of the configuration, or NoModel
  Budgets,      \* daily_call_budget, as it may be configured
  RetryAfters,  \* how long a rate-limited call may be told to wait
  Pause,        \* how long an unavailable provider is left alone
  ModelAttempts,\* models a call tries at most: 3
  DayLength,
  MaxTime,      \* bound of the time
  NoModel

ASSUME TurnsAssumption == IsFiniteSet(Turns) /\ Turns # {}
ASSUME ModelsAssumption ==
  /\ Standard \subseteq Models /\ Fallback \in Models /\ NoModel \notin Models
  /\ {EnvModel, ConfigModel} \subseteq Models \cup {NoModel}
  /\ Place \in [Models -> Nat] /\ \A m, n \in Models : Place[m] = Place[n] => m = n
ASSUME BoundsAssumption ==
  /\ Budgets \subseteq Nat \ {0} /\ RetryAfters \subseteq Nat
  /\ {Pause, MaxTime} \subseteq Nat /\ {DayLength, ModelAttempts} \subseteq Nat \ {0}

VARIABLES
  now,          \* the time
  budgets,      \* the budgets that have been configured so far
  used,         \* system_configs CHATBOT_LLM_USAGE_<day>, by day
  openUntil,    \* circuitOpenUntil
  blacklist,    \* blacklistedModels
  best,         \* cachedBestModel, or NoModel when there is none or an old one
  turn,         \* what each turn is doing
  sent,         \* history: requests sent, by the day of the unit they were sent on
  late,         \* history: requests sent since the breaker opened, while it is open
  wasted        \* history: requests sent to each model since it was known to be retired

vars == <<now, budgets, used, openUntil, blacklist, best, turn, sent, late, wasted>>
memory == <<openUntil, blacklist, best>>
history == <<sent, late, wasted>>

DayOf(time) == time \div DayLength
Days == 0..DayOf(MaxTime)
Calls == 1..2          \* understand and compose
Attempts == 1..ModelAttempts
Retries == 0..1        \* repetitions of a request

Turn ==
  {r \in [at : {"idle", "unit", "call", "choose", "list", "send", "wait", "done"},
          day : Days, budget : Nat, call : Calls, attempt : Attempts, retry : Retries,
          model : Models \cup {NoModel}] :
     r.at \in {"send", "wait"} => r.model \in Models}
Idle == [at |-> "idle", day |-> 0, budget |-> 0, call |-> 1, attempt |-> 1, retry |-> 0,
         model |-> NoModel]

At(t, at) == turn[t].at = at
Becomes(t, r) == turn' = [turn EXCEPT ![t] = r]
Ends(t) == Becomes(t, [Idle EXCEPT !.at = "done"])
Open == now < openUntil

Init ==
  /\ now = 0 /\ (\E b \in Budgets : budgets = {b}) /\ used = [d \in Days |-> 0]
  /\ openUntil = 0 /\ blacklist = {} /\ best = NoModel
  /\ turn = [t \in Turns |-> Idle]
  /\ sent = [d \in Days |-> 0] /\ late = 0 /\ wasted = [m \in Models |-> 0]

-----------------------------------------------------------------------------
(* The budget *)

SaveBudget ==
  /\ \E b \in Budgets : budgets' = budgets \cup {b}
  /\ UNCHANGED <<now, used, memory, turn, history>>

\* tryConsume reads the budget and the day, and sees to it that the day has a row.  The cache
\* of the configuration may be filled by a read that is older than the last saves: how old a
\* budget it gives is left open.
ReadBudget(t) ==
  /\ At(t, "idle")
  /\ \E b \in budgets :
       Becomes(t, [Idle EXCEPT !.at = "unit", !.day = DayOf(now), !.budget = b])
  /\ UNCHANGED <<now, budgets, used, memory, history>>

\* UPDATE ... SET value = value + 1 WHERE value < budget.
Left(t) == used[turn[t].day] < turn[t].budget
TakeUnit(t) ==
  /\ At(t, "unit")
  /\ \/ /\ Left(t)
        /\ used' = [used EXCEPT ![turn[t].day] = @ + 1]
        /\ Becomes(t, [turn[t] EXCEPT !.at = "call"])
     \/ /\ ~ Left(t)
        /\ Ends(t)
        /\ UNCHANGED used
  /\ UNCHANGED <<now, budgets, memory, history>>

-----------------------------------------------------------------------------
(* A call of the provider *)

\* The breaker is asked by the first call of the turn only.
BeginEitherWay(t) ==
  /\ At(t, "call")
  /\ \/ Open /\ turn[t].call = 1 /\ Ends(t)
     \/ ~ (Open /\ turn[t].call = 1) /\ Becomes(t, [turn[t] EXCEPT !.at = "choose", !.attempt = 1])
  /\ UNCHANGED <<now, budgets, used, memory, history>>

Begin(t) ==
  /\ At(t, "call")
  /\ \/ Open /\ Ends(t)
     \/ ~ Open /\ Becomes(t, [turn[t] EXCEPT !.at = "choose", !.attempt = 1])
  /\ UNCHANGED <<now, budgets, used, memory, history>>

Usable(m) == m \notin blacklist \cup {NoModel}
Chosen ==
  IF Usable(EnvModel) THEN EnvModel
  ELSE IF Usable(ConfigModel) THEN ConfigModel
  ELSE IF Usable(best) THEN best ELSE NoModel

Tries(t, m) == Becomes(t, [turn[t] EXCEPT !.at = "send", !.retry = 0, !.model = m])

Choose(t) ==
  /\ At(t, "choose")
  /\ IF Chosen # NoModel THEN Tries(t, Chosen)
     ELSE Becomes(t, [turn[t] EXCEPT !.at = "list"])
  /\ UNCHANGED <<now, budgets, used, memory, history>>

\* The newest of the models the provider lists, standard ones first, or the one built in.
CandidatesAll(listed) == listed
Candidates(listed) == {m \in listed : m \notin blacklist}
Newest(ms) == CHOOSE m \in ms : \A n \in ms : Place[m] <= Place[n]
Selected(listed) ==
  LET candidates == Candidates(listed)
      standard == candidates \cap Standard
  IN IF candidates = {} THEN Fallback
     ELSE IF standard = {} THEN Newest(candidates) ELSE Newest(standard)

\* The list of models arrives, or does not: then it is as good as empty.
ListArrives(t) ==
  /\ At(t, "list")
  /\ \E listed \in SUBSET Models :
       /\ best' = Selected(listed)
       /\ Tries(t, Selected(listed))
  /\ UNCHANGED <<now, budgets, used, openUntil, blacklist, history>>

Send(t) ==
  /\ At(t, "send")
  /\ Becomes(t, [turn[t] EXCEPT !.at = "wait"])
  /\ sent' = [sent EXCEPT ![turn[t].day] = @ + 1]
  /\ late' = IF Open THEN late + 1 ELSE late
  /\ wasted' = [wasted EXCEPT ![turn[t].model] = IF turn[t].model \in blacklist THEN @ + 1 ELSE @]
  /\ UNCHANGED <<now, budgets, used, memory>>

\* A request that was rate limited, met a failing server or did not get through is repeated
\* once, by the same model, whatever was learnt of the model meanwhile.
Repeat(t) ==
  /\ At(t, "wait") /\ turn[t].retry = 0
  /\ Becomes(t, [turn[t] EXCEPT !.at = "send", !.retry = 1])
  /\ UNCHANGED <<now, budgets, used, memory, history>>

MoreModelsOrEqual(t) == turn[t].attempt <= ModelAttempts
MoreModels(t) == turn[t].attempt < ModelAttempts

\* 404: the model is retired.  The next one is tried, if this was not the last.
NotFound(t) ==
  /\ At(t, "wait")
  /\ blacklist' = blacklist \cup {turn[t].model}
  /\ best' = NoModel
  /\ IF MoreModels(t)
     THEN Becomes(t, [turn[t] EXCEPT !.at = "choose", !.attempt = @ + 1])
     ELSE Ends(t)
  /\ UNCHANGED <<now, budgets, used, openUntil, history>>

\* 429 and 503, at the second time: the breaker opens, for as long as this answer says.
Trips(t) ==
  /\ At(t, "wait") /\ turn[t].retry = 1
  /\ \E n \in RetryAfters \cup {Pause} : openUntil' = now + n
  /\ late' = 0
  /\ Ends(t)
  /\ UNCHANGED <<now, budgets, used, blacklist, best, sent, wasted>>

\* The request took too long, was refused, or its answer cannot be read; or the server or the
\* network failed for the second time.  All of these throw, as the first may at any time.
Fails(t) ==
  /\ At(t, "wait")
  /\ Ends(t)
  /\ UNCHANGED <<now, budgets, used, memory, history>>

\* An answer: the turn composes after it has understood.
SucceedsForEver(t) ==
  /\ At(t, "wait")
  /\ Becomes(t, [Idle EXCEPT !.at = "call", !.day = turn[t].day, !.call = 2])
  /\ UNCHANGED <<now, budgets, used, memory, history>>

Succeeds(t) ==
  /\ At(t, "wait")
  /\ IF turn[t].call = 1
     THEN Becomes(t, [Idle EXCEPT !.at = "call", !.day = turn[t].day, !.call = 2])
     ELSE Ends(t)
  /\ UNCHANGED <<now, budgets, used, memory, history>>

-----------------------------------------------------------------------------
(* Time, age and restarts *)

Tick ==
  /\ now < MaxTime
  /\ now' = now + 1
  /\ late' = IF now' < openUntil THEN late ELSE 0
  /\ UNCHANGED <<budgets, used, memory, turn, sent, wasted>>

\* The chosen model is forgotten after a day.
Age ==
  /\ best # NoModel
  /\ best' = NoModel
  /\ UNCHANGED <<now, budgets, used, openUntil, blacklist, turn, history>>

Restart ==
  /\ turn' = [t \in Turns |-> IF At(t, "idle") THEN Idle ELSE [Idle EXCEPT !.at = "done"]]
  /\ openUntil' = 0 /\ blacklist' = {} /\ best' = NoModel
  /\ late' = 0 /\ wasted' = [m \in Models |-> 0]
  /\ UNCHANGED <<now, budgets, used, sent>>

Step(t) ==
  \/ ReadBudget(t) \/ TakeUnit(t)
  \/ Begin(t) \/ Choose(t) \/ ListArrives(t) \/ Send(t)
  \/ Repeat(t) \/ NotFound(t) \/ Trips(t) \/ Fails(t) \/ Succeeds(t)

Next == SaveBudget \/ Tick \/ Age \/ Restart \/ \E t \in Turns : Step(t)

Spec == Init /\ [][Next]_vars

-----------------------------------------------------------------------------
(* Properties *)

\* Every variable keeps its type.
TypeOK ==
  /\ now \in 0..MaxTime /\ budgets \subseteq Budgets /\ used \in [Days -> Nat]
  /\ openUntil \in Nat /\ blacklist \subseteq Models /\ best \in Models \cup {NoModel}
  /\ turn \in [Turns -> Turn]
  /\ sent \in [Days -> Nat] /\ late \in Nat /\ wasted \in [Models -> Nat]

PerCall == 2 * ModelAttempts
BudgetHolds == \A d \in Days : \E b \in budgets : used[d] <= b
RequestsArePaid == \A d \in Days : sent[d] <= 2 * PerCall * used[d]

\* No day is charged more units than the greatest budget that was ever configured, however many
\* turns consult the budget at once and whatever the budget and the day become between its
\* reading and the update (tryConsume). The units count turns and not requests, but they bound
\* the requests: a unit pays for two calls that try each of their models with at most two
\* requests (executePipeline, generateJson).
DayIsPaid == BudgetHolds /\ RequestsArePaid

\* Once the breaker has opened, what still reaches the provider are the rest of the calls that
\* were under way, at most one of each other turn; no turn begins another (generateJson).
QuietIsKept == late <= PerCall * (Cardinality(Turns) - 1)

\* A model that answered 404 gets no more than the requests of those other turns that had
\* chosen it before, and their repetitions; only the built-in model is tried again (getModel).
RetiredIsLeft ==
  \A m \in Models \ {Fallback} : wasted[m] <= 2 * (Cardinality(Turns) - 1)
=============================================================================
