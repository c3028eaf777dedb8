--------------------------- MODULE LlmGateProofs ---------------------------
(***************************************************************************)
(* Proofs about LlmGate for any number of turns, any models, budgets and   *)
(* times.  The bounds on requests are proved by counting those that may    *)
(* still be sent: what was sent and what may be sent never exceed the      *)
(* bound together.                                                         *)
(***************************************************************************)
EXTENDS LlmGate, FiniteSetTheorems, WellFoundedInduction, TLAPS

-----------------------------------------------------------------------------
(* Sums over the turns, as the number of pairs under a graph *)

Under(c, k) == {x \in Turns \X (1..k) : x[2] <= c[x[1]]}
Total(c, k) == Cardinality(Under(c, k))

LEMMA UpTo ==
  ASSUME NEW k \in Nat
  PROVE  IsFiniteSet(1..k) /\ Cardinality(1..k) = k
<1>1. 1 \in Int /\ k \in Int
  OBVIOUS
<1>2. IsFiniteSet(1..k) /\ Cardinality(1..k) = IF 1 > k THEN 0 ELSE k - 1 + 1
  BY <1>1, FS_Interval
<1> QED
  BY <1>2

LEMMA UnderFinite ==
  ASSUME NEW k \in Nat, NEW c
  PROVE  IsFiniteSet(Under(c, k)) /\ Total(c, k) \in Nat
<1>1. IsFiniteSet(Turns) /\ IsFiniteSet(1..k)
  BY TurnsAssumption, UpTo
<1>2. IsFiniteSet(Turns \X (1..k))
  BY <1>1, FS_Product
<1>3. Under(c, k) \in SUBSET (Turns \X (1..k))
  BY DEF Under
<1>4. IsFiniteSet(Under(c, k))
  BY <1>2, <1>3, FS_Subset
<1> QED
  BY <1>4, FS_CardinalityType DEF Total

\* The sum does not grow when no term does.
LEMMA TotalLess ==
  ASSUME NEW k \in Nat, NEW c \in [Turns -> Nat], NEW b \in [Turns -> Nat],
         \A t \in Turns : b[t] <= c[t]
  PROVE  Total(b, k) <= Total(c, k)
<1>1. Under(b, k) \in SUBSET Under(c, k)
  <2> SUFFICES ASSUME NEW t \in Turns, NEW n \in 1..k, n <= b[t] PROVE n <= c[t]
    BY DEF Under
  <2> QED
    OBVIOUS
<1> QED
  BY <1>1, UnderFinite, FS_Subset DEF Total

\* It falls when one term does.
LEMMA TotalFalls ==
  ASSUME NEW k \in Nat, NEW c \in [Turns -> Nat], NEW b \in [Turns -> Nat],
         \A u \in Turns : b[u] <= c[u],
         NEW t \in Turns, b[t] < c[t], c[t] <= k
  PROVE  Total(b, k) + 1 <= Total(c, k)
<1> DEFINE x == <<t, c[t]>>
<1>1. x \in Under(c, k)
  BY DEF Under
<1>2. Under(b, k) \in SUBSET (Under(c, k) \ {x})
  <2> SUFFICES ASSUME NEW u \in Turns, NEW n \in 1..k, n <= b[u]
               PROVE  n <= c[u] /\ <<u, n>> # x
    BY DEF Under
  <2>1. u = t => n < c[t]
    OBVIOUS
  <2> QED
    BY <2>1
<1>3. /\ IsFiniteSet(Under(c, k) \ {x})
      /\ Cardinality(Under(c, k) \ {x}) = Total(c, k) - 1
  BY <1>1, UnderFinite, FS_RemoveElement DEF Total
<1>4. Total(b, k) <= Total(c, k) - 1
  BY <1>2, <1>3, FS_Subset DEF Total
<1> QED
  BY <1>4, UnderFinite

\* It grows by no more than the bound of a term when one term does.
LEMMA TotalGrows ==
  ASSUME NEW k \in Nat, NEW c \in [Turns -> Nat], NEW b \in [Turns -> Nat], NEW t \in Turns,
         \A u \in Turns \ {t} : b[u] <= c[u]
  PROVE  Total(b, k) <= Total(c, k) + k
<1> DEFINE own == {t} \X (1..k)
<1>1. IsFiniteSet(own) /\ Cardinality(own) = k
  <2>1. IsFiniteSet({t}) /\ Cardinality({t}) = 1
    BY FS_Singleton
  <2>2. IsFiniteSet(1..k) /\ Cardinality(1..k) = k
    BY UpTo
  <2>3. IsFiniteSet(own) /\ Cardinality(own) = Cardinality({t}) * Cardinality(1..k)
    BY <2>1, <2>2, FS_Product
  <2> QED
    BY <2>1, <2>2, <2>3
<1>2. Under(b, k) \in SUBSET (Under(c, k) \cup own)
  <2> SUFFICES ASSUME NEW u \in Turns, NEW n \in 1..k, n <= b[u]
               PROVE  n <= c[u] \/ u = t
    BY DEF Under
  <2> QED
    OBVIOUS
<1> HIDE DEF own
<1>3. /\ IsFiniteSet(Under(c, k) \cup own)
      /\ Cardinality(Under(c, k) \cup own) <= Total(c, k) + k
  <2>1. IsFiniteSet(Under(c, k) \cap own)
    BY <1>1, FS_Intersection
  <2>2. Cardinality(Under(c, k) \cap own) \in Nat
    BY <2>1, FS_CardinalityType
  <2>3. IsFiniteSet(Under(c, k)) /\ Cardinality(Under(c, k)) \in Nat
    BY UnderFinite DEF Total
  <2>4. /\ IsFiniteSet(Under(c, k) \cup own)
        /\ Cardinality(Under(c, k) \cup own)
             = Cardinality(Under(c, k)) + Cardinality(own) - Cardinality(Under(c, k) \cap own)
    BY <1>1, <2>3, FS_Union
  <2> QED
    BY <1>1, <2>2, <2>3, <2>4 DEF Total
<1>4. IsFiniteSet(Under(b, k)) /\ Total(b, k) <= Cardinality(Under(c, k) \cup own)
  BY <1>2, <1>3, FS_Subset DEF Total
<1>5. Cardinality(Under(c, k) \cup own) \in Nat
  BY <1>3, FS_CardinalityType
<1> QED
  BY <1>3, <1>4, <1>5, UnderFinite

\* A turn that has no part in it leaves the bound of the others.
LEMMA TotalOfOthers ==
  ASSUME NEW k \in Nat, NEW c \in [Turns -> Nat], NEW t \in Turns, c[t] = 0
  PROVE  Total(c, k) <= k * (Cardinality(Turns) - 1)
<1> DEFINE others == Turns \ {t}
<1>1. IsFiniteSet(others) /\ Cardinality(others) = Cardinality(Turns) - 1
  BY TurnsAssumption, FS_RemoveElement
<1>2. IsFiniteSet(1..k) /\ Cardinality(1..k) = k
  BY UpTo
<1>3. /\ IsFiniteSet(others \X (1..k))
      /\ Cardinality(others \X (1..k)) = (Cardinality(Turns) - 1) * k
  <2>1. /\ IsFiniteSet(others \X (1..k))
        /\ Cardinality(others \X (1..k)) = Cardinality(others) * Cardinality(1..k)
    BY <1>1, <1>2, FS_Product
  <2> QED
    BY <1>1, <1>2, <2>1
<1>4. Under(c, k) \in SUBSET (others \X (1..k))
  <2> SUFFICES ASSUME NEW u \in Turns, NEW n \in 1..k, n <= c[u] PROVE u # t
    BY DEF Under
  <2> QED
    OBVIOUS
<1>5. Total(c, k) <= (Cardinality(Turns) - 1) * k
  BY <1>3, <1>4, FS_Subset DEF Total
<1>6. Cardinality(Turns) \in Nat
  BY TurnsAssumption, FS_CardinalityType
<1> QED
  BY <1>5, <1>6

-----------------------------------------------------------------------------
(* Types *)

LEMMA DayTyped == ASSUME NEW time \in 0..MaxTime PROVE DayOf(time) \in Days
<1>1. DayLength \in Nat \ {0} /\ MaxTime \in Nat
  BY BoundsAssumption
<1>2. time \div DayLength \in Nat
  BY <1>1
<1>3. time \div DayLength <= MaxTime \div DayLength
  BY <1>1, SMTT(30)
<1> QED
  BY <1>1, <1>2, <1>3 DEF DayOf, Days

LEMMA NewestTyped ==
  ASSUME NEW ms \in SUBSET Models, ms # {}
  PROVE  Newest(ms) \in ms
<1> DEFINE places == {Place[m] : m \in ms}
<1>1. places \subseteq Nat /\ places # {}
  BY ModelsAssumption
<1> HIDE DEF places
<1>2. PICK p \in places : \A q \in places : ~ (<<q, p>> \in OpToRel(<, Nat))
  BY <1>1, WFMin, NatLessThanWellFounded, Zenon
<1>3. \A q \in places : ~ (q < p)
  BY <1>1, <1>2, Zenon DEF OpToRel
<1>4. PICK m \in ms : p = Place[m]
  BY <1>2 DEF places
<1>5. \A n \in ms : Place[m] <= Place[n]
  <2> SUFFICES ASSUME NEW n \in ms PROVE Place[m] <= Place[n]
    OBVIOUS
  <2>1. Place[n] \in places
    BY DEF places
  <2>2. ~ (Place[n] < Place[m])
    BY <2>1, <1>3, <1>4
  <2>3. Place[n] \in Nat /\ Place[m] \in Nat
    BY ModelsAssumption
  <2> QED
    BY <2>2, <2>3
<1> QED
  BY <1>5 DEF Newest

\* What is selected from a list is not retired, unless it is the model that is built in.
LEMMA SelectedTyped ==
  ASSUME NEW listed \in SUBSET Models
  PROVE  /\ Selected(listed) \in Models
         /\ Selected(listed) \notin blacklist \/ Selected(listed) = Fallback
<1> DEFINE candidates == Candidates(listed)
           standard == candidates \cap Standard
<1>1. candidates \in SUBSET Models /\ standard \in SUBSET candidates
      /\ \A m \in candidates : m \notin blacklist
  BY DEF Candidates
<1>2. Selected(listed) = IF candidates = {} THEN Fallback
                         ELSE IF standard = {} THEN Newest(candidates) ELSE Newest(standard)
  BY DEF Selected
<1> HIDE DEF candidates, standard
<1>3. candidates # {} => Newest(candidates) \in candidates
  BY <1>1, NewestTyped
<1>4. standard # {} => Newest(standard) \in standard
  BY <1>1, NewestTyped
<1>5. Fallback \in Models
  BY ModelsAssumption
<1> QED
  BY <1>1, <1>2, <1>3, <1>4, <1>5

LEMMA ChosenTyped ==
  ASSUME TypeOK
  PROVE  /\ Chosen \in Models \cup {NoModel}
         /\ Chosen # NoModel => Chosen \in Models /\ Chosen \notin blacklist
BY ModelsAssumption DEF Chosen, Usable, TypeOK

LEMMA NumbersTyped ==
  /\ 0 \in Days /\ 1 \in Calls /\ 2 \in Calls /\ 1 \in Attempts /\ 0 \in Retries /\ 1 \in Retries
<1>1. 0 \in 0..MaxTime /\ MaxTime \in 0..MaxTime
  BY BoundsAssumption
<1>2. DayOf(MaxTime) \in 0..DayOf(MaxTime)
  BY <1>1, DayTyped DEF Days
<1> HIDE DEF DayOf
<1>3. 0 \in Days
  BY <1>2 DEF Days
<1> QED
  BY <1>3, BoundsAssumption DEF Calls, Attempts, Retries

LEMMA IdleTyped == Idle \in Turn /\ [Idle EXCEPT !.at = "done"] \in Turn
BY NumbersTyped DEF Idle, Turn

\* What each step of a turn makes of it.
LEMMA TurnTyped ==
  ASSUME TypeOK, NEW t \in Turns, Step(t)
  PROVE  \E r \in Turn : turn' = [turn EXCEPT ![t] = r]
<1> DEFINE old == turn[t]
<1>0. old \in Turn
  BY DEF TypeOK
<1>1. CASE ReadBudget(t)
  <2>1. PICK b \in budgets :
          Becomes(t, [Idle EXCEPT !.at = "unit", !.day = DayOf(now), !.budget = b])
    BY <1>1 DEF ReadBudget
  <2>2. DayOf(now) \in Days /\ b \in Nat
    BY DayTyped, BoundsAssumption DEF TypeOK
  <2>3. [Idle EXCEPT !.at = "unit", !.day = DayOf(now), !.budget = b] \in Turn
    BY <2>2, IdleTyped DEF Turn
  <2> QED
    BY <2>1, <2>3 DEF Becomes
<1>2. CASE TakeUnit(t)
  <2>1. [old EXCEPT !.at = "call"] \in Turn
    BY <1>0 DEF Turn
  <2> QED
    BY <1>2, <2>1, IdleTyped DEF TakeUnit, Becomes, Ends
<1>3. CASE Begin(t)
  <2>1. [old EXCEPT !.at = "choose", !.attempt = 1] \in Turn
    BY <1>0, NumbersTyped DEF Turn
  <2> QED
    BY <1>3, <2>1, IdleTyped DEF Begin, Becomes, Ends
<1>4. ASSUME NEW m \in Models, Tries(t, m) PROVE \E r \in Turn : turn' = [turn EXCEPT ![t] = r]
  <2>1. [old EXCEPT !.at = "send", !.retry = 0, !.model = m] \in Turn
    BY <1>0, NumbersTyped DEF Turn
  <2> QED
    BY <1>4, <2>1 DEF Tries, Becomes
<1>5. CASE Choose(t)
  <2>1. [old EXCEPT !.at = "list"] \in Turn
    BY <1>0 DEF Turn
  <2> QED
    BY <1>4, <1>5, <2>1, ChosenTyped DEF Choose, Becomes
<1>6. CASE ListArrives(t)
  BY <1>4, <1>6, SelectedTyped DEF ListArrives
<1>7. CASE Send(t)
  <2>1. [old EXCEPT !.at = "wait"] \in Turn
    BY <1>0, <1>7 DEF Turn, Send, At
  <2> QED
    BY <1>7, <2>1 DEF Send, Becomes
<1>8. CASE Repeat(t)
  <2>1. [old EXCEPT !.at = "send", !.retry = 1] \in Turn
    BY <1>0, <1>8, NumbersTyped DEF Turn, Repeat, At
  <2> QED
    BY <1>8, <2>1 DEF Repeat, Becomes
<1>9. CASE NotFound(t)
  <2>1. CASE MoreModels(t)
    <3>1. old.attempt + 1 \in Attempts
      BY <1>0, <2>1, BoundsAssumption DEF MoreModels, Turn, Attempts
    <3>2. [old EXCEPT !.at = "choose", !.attempt = @ + 1] \in Turn
      BY <1>0, <3>1 DEF Turn
    <3> QED
      BY <1>9, <2>1, <3>2 DEF NotFound, Becomes
  <2>2. CASE ~ MoreModels(t)
    BY <1>9, <2>2, IdleTyped DEF NotFound, Becomes, Ends
  <2> QED
    BY <2>1, <2>2
<1>10. CASE Trips(t)
  BY <1>10, IdleTyped DEF Trips, Becomes, Ends
<1>11. CASE Fails(t)
  BY <1>11, IdleTyped DEF Fails, Becomes, Ends
<1>12. CASE Succeeds(t)
  <2>1. [Idle EXCEPT !.at = "call", !.day = old.day, !.call = 2] \in Turn
    BY <1>0, IdleTyped, NumbersTyped DEF Turn
  <2> QED
    BY <1>12, <2>1, IdleTyped DEF Succeeds, Becomes, Ends
<1> QED
  BY <1>1, <1>2, <1>3, <1>5, <1>6, <1>7, <1>8, <1>9, <1>10, <1>11, <1>12 DEF Step

LEMMA TypeInit == Init => TypeOK
BY IdleTyped, BoundsAssumption, ModelsAssumption DEF Init, TypeOK

LEMMA TypeStep == TypeOK /\ [Next]_vars => TypeOK'
<1> SUFFICES ASSUME TypeOK, [Next]_vars PROVE TypeOK'
  OBVIOUS
<1> USE DEF TypeOK, memory, history
<1>1. CASE SaveBudget
  BY <1>1, BoundsAssumption DEF SaveBudget
<1>2. CASE Tick
  BY <1>2, BoundsAssumption DEF Tick
<1>3. CASE Age
  BY <1>3 DEF Age
<1>4. CASE Restart
  BY <1>4, IdleTyped DEF Restart
<1>5. ASSUME NEW t \in Turns, Step(t) PROVE TypeOK'
  <2>0. turn' \in [Turns -> Turn]
    BY <1>5, TurnTyped
  <2>1. turn[t] \in Turn /\ turn[t].day \in Days /\ turn[t].model \in Models \cup {NoModel}
    BY DEF Turn
  <2>2. CASE ReadBudget(t) \/ Begin(t) \/ Choose(t) \/ Repeat(t) \/ Fails(t) \/ Succeeds(t)
    BY <2>0, <2>2 DEF ReadBudget, Begin, Choose, Repeat, Fails, Succeeds
  <2>3. CASE TakeUnit(t)
    <3>1. used' \in [Days -> Nat]
      BY <2>1, <2>3 DEF TakeUnit
    <3> QED
      BY <2>0, <2>3, <3>1 DEF TakeUnit
  <2>4. CASE ListArrives(t)
    BY <2>0, <2>4, SelectedTyped DEF ListArrives
  <2>5. CASE Send(t)
    <3>1. sent' \in [Days -> Nat] /\ late' \in Nat
      BY <2>1, <2>5 DEF Send
    <3>2. turn[t].model \in Models
      BY <2>1, <2>5 DEF Send, At, Turn
    <3>3. wasted[turn[t].model] \in Nat /\ wasted[turn[t].model] + 1 \in Nat
      BY <3>2
    <3>4. wasted' \in [Models -> Nat]
      BY <2>5, <3>3 DEF Send
    <3> QED
      BY <2>0, <2>5, <3>1, <3>4 DEF Send
  <2>6. CASE NotFound(t)
    <3>1. turn[t].model \in Models
      BY <2>1, <2>6 DEF NotFound, At, Turn
    <3> QED
      BY <2>0, <2>6, <3>1 DEF NotFound
  <2>7. CASE Trips(t)
    BY <2>0, <2>7, BoundsAssumption DEF Trips
  <2> QED
    BY <1>5, <2>2, <2>3, <2>4, <2>5, <2>6, <2>7 DEF Step
<1>6. CASE UNCHANGED vars
  BY <1>6 DEF vars
<1> QED
  BY <1>1, <1>2, <1>3, <1>4, <1>5, <1>6 DEF Next

-----------------------------------------------------------------------------
(* The requests a turn may still send: in its call, in all, and to a model it has chosen *)

Tried(r) == 2 * (ModelAttempts - r.attempt)
CallRest(r) ==
  IF r.at \in {"choose", "list"} THEN Tried(r) + 2
  ELSE IF r.at = "send" THEN Tried(r) + 2 - r.retry
  ELSE IF r.at = "wait" THEN Tried(r) + 1 - r.retry ELSE 0
NextCall(r) ==
  IF r.call = 1 /\ r.at \in {"call", "choose", "list", "send", "wait"} THEN PerCall ELSE 0
TurnRest(r) == NextCall(r) + (IF r.at = "call" THEN PerCall ELSE CallRest(r))
ModelRest(r, m) ==
  IF r.model # m THEN 0
  ELSE IF r.at = "send" THEN 2 - r.retry ELSE IF r.at = "wait" THEN 1 - r.retry ELSE 0

LEMMA RestTyped ==
  ASSUME NEW r \in Turn
  PROVE  /\ PerCall \in Nat
         /\ CallRest(r) \in Nat /\ CallRest(r) <= PerCall
         /\ TurnRest(r) \in Nat /\ TurnRest(r) <= 2 * PerCall
         /\ \A m : ModelRest(r, m) \in Nat /\ ModelRest(r, m) <= 2
<1>1. ModelAttempts \in Nat \ {0}
  BY BoundsAssumption
<1>2. r.attempt \in 1..ModelAttempts /\ r.retry \in {0, 1}
  BY <1>1 DEF Turn, Attempts, Retries
<1>3. PerCall \in Nat /\ PerCall = 2 * ModelAttempts
  BY <1>1 DEF PerCall
<1>4. CallRest(r) \in Nat /\ CallRest(r) <= PerCall
  BY <1>1, <1>2, <1>3 DEF CallRest, Tried
<1>5. NextCall(r) \in {0, PerCall}
  BY DEF NextCall
<1>6. TurnRest(r) \in Nat /\ TurnRest(r) <= 2 * PerCall
  BY <1>3, <1>4, <1>5 DEF TurnRest
<1>7. \A m : ModelRest(r, m) \in Nat /\ ModelRest(r, m) <= 2
  BY <1>2 DEF ModelRest
<1> QED
  BY <1>3, <1>4, <1>6, <1>7

\* A turn that is over has nothing left to send.
LEMMA DoneRests ==
  ASSUME NEW r, r.at \in {"idle", "unit", "done"}
  PROVE  CallRest(r) = 0 /\ TurnRest(r) = 0 /\ \A m : ModelRest(r, m) = 0
<1>1. CallRest(r) = 0 /\ NextCall(r) = 0 /\ \A m : ModelRest(r, m) = 0
  BY DEF CallRest, NextCall, ModelRest
<1> QED
  BY <1>1 DEF TurnRest

\* Only the beginning of a turn or a call gives a turn more to send.
NoMore(r, s) ==
  /\ s.day = r.day \/ TurnRest(s) = 0
  /\ TurnRest(s) <= TurnRest(r)
  /\ CallRest(s) <= CallRest(r)

LEMMA EndsRests ==
  ASSUME TypeOK, NEW t \in Turns, Ends(t)
  PROVE  /\ turn'[t].at = "done" /\ NoMore(turn[t], turn'[t])
         /\ CallRest(turn'[t]) = 0 /\ TurnRest(turn'[t]) = 0 /\ \A m : ModelRest(turn'[t], m) = 0
<1>1. turn'[t].at = "done"
  BY DEF TypeOK, Ends, Becomes, Idle
<1>2. turn[t] \in Turn
  BY DEF TypeOK
<1> QED
  BY <1>1, <1>2, DoneRests, RestTyped DEF NoMore

LEMMA StepRests ==
  ASSUME TypeOK, NEW t \in Turns,
         ReadBudget(t) \/ Choose(t) \/ ListArrives(t) \/ Repeat(t) \/ NotFound(t)
           \/ Trips(t) \/ Fails(t) \/ Succeeds(t)
  PROVE  NoMore(turn[t], turn'[t])
<1> DEFINE old == turn[t]
<1>0. old \in Turn /\ turn \in [Turns -> Turn]
  BY DEF TypeOK
<1>1. ModelAttempts \in Nat \ {0} /\ PerCall \in Nat
  BY BoundsAssumption DEF PerCall
<1>2. old.attempt \in 1..ModelAttempts /\ old.retry \in {0, 1} /\ old.call \in {1, 2}
  BY <1>0, <1>1 DEF Turn, Attempts, Retries, Calls
<1>3. CASE ReadBudget(t)
  <2>1. turn'[t].at = "unit" /\ old.at = "idle"
    BY <1>0, <1>3 DEF ReadBudget, Becomes, At, Idle
  <2> QED
    BY <2>1, DoneRests DEF NoMore
<1>4. ASSUME NEW m, Tries(t, m), old.at \in {"choose", "list"} PROVE NoMore(old, turn'[t])
  <2>1. /\ turn'[t].at = "send" /\ turn'[t].retry = 0 /\ turn'[t].day = old.day
        /\ turn'[t].attempt = old.attempt /\ turn'[t].call = old.call
    BY <1>0, <1>4 DEF Tries, Becomes, Turn
  <2> QED
    BY <1>1, <1>2, <1>4, <2>1 DEF NoMore, TurnRest, CallRest, NextCall, Tried
<1>5. CASE Choose(t)
  <2>1. CASE Chosen # NoModel
    BY <1>4, <1>5, <2>1 DEF Choose, At
  <2>2. CASE Chosen = NoModel
    <3>1. /\ turn'[t].at = "list" /\ old.at = "choose" /\ turn'[t].day = old.day
          /\ turn'[t].attempt = old.attempt /\ turn'[t].call = old.call
      BY <1>0, <1>5, <2>2 DEF Choose, At, Becomes, Turn
    <3> QED
      BY <1>1, <1>2, <3>1 DEF NoMore, TurnRest, CallRest, NextCall, Tried
  <2> QED
    BY <2>1, <2>2
<1>6. CASE ListArrives(t)
  BY <1>4, <1>6 DEF ListArrives, At
<1>7. CASE Repeat(t)
  <2>1. /\ turn'[t].at = "send" /\ turn'[t].retry = 1 /\ turn'[t].day = old.day
        /\ turn'[t].attempt = old.attempt /\ turn'[t].call = old.call
        /\ old.at = "wait" /\ old.retry = 0
    BY <1>0, <1>7 DEF Repeat, At, Becomes, Turn
  <2> QED
    BY <1>1, <1>2, <2>1 DEF NoMore, TurnRest, CallRest, NextCall, Tried
<1>8. CASE NotFound(t) /\ MoreModels(t)
  <2>0. /\ turn'[t] = [old EXCEPT !.at = "choose", !.attempt = old.attempt + 1]
        /\ old.at = "wait"
    BY <1>0, <1>8 DEF NotFound, At, Becomes
  <2>1. /\ turn'[t].at = "choose" /\ turn'[t].day = old.day
        /\ turn'[t].attempt = old.attempt + 1 /\ turn'[t].call = old.call
        /\ old.at = "wait"
    BY <1>0, <2>0 DEF Turn
  <2> QED
    BY <1>1, <1>2, <2>1 DEF NoMore, TurnRest, CallRest, NextCall, Tried
<1>9. CASE Succeeds(t) /\ old.call = 1
  <2>1. /\ turn'[t].at = "call" /\ turn'[t].day = old.day /\ turn'[t].call = 2
        /\ old.at = "wait"
    BY <1>0, <1>9 DEF Succeeds, At, Becomes, Turn, Idle
  <2>2. CallRest(turn'[t]) = 0 /\ TurnRest(turn'[t]) = PerCall
    BY <1>1, <2>1 DEF TurnRest, CallRest, NextCall
  <2>3. TurnRest(old) = PerCall + CallRest(old)
    BY <1>9, <2>1 DEF TurnRest, NextCall
  <2> QED
    BY <1>0, <1>1, <2>1, <2>2, <2>3, RestTyped DEF NoMore
<1>10. CASE Ends(t)
  BY <1>10, EndsRests
<1> QED
  BY <1>3, <1>5, <1>6, <1>7, <1>8, <1>9, <1>10 DEF NotFound, Trips, Fails, Succeeds

LEMMA SendRests ==
  ASSUME TypeOK, NEW t \in Turns, Send(t)
  PROVE  /\ turn'[t].day = turn[t].day /\ turn'[t].model = turn[t].model
         /\ TurnRest(turn'[t]) < TurnRest(turn[t])
         /\ CallRest(turn'[t]) < CallRest(turn[t])
         /\ \A m : ModelRest(turn'[t], m) <= ModelRest(turn[t], m)
         /\ ModelRest(turn'[t], turn[t].model) < ModelRest(turn[t], turn[t].model)
<1> DEFINE old == turn[t]
<1>0. old \in Turn /\ turn \in [Turns -> Turn]
  BY DEF TypeOK
<1>1. ModelAttempts \in Nat \ {0} /\ PerCall \in Nat
  BY BoundsAssumption DEF PerCall
<1>2. old.attempt \in 1..ModelAttempts /\ old.retry \in {0, 1} /\ old.call \in {1, 2}
  BY <1>0, <1>1 DEF Turn, Attempts, Retries, Calls
<1>3. /\ old.at = "send" /\ turn'[t].at = "wait" /\ turn'[t].day = old.day
      /\ turn'[t].attempt = old.attempt /\ turn'[t].call = old.call
      /\ turn'[t].retry = old.retry /\ turn'[t].model = old.model
  BY <1>0 DEF Send, At, Becomes, Turn
<1>4. CallRest(old) = Tried(old) + 2 - old.retry /\ CallRest(turn'[t]) = Tried(old) + 1 - old.retry
  BY <1>3 DEF CallRest, Tried
<1>5. NextCall(turn'[t]) = NextCall(old) /\ NextCall(old) \in {0, PerCall} /\ Tried(old) \in Nat
  BY <1>1, <1>2, <1>3 DEF NextCall, Tried
<1>6. TurnRest(old) = NextCall(old) + CallRest(old)
      /\ TurnRest(turn'[t]) = NextCall(old) + CallRest(turn'[t])
  BY <1>3, <1>5 DEF TurnRest
<1>7. \A m : ModelRest(turn'[t], m) <= ModelRest(old, m)
  BY <1>2, <1>3 DEF ModelRest
<1>8. ModelRest(turn'[t], old.model) < ModelRest(old, old.model)
  BY <1>2, <1>3 DEF ModelRest
<1> QED
  BY <1>1, <1>2, <1>3, <1>4, <1>5, <1>6, <1>7, <1>8

LEMMA BeginRests ==
  ASSUME TypeOK, NEW t \in Turns, Begin(t)
  PROVE  /\ turn'[t].day = turn[t].day \/ TurnRest(turn'[t]) = 0
         /\ TurnRest(turn'[t]) <= TurnRest(turn[t])
         /\ \A m : ModelRest(turn'[t], m) = 0
<1> DEFINE old == turn[t]
<1>0. old \in Turn /\ turn \in [Turns -> Turn]
  BY DEF TypeOK
<1>1. CASE Ends(t)
  BY <1>1, EndsRests DEF NoMore
<1>2. CASE turn' = [turn EXCEPT ![t] = [old EXCEPT !.at = "choose", !.attempt = 1]]
  <2>1. ModelAttempts \in Nat \ {0} /\ PerCall = 2 * ModelAttempts
    BY BoundsAssumption DEF PerCall
  <2>2. /\ old.at = "call" /\ turn'[t].at = "choose" /\ turn'[t].attempt = 1
        /\ turn'[t].day = old.day /\ turn'[t].call = old.call
    BY <1>0, <1>2 DEF Begin, At, Turn
  <2>3. CallRest(turn'[t]) = PerCall
    BY <2>1, <2>2 DEF CallRest, Tried
  <2>4. TurnRest(turn'[t]) = TurnRest(old) /\ TurnRest(old) \in Nat
    BY <1>0, <2>2, <2>3, RestTyped DEF TurnRest, NextCall
  <2>5. \A m : ModelRest(turn'[t], m) = 0
    BY <2>2 DEF ModelRest
  <2> QED
    BY <2>2, <2>4, <2>5
<1> QED
  BY <1>1, <1>2 DEF Begin, Becomes

\* A step of one turn leaves the others alone.
LEMMA OthersStay ==
  ASSUME TypeOK, NEW t \in Turns, Step(t)
  PROVE  \A u \in Turns \ {t} : turn'[u] = turn[u]
BY TurnTyped DEF TypeOK

-----------------------------------------------------------------------------
(* The units bound the requests *)

DayRests(s, d) == [u \in Turns |-> IF s[u].day = d THEN TurnRest(s[u]) ELSE 0]
PerUnit == 2 * PerCall
PaidInv == \A d \in Days : sent[d] + Total(DayRests(turn, d), PerUnit) <= PerUnit * used[d]

LEMMA Products ==
  ASSUME NEW k \in Nat, NEW n \in Nat
  PROVE  k * n \in Nat /\ k * (n + 1) = k * n + k
OBVIOUS

LEMMA DayRestsTyped ==
  ASSUME NEW s \in [Turns -> Turn], NEW d
  PROVE  /\ DayRests(s, d) \in [Turns -> Nat] /\ \A u \in Turns : DayRests(s, d)[u] <= PerUnit
         /\ PerUnit \in Nat /\ Total(DayRests(s, d), PerUnit) \in Nat
<1>1. PerCall \in Nat /\ PerUnit \in Nat
  BY BoundsAssumption DEF PerCall, PerUnit
<1>2. \A u \in Turns : TurnRest(s[u]) \in Nat /\ TurnRest(s[u]) <= PerUnit
  BY RestTyped DEF PerUnit
<1>3. \A u \in Turns : DayRests(s, d)[u] \in Nat /\ DayRests(s, d)[u] <= PerUnit
  BY <1>1, <1>2 DEF DayRests
<1>4. DayRests(s, d) \in [Turns -> Nat]
  BY <1>3 DEF DayRests
<1> QED
  BY <1>1, <1>3, <1>4, UnderFinite

LEMMA PaidFewer ==
  ASSUME TypeOK, TypeOK', PaidInv, UNCHANGED <<used, sent>>,
         \A u \in Turns : /\ turn'[u].day = turn[u].day \/ TurnRest(turn'[u]) = 0
                          /\ TurnRest(turn'[u]) <= TurnRest(turn[u])
  PROVE  PaidInv'
<1> SUFFICES ASSUME NEW d \in Days
             PROVE  sent[d] + Total(DayRests(turn', d), PerUnit) <= PerUnit * used[d]
  BY DEF PaidInv, DayRests, Total, Under, PerUnit, PerCall
<1>1. turn \in [Turns -> Turn] /\ turn' \in [Turns -> Turn]
  BY DEF TypeOK
<1>2. \A u \in Turns : TurnRest(turn[u]) \in Nat
  BY <1>1, RestTyped
<1>3. \A u \in Turns : DayRests(turn', d)[u] <= DayRests(turn, d)[u]
  BY <1>2 DEF DayRests
<1>4. Total(DayRests(turn', d), PerUnit) <= Total(DayRests(turn, d), PerUnit)
  BY <1>1, <1>3, DayRestsTyped, TotalLess
<1>5. sent[d] + Total(DayRests(turn, d), PerUnit) <= PerUnit * used[d]
  BY DEF PaidInv
<1>6. used[d] \in Nat /\ sent[d] \in Nat
  BY DEF TypeOK
<1>7. PerUnit * used[d] \in Nat
  BY <1>1, <1>6, DayRestsTyped, Products
<1> QED
  BY <1>1, <1>4, <1>5, <1>6, <1>7, DayRestsTyped

LEMMA PaidStep == TypeOK /\ TypeOK' /\ PaidInv /\ [Next]_vars => PaidInv'
<1> SUFFICES ASSUME TypeOK, TypeOK', PaidInv, [Next]_vars PROVE PaidInv'
  OBVIOUS
<1>0. turn \in [Turns -> Turn] /\ turn' \in [Turns -> Turn]
  BY DEF TypeOK
<1>1. CASE UNCHANGED <<used, sent, turn>>
  <2>1. \A u \in Turns : TurnRest(turn[u]) \in Nat
    BY <1>0, RestTyped
  <2> QED
    BY <1>1, <2>1, PaidFewer
<1>2. CASE SaveBudget \/ Tick \/ Age \/ UNCHANGED vars
  BY <1>1, <1>2 DEF SaveBudget, Tick, Age, vars, history
<1>3. CASE Restart
  <2>1. \A u \in Turns : turn'[u].at \in {"idle", "done"}
    BY <1>3 DEF Restart, Idle
  <2>2. \A u \in Turns : TurnRest(turn'[u]) = 0 /\ TurnRest(turn[u]) \in Nat
    BY <1>0, <2>1, DoneRests, RestTyped
  <2>3. UNCHANGED <<used, sent>>
    BY <1>3 DEF Restart
  <2> QED
    BY <2>2, <2>3, PaidFewer
<1>4. ASSUME NEW t \in Turns, Step(t) PROVE PaidInv'
  <2>0. \A u \in Turns \ {t} : turn'[u] = turn[u]
    BY <1>4, OthersStay
  <2>1. CASE /\ UNCHANGED <<used, sent>>
             /\ turn'[t].day = turn[t].day \/ TurnRest(turn'[t]) = 0
             /\ TurnRest(turn'[t]) <= TurnRest(turn[t])
    <3>1. \A u \in Turns : TurnRest(turn[u]) \in Nat
      BY <1>0, RestTyped
    <3>2. ASSUME NEW u \in Turns
          PROVE  /\ turn'[u].day = turn[u].day \/ TurnRest(turn'[u]) = 0
                 /\ TurnRest(turn'[u]) <= TurnRest(turn[u])
      BY <2>0, <2>1, <3>1
    <3> QED
      BY <2>1, <3>2, PaidFewer
  <2>2. CASE ReadBudget(t) \/ Choose(t) \/ ListArrives(t) \/ Repeat(t) \/ NotFound(t)
               \/ Trips(t) \/ Fails(t) \/ Succeeds(t)
    <3>1. UNCHANGED <<used, sent>>
      BY <2>2 DEF ReadBudget, Choose, ListArrives, Repeat, NotFound, Trips, Fails, Succeeds, history
    <3> QED
      BY <2>1, <2>2, <3>1, StepRests DEF NoMore
  <2>3. CASE Begin(t)
    BY <2>1, <2>3, BeginRests DEF Begin, history
  <2>4. CASE TakeUnit(t) /\ ~ Left(t)
    BY <2>1, <2>4, EndsRests DEF TakeUnit, NoMore, history
  <2>5. CASE TakeUnit(t) /\ Left(t)
    <3> DEFINE day == turn[t].day
    <3>1. /\ used' = [used EXCEPT ![day] = used[day] + 1] /\ sent' = sent
          /\ turn'[t].day = day /\ day \in Days
      BY <1>0, <2>5 DEF TakeUnit, Becomes, Turn, history
    <3> SUFFICES ASSUME NEW d \in Days
                 PROVE  sent'[d] + Total(DayRests(turn', d), PerUnit) <= PerUnit * used'[d]
      BY DEF PaidInv, DayRests, Total, Under, PerUnit, PerCall
    <3>2. \A u \in Turns : TurnRest(turn[u]) \in Nat
      BY <1>0, RestTyped
    <3>3. \A u \in Turns \ {t} : DayRests(turn', d)[u] <= DayRests(turn, d)[u]
      BY <2>0, <3>2 DEF DayRests
    <3>4. sent[d] + Total(DayRests(turn, d), PerUnit) <= PerUnit * used[d]
      BY DEF PaidInv
    <3>5. used[d] \in Nat /\ sent[d] \in Nat
      BY DEF TypeOK
    <3>6. PerUnit * used[d] \in Nat /\ PerUnit * (used[d] + 1) = PerUnit * used[d] + PerUnit
      BY <1>0, <3>5, DayRestsTyped, Products
    <3>7. CASE d = day
      <4>1. Total(DayRests(turn', d), PerUnit) <= Total(DayRests(turn, d), PerUnit) + PerUnit
        BY <1>0, <3>3, DayRestsTyped, TotalGrows
      <4>2. used'[d] = used[d] + 1
        BY <3>1, <3>7 DEF TypeOK
      <4> QED
        BY <1>0, <3>1, <3>4, <3>5, <3>6, <4>1, <4>2, DayRestsTyped
    <3>8. CASE d # day
      <4>1. DayRests(turn', d)[t] <= DayRests(turn, d)[t]
        BY <3>1, <3>2, <3>8 DEF DayRests
      <4>2. Total(DayRests(turn', d), PerUnit) <= Total(DayRests(turn, d), PerUnit)
        BY <1>0, <3>3, <4>1, DayRestsTyped, TotalLess
      <4>3. used'[d] = used[d]
        BY <3>1, <3>8 DEF TypeOK
      <4> QED
        BY <1>0, <3>1, <3>4, <3>5, <3>6, <4>2, <4>3, DayRestsTyped
    <3> QED
      BY <3>7, <3>8
  <2>6. CASE Send(t)
    <3> DEFINE day == turn[t].day
    <3>1. sent' = [sent EXCEPT ![day] = sent[day] + 1] /\ used' = used /\ turn'[t].day = day
      BY <2>6, SendRests DEF Send
    <3>2. \A u \in Turns : TurnRest(turn[u]) \in Nat /\ TurnRest(turn'[u]) \in Nat
      BY <1>0, RestTyped
    <3>3. TurnRest(turn'[t]) < TurnRest(turn[t])
      BY <2>6, SendRests
    <3> SUFFICES ASSUME NEW d \in Days
                 PROVE  sent'[d] + Total(DayRests(turn', d), PerUnit) <= PerUnit * used[d]
      BY <3>1 DEF PaidInv, DayRests, Total, Under, PerUnit, PerCall
    <3>4. \A u \in Turns : DayRests(turn', d)[u] <= DayRests(turn, d)[u]
      BY <2>0, <3>1, <3>2, <3>3 DEF DayRests
    <3>5. sent[d] + Total(DayRests(turn, d), PerUnit) <= PerUnit * used[d]
      BY DEF PaidInv
    <3>6. used[d] \in Nat /\ sent[d] \in Nat
      BY DEF TypeOK
    <3>7. PerUnit * used[d] \in Nat
      BY <1>0, <3>6, DayRestsTyped, Products
    <3>8. CASE d = day
      <4>1. DayRests(turn', d)[t] < DayRests(turn, d)[t]
        BY <3>1, <3>3, <3>8 DEF DayRests
      <4>2. Total(DayRests(turn', d), PerUnit) + 1 <= Total(DayRests(turn, d), PerUnit)
        BY <1>0, <3>4, <4>1, DayRestsTyped, TotalFalls
      <4>3. sent'[d] = sent[d] + 1
        BY <3>1, <3>8 DEF TypeOK
      <4> QED
        BY <1>0, <3>5, <3>6, <3>7, <4>2, <4>3, DayRestsTyped
    <3>9. CASE d # day
      <4>1. Total(DayRests(turn', d), PerUnit) <= Total(DayRests(turn, d), PerUnit)
        BY <1>0, <3>4, DayRestsTyped, TotalLess
      <4>2. sent'[d] = sent[d]
        BY <3>1, <3>9 DEF TypeOK
      <4> QED
        BY <1>0, <3>5, <3>6, <3>7, <4>1, <4>2, DayRestsTyped
    <3> QED
      BY <3>8, <3>9
  <2> QED
    BY <1>4, <2>2, <2>3, <2>4, <2>5, <2>6 DEF Step
<1> QED
  BY <1>2, <1>3, <1>4 DEF Next

-----------------------------------------------------------------------------
(* The open breaker *)

CallRests(s) == [u \in Turns |-> CallRest(s[u])]
Others == Cardinality(Turns) - 1
QuietInv ==
  IF Open THEN late + Total(CallRests(turn), PerCall) <= PerCall * Others ELSE late = 0

LEMMA OthersTyped ==
  Others \in Nat /\ PerCall \in Nat /\ PerCall * Others \in Nat
<1>1. Cardinality(Turns) \in Nat /\ Cardinality(Turns) # 0
  BY TurnsAssumption, FS_CardinalityType, FS_EmptySet
<1>2. Others \in Nat
  BY <1>1 DEF Others
<1>3. PerCall \in Nat
  BY BoundsAssumption DEF PerCall
<1> QED
  BY <1>2, <1>3, Products

LEMMA CallRestsTyped ==
  ASSUME NEW s \in [Turns -> Turn]
  PROVE  /\ CallRests(s) \in [Turns -> Nat]
         /\ \A u \in Turns : CallRests(s)[u] <= PerCall
         /\ Total(CallRests(s), PerCall) \in Nat
<1>1. \A u \in Turns : CallRest(s[u]) \in Nat /\ CallRest(s[u]) <= PerCall
  BY RestTyped
<1> QED
  BY <1>1, OthersTyped, UnderFinite DEF CallRests

LEMMA QuietStep == TypeOK /\ TypeOK' /\ QuietInv /\ [Next]_vars => QuietInv'
<1> SUFFICES ASSUME TypeOK, TypeOK', QuietInv, [Next]_vars PROVE QuietInv'
  OBVIOUS
<1> DEFINE rest == Total(CallRests(turn), PerCall)
           more == Total(CallRests(turn'), PerCall)
           bound == PerCall * Others
<1>0. turn \in [Turns -> Turn] /\ turn' \in [Turns -> Turn] /\ late \in Nat /\ now \in Nat
  BY DEF TypeOK
<1>1. rest \in Nat /\ more \in Nat /\ bound \in Nat
  BY <1>0, CallRestsTyped, OthersTyped
<1>2. /\ now' < openUntil' /\ late' + more <= bound => QuietInv'
      /\ ~ (now' < openUntil') /\ late' = 0 => QuietInv'
  BY DEF QuietInv, Open, CallRests, Total, Under, PerCall, Others
<1>3. /\ now < openUntil => late + rest <= bound
      /\ ~ (now < openUntil) => late = 0
  BY DEF QuietInv, Open
<1>4. ASSUME \A u \in Turns : CallRest(turn'[u]) <= CallRest(turn[u]) PROVE more <= rest
  <2>1. \A u \in Turns : CallRests(turn')[u] <= CallRests(turn)[u]
    BY <1>4 DEF CallRests
  <2> QED
    BY <1>0, <2>1, CallRestsTyped, OthersTyped, TotalLess
<1> HIDE DEF rest, more, bound
<1>5. CASE /\ UNCHANGED <<now, openUntil, late>>
           /\ \A u \in Turns : CallRest(turn'[u]) <= CallRest(turn[u])
  BY <1>0, <1>1, <1>2, <1>3, <1>4, <1>5
<1>6. \A u \in Turns : CallRest(turn[u]) \in Nat
  BY <1>0, RestTyped
<1>7. CASE SaveBudget \/ Age \/ UNCHANGED vars
  BY <1>5, <1>6, <1>7 DEF SaveBudget, Age, vars, memory, history
<1>8. CASE Tick
  <2>1. more <= rest /\ now' = now + 1 /\ openUntil' = openUntil /\ openUntil \in Nat
    BY <1>4, <1>6, <1>8 DEF Tick, memory, TypeOK
  <2>2. late' = IF now' < openUntil THEN late ELSE 0
    BY <1>8 DEF Tick
  <2> QED
    BY <1>0, <1>1, <1>2, <1>3, <2>1, <2>2
<1>9. CASE Restart
  <2>1. openUntil' = 0 /\ now' = now /\ late' = 0
    BY <1>9 DEF Restart
  <2> QED
    BY <1>0, <1>2, <2>1
<1>10. ASSUME NEW t \in Turns, Step(t) PROVE QuietInv'
  <2>0. \A u \in Turns \ {t} : turn'[u] = turn[u]
    BY <1>10, OthersStay
  <2>1. CASE UNCHANGED <<now, openUntil, late>> /\ CallRest(turn'[t]) <= CallRest(turn[t])
    <3>1. \A u \in Turns : CallRest(turn'[u]) <= CallRest(turn[u])
      BY <1>6, <2>0, <2>1
    <3> QED
      BY <1>5, <2>1, <3>1
  <2>2. CASE ReadBudget(t) \/ Choose(t) \/ ListArrives(t) \/ Repeat(t) \/ NotFound(t)
               \/ Fails(t) \/ Succeeds(t)
    <3>1. UNCHANGED <<now, openUntil, late>>
      BY <2>2 DEF ReadBudget, Choose, ListArrives, Repeat, NotFound, Fails, Succeeds, memory, history
    <3> QED
      BY <2>1, <2>2, <3>1, StepRests DEF NoMore
  <2>3. CASE TakeUnit(t)
    <3>1. UNCHANGED <<now, openUntil, late>>
      BY <2>3 DEF TakeUnit, memory, history
    <3>2. turn'[t].at \in {"call", "done"}
      BY <1>0, <2>3 DEF TakeUnit, Becomes, Ends, Turn, Idle
    <3>3. CallRest(turn'[t]) = 0
      BY <3>2 DEF CallRest
    <3> QED
      BY <1>6, <2>1, <3>1, <3>3
  <2>4. CASE Begin(t)
    <3>1. UNCHANGED <<now, openUntil, late>>
      BY <2>4 DEF Begin, memory, history
    <3>2. CASE Open
      BY <2>1, <2>4, <3>1, <3>2, EndsRests DEF Begin, NoMore
    <3>3. CASE ~ Open
      BY <1>2, <1>3, <3>1, <3>3 DEF Open
    <3> QED
      BY <3>2, <3>3
  <2>5. CASE Send(t)
    <3>1. /\ now' = now /\ openUntil' = openUntil
          /\ late' = IF now < openUntil THEN late + 1 ELSE late
      BY <2>5 DEF Send, memory, Open
    <3>2. CallRest(turn'[t]) < CallRest(turn[t])
      BY <2>5, SendRests
    <3>3. more + 1 <= rest
      <4>1. \A u \in Turns : CallRest(turn'[u]) \in Nat
        BY <1>0, RestTyped
      <4>2. \A u \in Turns : CallRests(turn')[u] <= CallRests(turn)[u]
        BY <1>6, <2>0, <3>2, <4>1 DEF CallRests
      <4>3. CallRests(turn')[t] < CallRests(turn)[t]
        BY <3>2 DEF CallRests
      <4> QED
        BY <1>0, <4>2, <4>3, CallRestsTyped, OthersTyped, TotalFalls DEF rest, more
    <3> QED
      BY <1>0, <1>1, <1>2, <1>3, <3>1, <3>3
  <2>6. CASE Trips(t)
    <3>1. late' = 0 /\ CallRest(turn'[t]) = 0
      BY <2>6, EndsRests DEF Trips
    <3>2. CallRests(turn')[t] = 0
      BY <3>1 DEF CallRests
    <3>3. more <= bound
      BY <1>0, <3>2, CallRestsTyped, OthersTyped, TotalOfOthers DEF more, bound, Others
    <3> QED
      BY <1>1, <1>2, <3>1, <3>3
  <2> QED
    BY <1>10, <2>2, <2>3, <2>4, <2>5, <2>6 DEF Step
<1> QED
  BY <1>7, <1>8, <1>9, <1>10 DEF Next

-----------------------------------------------------------------------------
(* Retired models *)

ModelRests(s, m) == [u \in Turns |-> ModelRest(s[u], m)]
Kept(m) ==
  IF m \in blacklist THEN wasted[m] + Total(ModelRests(turn, m), 2) <= 2 * Others
  ELSE wasted[m] = 0
RetiredInv == \A m \in Models \ {Fallback} : Kept(m)

LEMMA ModelRestsTyped ==
  ASSUME NEW s \in [Turns -> Turn], NEW m
  PROVE  /\ ModelRests(s, m) \in [Turns -> Nat]
         /\ \A u \in Turns : ModelRests(s, m)[u] <= 2
         /\ Total(ModelRests(s, m), 2) \in Nat
<1>1. \A u \in Turns : ModelRest(s[u], m) \in Nat /\ ModelRest(s[u], m) <= 2
  BY RestTyped
<1> QED
  BY <1>1, UnderFinite DEF ModelRests

\* No step but the choice of a model adds to what a model may get, and no retired model is
\* chosen, but for the one built in.
LEMMA ChoiceRests ==
  ASSUME TypeOK, NEW t \in Turns, NEW m \in Models \ {Fallback}, m \in blacklist,
         ReadBudget(t) \/ TakeUnit(t) \/ Begin(t) \/ Choose(t) \/ ListArrives(t)
           \/ Repeat(t) \/ Trips(t) \/ Fails(t) \/ Succeeds(t)
  PROVE  ModelRest(turn'[t], m) <= ModelRest(turn[t], m)
<1> DEFINE old == turn[t]
<1>0. /\ old \in Turn /\ turn \in [Turns -> Turn] /\ old.retry \in {0, 1}
      /\ ModelRest(old, m) \in Nat
  BY RestTyped DEF TypeOK, Turn, Retries
<1>1. CASE turn'[t].at \in {"idle", "unit", "call", "choose", "list", "done"}
  <2>1. ModelRest(turn'[t], m) = 0
    BY <1>1 DEF ModelRest
  <2> QED
    BY <1>0, <2>1
<1>2. CASE ReadBudget(t) \/ TakeUnit(t) \/ Begin(t) \/ Trips(t) \/ Fails(t) \/ Succeeds(t)
  <2>1. turn'[t].at \in {"unit", "call", "choose", "done"}
    BY <1>0, <1>2 DEF ReadBudget, TakeUnit, Begin, Trips, Fails, Succeeds, Becomes, Ends, Idle, Turn
  <2> QED
    BY <1>1, <2>1
<1>3. ASSUME NEW n, n # m, Tries(t, n) PROVE ModelRest(turn'[t], m) <= ModelRest(old, m)
  <2>1. turn'[t].model = n
    BY <1>0, <1>3 DEF Tries, Becomes, Turn
  <2>2. ModelRest(turn'[t], m) = 0
    BY <1>3, <2>1 DEF ModelRest
  <2> QED
    BY <1>0, <2>2
<1>4. CASE Choose(t)
  <2>1. CASE Chosen # NoModel
    BY <1>3, <1>4, <2>1, ChosenTyped DEF Choose
  <2>2. CASE Chosen = NoModel
    <3>1. turn'[t].at = "list"
      BY <1>0, <1>4, <2>2 DEF Choose, Becomes, Turn
    <3> QED
      BY <1>1, <3>1
  <2> QED
    BY <2>1, <2>2
<1>5. CASE ListArrives(t)
  BY <1>3, <1>5, SelectedTyped DEF ListArrives
<1>6. CASE Repeat(t)
  <2>1. /\ turn'[t].at = "send" /\ turn'[t].retry = 1 /\ turn'[t].model = old.model
        /\ old.at = "wait" /\ old.retry = 0
    BY <1>0, <1>6 DEF Repeat, At, Becomes, Turn
  <2> QED
    BY <1>0, <2>1 DEF ModelRest
<1> QED
  BY <1>2, <1>4, <1>5, <1>6

LEMMA RetiredStep == TypeOK /\ TypeOK' /\ RetiredInv /\ [Next]_vars => RetiredInv'
<1> SUFFICES ASSUME TypeOK, TypeOK', RetiredInv, [Next]_vars, NEW m \in Models \ {Fallback}
             PROVE  Kept(m)'
  BY DEF RetiredInv
<1> DEFINE rest == Total(ModelRests(turn, m), 2)
           more == Total(ModelRests(turn', m), 2)
           bound == 2 * Others
<1>0. turn \in [Turns -> Turn] /\ turn' \in [Turns -> Turn] /\ wasted[m] \in Nat
  BY DEF TypeOK
<1>1. rest \in Nat /\ more \in Nat /\ bound \in Nat
  BY <1>0, ModelRestsTyped, OthersTyped
<1>2. /\ m \in blacklist' /\ wasted'[m] + more <= bound => Kept(m)'
      /\ m \notin blacklist' /\ wasted'[m] = 0 => Kept(m)'
  BY DEF Kept, ModelRests, Total, Under, Others
<1>3. /\ m \in blacklist => wasted[m] + rest <= bound
      /\ m \notin blacklist => wasted[m] = 0
  BY DEF RetiredInv, Kept
<1>4. ASSUME \A u \in Turns : ModelRest(turn'[u], m) <= ModelRest(turn[u], m) PROVE more <= rest
  <2>1. \A u \in Turns : ModelRests(turn', m)[u] <= ModelRests(turn, m)[u]
    BY <1>4 DEF ModelRests
  <2> QED
    BY <1>0, <2>1, ModelRestsTyped, TotalLess
<1> HIDE DEF rest, more, bound
<1>5. \A u \in Turns : ModelRest(turn[u], m) \in Nat
  BY <1>0, RestTyped
<1>6. CASE SaveBudget \/ Tick \/ Age \/ UNCHANGED vars
  <2>1. UNCHANGED <<turn, blacklist, wasted>>
    BY <1>6 DEF SaveBudget, Tick, Age, vars, memory, history
  <2>2. more <= rest
    BY <1>4, <1>5, <2>1
  <2> QED
    BY <1>0, <1>1, <1>2, <1>3, <2>1, <2>2
<1>7. CASE Restart
  <2>1. m \notin blacklist' /\ wasted'[m] = 0
    BY <1>7 DEF Restart
  <2> QED
    BY <1>2, <2>1
<1>8. ASSUME NEW t \in Turns, Step(t) PROVE Kept(m)'
  <2>0. \A u \in Turns \ {t} : turn'[u] = turn[u]
    BY <1>8, OthersStay
  <2>1. CASE ReadBudget(t) \/ TakeUnit(t) \/ Begin(t) \/ Choose(t) \/ ListArrives(t)
               \/ Repeat(t) \/ Trips(t) \/ Fails(t) \/ Succeeds(t)
    <3>1. UNCHANGED <<blacklist, wasted>>
      BY <2>1 DEF ReadBudget, TakeUnit, Begin, Choose, ListArrives, Repeat, Trips, Fails,
                  Succeeds, memory, history
    <3>2. CASE m \notin blacklist
      BY <1>2, <1>3, <3>1, <3>2
    <3>3. CASE m \in blacklist
      <4>1. ModelRest(turn'[t], m) <= ModelRest(turn[t], m)
        BY <2>1, <3>3, ChoiceRests
      <4>2. more <= rest
        BY <1>4, <1>5, <2>0, <4>1
      <4> QED
        BY <1>0, <1>1, <1>2, <1>3, <3>1, <3>3, <4>2
    <3> QED
      BY <3>2, <3>3
  <2>2. CASE Send(t)
    <3>1. /\ blacklist' = blacklist
          /\ wasted' = [wasted EXCEPT ![turn[t].model] =
                          IF turn[t].model \in blacklist THEN wasted[turn[t].model] + 1
                          ELSE wasted[turn[t].model]]
      BY <2>2 DEF Send, memory
    <3>2. \A u \in Turns : ModelRest(turn'[u], m) <= ModelRest(turn[u], m)
      BY <1>5, <2>0, <2>2, SendRests
    <3>3. CASE m \notin blacklist
      BY <1>0, <1>2, <1>3, <3>1, <3>3 DEF TypeOK
    <3>4. CASE m \in blacklist /\ m # turn[t].model
      <4>1. wasted'[m] = wasted[m]
        BY <3>1, <3>4 DEF TypeOK
      <4> QED
        BY <1>0, <1>1, <1>2, <1>3, <1>4, <3>1, <3>2, <3>4, <4>1
    <3>5. CASE m \in blacklist /\ m = turn[t].model
      <4>1. wasted'[m] = wasted[m] + 1
        BY <3>1, <3>5 DEF TypeOK
      <4>2. \A u \in Turns : ModelRests(turn', m)[u] <= ModelRests(turn, m)[u]
        BY <3>2 DEF ModelRests
      <4>3. ModelRests(turn', m)[t] < ModelRests(turn, m)[t]
        BY <2>2, <3>5, SendRests DEF ModelRests
      <4>4. more + 1 <= rest
        BY <1>0, <4>2, <4>3, ModelRestsTyped, TotalFalls DEF rest, more
      <4> QED
        BY <1>0, <1>1, <1>2, <1>3, <3>1, <3>5, <4>1, <4>4
    <3> QED
      BY <3>3, <3>4, <3>5
  <2>3. CASE NotFound(t)
    <3>1. blacklist' = blacklist \cup {turn[t].model} /\ wasted' = wasted
      BY <2>3 DEF NotFound, history
    <3>2. turn'[t].at \in {"choose", "done"}
      <4>1. CASE MoreModels(t)
        <5>1. turn'[t] = [turn[t] EXCEPT !.at = "choose", !.attempt = turn[t].attempt + 1]
          BY <1>0, <2>3, <4>1 DEF NotFound, Becomes
        <5> QED
          BY <1>0, <5>1 DEF Turn
      <4>2. CASE ~ MoreModels(t)
        BY <2>3, <4>2, EndsRests DEF NotFound
      <4> QED
        BY <4>1, <4>2
    <3>3. ModelRest(turn'[t], m) = 0
      BY <3>2 DEF ModelRest
    <3>4. CASE m \in blacklist
      <4>1. more <= rest
        BY <1>4, <1>5, <2>0, <3>3
      <4> QED
        BY <1>0, <1>1, <1>2, <1>3, <3>1, <3>4, <4>1
    <3>5. CASE m \notin blacklist
      <4>1. ModelRests(turn', m)[t] = 0
        BY <3>3 DEF ModelRests
      <4>2. more <= bound
        BY <1>0, <4>1, ModelRestsTyped, TotalOfOthers DEF more, bound, Others
      <4> QED
        BY <1>1, <1>2, <1>3, <3>1, <3>5, <4>2
    <3> QED
      BY <3>4, <3>5
  <2> QED
    BY <1>8, <2>1, <2>2, <2>3 DEF Step
<1> QED
  BY <1>6, <1>7, <1>8 DEF Next

-----------------------------------------------------------------------------
(* The budget *)

BudgetInv ==
  /\ BudgetHolds
  /\ \A t \in Turns : turn[t].budget \in budgets \cup {0}

LEMMA BudgetStep == TypeOK /\ TypeOK' /\ BudgetInv /\ [Next]_vars => BudgetInv'
<1> SUFFICES ASSUME TypeOK, TypeOK', BudgetInv, [Next]_vars PROVE BudgetInv'
  OBVIOUS
<1> USE DEF BudgetInv, BudgetHolds
<1>0. /\ budgets \subseteq Nat /\ turn \in [Turns -> Turn]
      /\ \A d \in Days : used[d] \in Nat
      /\ \A t \in Turns : turn[t].budget \in Nat
  BY BoundsAssumption DEF TypeOK, Turn
<1>1. CASE SaveBudget
  BY <1>1 DEF SaveBudget
<1>2. CASE Tick \/ Age \/ UNCHANGED vars
  BY <1>2 DEF Tick, Age, vars, history
<1>3. CASE Restart
  <2>1. \A t \in Turns : turn'[t].budget = 0
    BY <1>3 DEF Restart, Idle
  <2> QED
    BY <1>0, <1>3, <2>1 DEF Restart
<1>4. ASSUME NEW t \in Turns, Step(t) PROVE BudgetInv'
  <2>0. \A u \in Turns \ {t} : turn'[u] = turn[u]
    BY <1>4, OthersStay
  <2>1. UNCHANGED budgets
    BY <1>4 DEF Step, ReadBudget, TakeUnit, Begin, Choose, ListArrives, Send, Repeat, NotFound,
                Trips, Fails, Succeeds, history
  <2>2. turn'[t].budget \in budgets \cup {turn[t].budget, 0}
    <3>1. turn[t] \in Turn
      BY DEF TypeOK
    <3>0. CASE Ends(t)
      BY <1>0, <3>0 DEF Ends, Becomes, Idle
    <3>2. CASE ReadBudget(t)
      <4>1. PICK b \in budgets :
              turn'[t] = [Idle EXCEPT !.at = "unit", !.day = DayOf(now), !.budget = b]
        BY <1>0, <3>2 DEF ReadBudget, Becomes
      <4> QED
        BY <4>1 DEF Idle
    <3>7. CASE Trips(t) \/ Fails(t) \/ Succeeds(t)
      BY <1>0, <3>0, <3>7 DEF Trips, Fails, Succeeds, Becomes, Idle
    <3>3. CASE Begin(t) \/ TakeUnit(t)
      <4>1. \/ Ends(t)
            \/ turn'[t] = [turn[t] EXCEPT !.at = "choose", !.attempt = 1]
            \/ turn'[t] = [turn[t] EXCEPT !.at = "call"]
        BY <1>0, <3>3 DEF Begin, TakeUnit, Becomes
      <4> QED
        BY <3>0, <3>1, <4>1 DEF Turn
    <3>4. CASE Choose(t) \/ ListArrives(t)
      <4>1. ASSUME NEW m, Tries(t, m) PROVE turn'[t].budget = turn[t].budget
        BY <1>0, <3>1, <4>1 DEF Tries, Becomes, Turn
      <4>2. CASE turn' = [turn EXCEPT ![t] = [turn[t] EXCEPT !.at = "list"]]
        BY <1>0, <3>1, <4>2 DEF Turn
      <4> QED
        BY <3>4, <4>1, <4>2 DEF Choose, ListArrives, Becomes
    <3>5. CASE Send(t) \/ Repeat(t)
      <4>1. \/ turn'[t] = [turn[t] EXCEPT !.at = "wait"]
            \/ turn'[t] = [turn[t] EXCEPT !.at = "send", !.retry = 1]
        BY <1>0, <3>5 DEF Send, Repeat, Becomes
      <4> QED
        BY <3>1, <4>1 DEF Turn
    <3>6. CASE NotFound(t)
      <4>1. CASE MoreModels(t)
        <5>1. turn'[t] = [turn[t] EXCEPT !.at = "choose", !.attempt = turn[t].attempt + 1]
          BY <1>0, <3>6, <4>1 DEF NotFound, Becomes
        <5> QED
          BY <3>1, <5>1 DEF Turn
      <4>2. CASE ~ MoreModels(t)
        BY <1>0, <3>6, <4>2 DEF NotFound, Ends, Becomes, Idle
      <4> QED
        BY <4>1, <4>2
    <3> QED
      BY <1>4, <3>2, <3>3, <3>4, <3>5, <3>6, <3>7 DEF Step
  <2>3. \A u \in Turns : turn'[u].budget \in budgets' \cup {0}
    BY <1>0, <2>0, <2>1, <2>2
  <2>4. \A d \in Days : \E b \in budgets' : used'[d] <= b
    <3>1. CASE used' = used
      BY <2>1, <3>1
    <3>2. CASE TakeUnit(t) /\ Left(t)
      <4>1. used' = [used EXCEPT ![turn[t].day] = used[turn[t].day] + 1]
        BY <3>2 DEF TakeUnit
      <4>2. turn[t].day \in Days /\ turn[t].budget \in Nat /\ used \in [Days -> Nat]
        BY DEF TypeOK, Turn
      <4>3. turn[t].budget \in budgets /\ used[turn[t].day] + 1 <= turn[t].budget
        BY <1>0, <3>2, <4>2 DEF Left
      <4>4. \A d \in Days : used'[d] = (IF d = turn[t].day THEN used[turn[t].day] + 1 ELSE used[d])
        BY <4>1, <4>2
      <4> QED
        BY <2>1, <4>3, <4>4
    <3> QED
      BY <1>4, <3>1, <3>2 DEF Step, ReadBudget, TakeUnit, Begin, Choose, ListArrives, Send, Repeat,
                              NotFound, Trips, Fails, Succeeds
  <2> QED
    BY <2>3, <2>4
<1> QED
  BY <1>1, <1>2, <1>3, <1>4 DEF Next

-----------------------------------------------------------------------------
(* The theorems *)

GateInv == TypeOK /\ BudgetInv /\ PaidInv /\ QuietInv /\ RetiredInv

LEMMA GateInit == Init => GateInv
<1> SUFFICES ASSUME Init PROVE GateInv
  OBVIOUS
<1>1. TypeOK
  BY TypeInit
<1>2. BudgetInv
  <2>1. \A t \in Turns : turn[t].budget = 0
    BY DEF Init, Idle
  <2>2. \A d \in Days : used[d] = 0
    BY DEF Init
  <2> QED
    BY <1>1, <2>1, <2>2, BoundsAssumption DEF Init, BudgetInv, BudgetHolds, TypeOK
<1>3. turn \in [Turns -> Turn] /\ \A t \in Turns : turn[t].at = "idle"
  BY <1>1 DEF Init, TypeOK, Idle
<1>4. PaidInv
  <2> SUFFICES ASSUME NEW d \in Days
               PROVE  sent[d] + Total(DayRests(turn, d), PerUnit) <= PerUnit * used[d]
    BY DEF PaidInv
  <2>1. sent[d] = 0 /\ used[d] = 0
    BY DEF Init
  <2>2. \A t \in Turns : DayRests(turn, d)[t] = 0
    BY <1>3, DoneRests DEF DayRests
  <2>3. Under(DayRests(turn, d), PerUnit) = {}
    BY <2>2 DEF Under
  <2>4. Total(DayRests(turn, d), PerUnit) = 0
    BY <2>3, FS_EmptySet DEF Total
  <2> QED
    BY <1>3, <2>1, <2>4, DayRestsTyped
<1>5. QuietInv
  BY <1>1 DEF Init, QuietInv, Open, TypeOK
<1>6. RetiredInv
  BY DEF Init, RetiredInv, Kept
<1> QED
  BY <1>1, <1>2, <1>4, <1>5, <1>6 DEF GateInv

\* Every reachable state is typed and keeps the account of requests sent and still to be sent.
THEOREM GateCorrect == Spec => []GateInv
<1>1. GateInv /\ [Next]_vars => GateInv'
  BY TypeStep, BudgetStep, PaidStep, QuietStep, RetiredStep DEF GateInv
<1> QED
  BY GateInit, <1>1, PTL DEF Spec

\* The type invariant (all of generateJson, getModel and tryConsume keep it).
THEOREM GateTyped == Spec => []TypeOK
BY GateCorrect, PTL DEF GateInv

\* No day is charged more than the greatest budget configured so far (tryConsume).
THEOREM BudgetIsKept == Spec => []BudgetHolds
<1>1. GateInv => BudgetHolds
  BY DEF GateInv, BudgetInv
<1> QED
  BY GateCorrect, <1>1, PTL

\* The units of a day bound the requests sent on them (tryConsume, executePipeline, generateJson).
THEOREM UnitsBoundRequests == Spec => []RequestsArePaid
<1>1. GateInv => RequestsArePaid
  <2> SUFFICES ASSUME GateInv, NEW d \in Days PROVE sent[d] <= 2 * PerCall * used[d]
    BY DEF RequestsArePaid
  <2>1. sent[d] + Total(DayRests(turn, d), PerUnit) <= PerUnit * used[d]
    BY DEF GateInv, PaidInv
  <2>2. sent[d] \in Nat /\ used[d] \in Nat /\ turn \in [Turns -> Turn]
    BY DEF GateInv, TypeOK
  <2>3. Total(DayRests(turn, d), PerUnit) \in Nat /\ PerUnit * used[d] \in Nat
    BY <2>2, DayRestsTyped, Products
  <2>4. sent[d] <= PerUnit * used[d]
    BY <2>1, <2>2, <2>3
  <2> QED
    BY <2>4 DEF PerUnit
<1> QED
  BY GateCorrect, <1>1, PTL

\* Both: a day pays for what it sends, and is not charged too much (tryConsume, executePipeline).
THEOREM DaysArePaid == Spec => []DayIsPaid
BY BudgetIsKept, UnitsBoundRequests, PTL DEF DayIsPaid

\* While the breaker is open, only calls that were under way reach the provider (generateJson).
THEOREM BreakerQuiets == Spec => []QuietIsKept
<1>1. GateInv => QuietIsKept
  <2> SUFFICES ASSUME GateInv PROVE late <= PerCall * Others
    BY DEF QuietIsKept, Others
  <2>1. late \in Nat /\ turn \in [Turns -> Turn]
    BY DEF GateInv, TypeOK
  <2>2. Total(CallRests(turn), PerCall) \in Nat
    BY <2>1, CallRestsTyped
  <2>3. /\ Open => late + Total(CallRests(turn), PerCall) <= PerCall * Others
        /\ ~ Open => late = 0
    BY DEF GateInv, QuietInv
  <2> QED
    BY <2>1, <2>2, <2>3, OthersTyped
<1> QED
  BY GateCorrect, <1>1, PTL

\* A retired model gets only the requests of turns that had chosen it (getModel, generateJson).
THEOREM RetiredModelsLeft == Spec => []RetiredIsLeft
<1>1. GateInv => RetiredIsLeft
  <2> SUFFICES ASSUME GateInv, NEW m \in Models \ {Fallback} PROVE wasted[m] <= 2 * Others
    BY DEF RetiredIsLeft, Others
  <2>1. wasted[m] \in Nat /\ turn \in [Turns -> Turn]
    BY DEF GateInv, TypeOK
  <2>2. Total(ModelRests(turn, m), 2) \in Nat
    BY <2>1, ModelRestsTyped
  <2>3. /\ m \in blacklist => wasted[m] + Total(ModelRests(turn, m), 2) <= 2 * Others
        /\ m \notin blacklist => wasted[m] = 0
    BY DEF GateInv, RetiredInv, Kept
  <2> QED
    BY <2>1, <2>2, <2>3, OthersTyped
<1> QED
  BY GateCorrect, <1>1, PTL
=============================================================================
