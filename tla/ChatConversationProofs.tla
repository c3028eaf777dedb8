----------------------- MODULE ChatConversationProofs -----------------------
(***************************************************************************)
(* Theorems about ChatConversation, for any sets of turns, actions, brief  *)
(* edits, requests and staff, in every mode of the bot.                    *)
(***************************************************************************)
EXTENDS ChatConversation, TLAPS

\* The saved revisions have a greatest one, so the ORDER BY ... DESC read is defined.
HasLatest == \E r \in Revisions \cup {0} : \A q \in Revisions : q <= r

TypeInv == TypeOK /\ HasLatest

-----------------------------------------------------------------------------
(* The brief table *)

\* findOne ... ORDER BY revision DESC returns the greatest saved revision, or 0.
LEMMA LatestIsGreatest ==
  ASSUME TypeInv
  PROVE  /\ LatestRev \in Nat
         /\ LatestRev \in Revisions \cup {0}
         /\ \A q \in Revisions : q <= LatestRev
<1>1. Revisions \subseteq Nat
  BY DEF TypeInv, TypeOK, Brief, Revisions
<1>2. \E r \in Revisions \cup {0} : \A q \in Revisions : q <= r
  BY DEF TypeInv, HasLatest
<1>3. /\ LatestRev \in Revisions \cup {0}
      /\ \A q \in Revisions : q <= LatestRev
  BY <1>2 DEF LatestRev
<1>. QED BY <1>1, <1>3

LEMMA LatestDataType == ASSUME TypeInv PROVE LatestData \in SUBSET Edits
BY DEF TypeInv, TypeOK, Brief, LatestData

LEMMA NextDraftType ==
  ASSUME TypeInv, NEW edit \in Edits, NEW changes
  PROVE  NextDraft(edit, changes) \in Draft
<1>1. LatestRev + 1 \in Nat
  BY LatestIsGreatest
<1>2. LatestData \in SUBSET Edits /\ LatestData \cup {edit} \in SUBSET Edits
  BY LatestDataType
<1>. QED BY <1>1, <1>2 DEF NextDraft, Drafted, Draft, Targets, NoTarget, NoRevision

LEMMA RetargetType ==
  ASSUME NEW d \in Draft, NEW target \in Targets
  PROVE  [d EXCEPT !.target = target] \in Draft
BY DEF Draft

LEMMA ReflowType ==
  ASSUME NEW d \in Draft, NEW flow \in {"keep", "run", "end"}
  PROVE  [d EXCEPT !.flow = flow] \in Draft
BY DEF Draft

LEMMA RowOfType ==
  ASSUME NEW d \in Draft
  PROVE  RowOf(d) \subseteq Brief
BY DEF RowOf, Draft, Brief, NoRevision

\* Adding a row with any revision keeps a greatest revision.
LEMMA AddRowKeepsLatest ==
  ASSUME TypeInv, NEW S, S \subseteq Brief, \A b, c \in S : b = c, briefs' = briefs \cup S
  PROVE  HasLatest'
<1>1. CASE S = {}
  <2>1. briefs' = briefs BY <1>1
  <2>. QED BY <2>1 DEF TypeInv, HasLatest, Revisions
<1>2. CASE S # {}
  <2>1. PICK b \in S : S = {b} BY <1>2
  <2>2. b.rev \in Nat BY DEF Brief
  <2>3. Revisions' = Revisions \cup {b.rev} BY <2>1 DEF Revisions
  <2>4. PICK r \in Revisions \cup {0} : \A q \in Revisions : q <= r
    BY DEF TypeInv, HasLatest
  <2>5. Revisions \subseteq Nat BY DEF TypeInv, TypeOK, Brief, Revisions
  <2>6. CASE b.rev <= r
    BY <2>2, <2>3, <2>4, <2>5, <2>6 DEF HasLatest
  <2>7. CASE ~(b.rev <= r)
    <3>1. \A q \in Revisions' : q <= b.rev BY <2>2, <2>3, <2>4, <2>5, <2>7
    <3>2. b.rev \in Revisions' \cup {0} BY <2>3
    <3>. QED BY <3>1, <3>2 DEF HasLatest
  <2>. QED BY <2>6, <2>7
<1>. QED BY <1>1, <1>2

LEMMA SameBriefsKeepLatest == ASSUME TypeInv, briefs' = briefs PROVE HasLatest'
BY DEF TypeInv, HasLatest, Revisions

-----------------------------------------------------------------------------
(* Initial states *)

LEMMA InitType == Init => TypeInv
<1>. SUFFICES ASSUME Init PROVE TypeInv OBVIOUS
<1>1. NoDraft \in Draft
  BY DEF NoDraft, Drafted, Draft, Targets, NoTarget, NoRevision
<1>2. NewConversation \in Conversation
  BY DEF NewConversation, Conversation, ConvStates
<1>3. NoFlow \in Flow
  BY DEF NoFlow, Flow
<1>4. TypeOK
  BY <1>1, <1>2, <1>3 DEF Init, TypeOK, TurnPcs, PipePcs, NoRevision
<1>5. HasLatest
  BY DEF Init, HasLatest, Revisions
<1>. QED BY <1>4, <1>5 DEF TypeInv

-----------------------------------------------------------------------------
(* A reply: the transaction shared by every branch of a turn *)

LEMMA StoreReplyType ==
  ASSUME TypeInv, NEW t \in Turns, NEW d \in Draft,
         NEW route \in {"flow", "direct", "pipeline", "fallback"},
         StoreReply(t, route, d)
  PROVE  /\ conv' \in Conversation
         /\ briefs' \subseteq Brief
         /\ messages' \subseteq Message
         /\ outbox' \subseteq Event
         /\ flowState' \in Flow
         /\ requests' \subseteq Request
         /\ HasLatest'
<1>1. conv' \in Conversation
  BY DEF TypeInv, TypeOK, StoreReply, SaveReply, Conversation, Draft, Targets, ConvStates, NoTarget
<1>2. briefs' \subseteq Brief
  BY RowOfType DEF TypeInv, TypeOK, StoreReply, SaveReply
<1>3. messages' \subseteq Message
  BY DEF TypeInv, TypeOK, StoreReply, SaveReply, Message, AiMsg, Callers
<1>4. outbox' \subseteq Event
  BY DEF TypeInv, TypeOK, StoreReply, SaveReply, Event, Rows, Callers
<1>5. flowState' \in Flow
  BY DEF TypeInv, TypeOK, StoreReply, SaveReply, NextFlow, NoFlow, Flow
<1>6. requests' \subseteq Request
  BY DEF TypeInv, TypeOK, StoreReply, SaveReply
<1>7. HasLatest'
  <2>1. RowOf(d) \subseteq Brief BY RowOfType
  <2>2. \A b, c \in RowOf(d) : b = c BY DEF RowOf
  <2>3. briefs' = briefs \cup RowOf(d) BY DEF StoreReply, SaveReply
  <2>. QED BY <2>1, <2>2, <2>3, AddRowKeepsLatest
<1>. QED BY <1>1, <1>2, <1>3, <1>4, <1>5, <1>6, <1>7

-----------------------------------------------------------------------------
(* Steps of a customer turn *)

LEMMA AcceptMessageType ==
  ASSUME TypeInv, NEW t \in Turns,
         PostMessage(t) \/ RejectDuplicate(t) \/ StoreForStaff(t) \/ StoreMessage(t)
  PROVE  TypeInv'
<1>1. HasLatest'
  BY SameBriefsKeepLatest
     DEF PostMessage, RejectDuplicate, StoreForStaff, StoreMessage, dbVars
<1>2. CASE PostMessage(t) \/ RejectDuplicate(t)
  BY <1>1, <1>2 DEF TypeInv, TypeOK, PostMessage, RejectDuplicate, TurnPcs,
     dbVars, formVars, reqVars, staffVars, histVars
<1>3. CASE StoreForStaff(t)
  <2>1. conv' \in Conversation
    BY <1>3 DEF StoreForStaff, TypeInv, TypeOK, Conversation
  <2>2. messages' \subseteq Message
    BY <1>3 DEF StoreForStaff, TypeInv, TypeOK, Message, CustomerMsg, Callers
  <2>. QED BY <1>1, <1>3, <2>1, <2>2 DEF TypeInv, TypeOK, StoreForStaff, TurnPcs,
       formVars, reqVars, staffVars
<1>4. CASE StoreMessage(t)
  <2>1. messages' \subseteq Message
    BY <1>4 DEF StoreMessage, TypeInv, TypeOK, Message, CustomerMsg, Callers
  <2>. QED BY <1>1, <1>4, <2>1 DEF TypeInv, TypeOK, StoreMessage, TurnPcs,
       formVars, reqVars, staffVars, histVars
<1>. QED BY <1>2, <1>3, <1>4

\* Every branch hands a typed draft to whoever answers the turn.
LEMMA RouteType ==
  ASSUME TypeInv, NEW t \in Turns, Route(t)
  PROVE  /\ turnPc' \in [Turns -> TurnPcs]
         /\ pipePc' \in [Turns -> PipePcs]
         /\ draft' \in [Turns -> Draft]
         /\ pipeDraft' \in [Turns -> Draft]
<1>1. PICK route \in Routes(t) :
         /\ turnPc' = [turnPc EXCEPT ![t] = route]
         /\ pipePc' = [pipePc EXCEPT ![t] = IF route = "racing" THEN "running" ELSE @]
         /\ pipeDraft' = [pipeDraft EXCEPT ![t] = IF route = "racing" THEN draft[t] ELSE @]
         /\ draft' = [draft EXCEPT ![t].target =
              IF route = "direct" /\ text[t].kind = "human" THEN "waiting_sales" ELSE @]
  BY DEF Route
<1>2. Routes(t) \subseteq {"fallback", "direct", "racing"}
  BY ModeAssumption DEF Routes, Modes
<1>3. draft' \in [Turns -> Draft]
  <2>1. draft \in [Turns -> Draft] /\ draft[t].target \in Targets
    BY DEF TypeInv, TypeOK, Draft
  <2>2. PICK target \in Targets :
          draft' = [draft EXCEPT ![t] = [draft[t] EXCEPT !.target = target]]
    BY <1>1, <2>1 DEF Targets
  <2>3. [draft[t] EXCEPT !.target = target] \in Draft
    BY <2>1, RetargetType
  <2>. QED BY <2>1, <2>2, <2>3
<1>4. pipeDraft' \in [Turns -> Draft]
  BY <1>1 DEF TypeInv, TypeOK
<1>. QED BY <1>1, <1>2, <1>3, <1>4 DEF TypeInv, TypeOK, TurnPcs, PipePcs

LEMMA DecideTurnType ==
  ASSUME TypeInv, NEW t \in Turns,
         Understand(t) \/ StopFlow(t) \/ FlowAnswers(t) \/ NoFlowAnswers(t)
         \/ ScriptedFallback(t)
  PROVE  TypeInv'
<1>1. HasLatest'
  BY SameBriefsKeepLatest
     DEF Understand, StopFlow, FlowAnswers, NoFlowAnswers, ScriptedFallback, dbVars
<1>2. <<t, "rule">> \in Edits
  BY DEF Edits
<1>3. NextDraft(<<t, "rule">>, text[t].slots) \in Draft
  BY <1>2, NextDraftType
<1>4. NoFlow \in Flow
  BY DEF NoFlow, Flow
<1>5. CASE Understand(t)
  BY <1>1, <1>3, <1>5 DEF TypeInv, TypeOK, Understand, TurnPcs,
     dbVars, formVars, reqVars, staffVars, histVars
<1>6. CASE StopFlow(t)
  BY <1>1, <1>4, <1>6, RouteType DEF TypeInv, TypeOK, StopFlow, formVars, reqVars, staffVars
<1>7. CASE FlowAnswers(t)
  <2>1. draft' \in [Turns -> Draft]
    <3>1. PICK next \in {"keep", "run", "end"} :
            draft' = [draft EXCEPT ![t] = [draft[t] EXCEPT !.flow = next]]
      BY <1>7 DEF FlowAnswers
    <3>2. [draft[t] EXCEPT !.flow = next] \in Draft
      BY ReflowType DEF TypeInv, TypeOK
    <3>. QED BY <3>1, <3>2 DEF TypeInv, TypeOK
  <2>. QED BY <1>1, <1>4, <1>7, <2>1 DEF TypeInv, TypeOK, FlowAnswers, TurnPcs,
       formVars, reqVars, staffVars, histVars
<1>8. CASE NoFlowAnswers(t)
  BY <1>1, <1>4, <1>8, RouteType
     DEF TypeInv, TypeOK, NoFlowAnswers, formVars, reqVars, staffVars, histVars
<1>9. CASE ScriptedFallback(t)
  <2>1. PICK target \in Targets :
          draft' = [draft EXCEPT ![t] = [NextDraft(<<t, "rule">>, text[t].slots) EXCEPT !.target = target]]
    BY <1>9 DEF ScriptedFallback
  <2>2. [NextDraft(<<t, "rule">>, text[t].slots) EXCEPT !.target = target] \in Draft
    BY <1>3, RetargetType DEF Targets
  <2>3. draft' \in [Turns -> Draft]
    BY <2>1, <2>2 DEF TypeInv, TypeOK
  <2>. QED BY <1>1, <1>9, <2>3 DEF TypeInv, TypeOK, ScriptedFallback, TurnPcs,
       dbVars, formVars, reqVars, staffVars, histVars
<1>. QED BY <1>5, <1>6, <1>7, <1>8, <1>9

LEMMA CommitTurnType ==
  ASSUME TypeInv, NEW t \in Turns, CommitTurn(t)
  PROVE  TypeInv'
<1>1. MainRoute(t) \in {"flow", "direct", "pipeline", "fallback"} /\ draft[t] \in Draft
  BY DEF CommitTurn, MainRoute, TypeInv, TypeOK
<1>2. turnPc' \in [Turns -> TurnPcs]
  BY DEF CommitTurn, TypeInv, TypeOK, TurnPcs
<1>3. CASE UNCHANGED dbVars
  BY <1>2, <1>3, SameBriefsKeepLatest
     DEF TypeInv, TypeOK, CommitTurn, dbVars, formVars, reqVars, staffVars, histVars
<1>4. CASE StoreReply(t, MainRoute(t), draft[t])
  BY <1>1, <1>2, <1>4, StoreReplyType
     DEF TypeInv, TypeOK, CommitTurn, formVars, reqVars, staffVars, histVars
<1>. QED BY <1>3, <1>4 DEF CommitTurn, DropReply, RollBack

LEMMA PipelineType ==
  ASSUME TypeInv, NEW t \in Turns,
         PipelineStep(t) \/ PipelineSettles(t) \/ PipelineTimesOut(t)
  PROVE  TypeInv'
<1>1. CASE PipelineUnderstand(t)
  <2>1. pipeDraft' \in [Turns -> Draft]
    <3>1. PICK finds \in BOOLEAN, target \in {NoTarget, "waiting_sales"} :
            pipeDraft' = [pipeDraft EXCEPT ![t] = [PipelineMerge(t, finds) EXCEPT !.target = target]]
      BY <1>1 DEF PipelineUnderstand
    <3>2. <<t, "llm">> \in Edits /\ pipeDraft[t] \in Draft
      BY DEF Edits, TypeInv, TypeOK
    <3>3. PipelineMerge(t, finds) \in Draft
      BY <3>2 DEF PipelineMerge, Drafted, Draft, Targets, NoTarget
    <3>4. [PipelineMerge(t, finds) EXCEPT !.target = target] \in Draft
      BY <3>3, RetargetType DEF Targets
    <3>. QED BY <3>1, <3>4 DEF TypeInv, TypeOK
  <2>. QED BY <1>1, <2>1, SameBriefsKeepLatest
       DEF TypeInv, TypeOK, PipelineUnderstand, PipePcs,
           dbVars, formVars, reqVars, staffVars, histVars
<1>2. CASE PipelineCommit(t)
  <2>1. pipePc' \in [Turns -> PipePcs] /\ pipeDraft[t] \in Draft
    BY <1>2 DEF PipelineCommit, TypeInv, TypeOK, PipePcs
  <2>2. CASE UNCHANGED dbVars
    BY <1>2, <2>1, <2>2, SameBriefsKeepLatest
       DEF TypeInv, TypeOK, PipelineCommit, dbVars, formVars, reqVars, staffVars, histVars
  <2>3. CASE StoreReply(t, "pipeline", pipeDraft[t])
    BY <1>2, <2>1, <2>3, StoreReplyType
       DEF TypeInv, TypeOK, PipelineCommit, formVars, reqVars, staffVars, histVars
  <2>. QED BY <1>2, <2>2, <2>3 DEF PipelineCommit, DropReply, RollBack
<1>3. CASE PipelineThrows(t) \/ PipelineSettles(t) \/ PipelineTimesOut(t)
  BY <1>3, SameBriefsKeepLatest
     DEF TypeInv, TypeOK, PipelineThrows, PipelineSettles, PipelineTimesOut, PipePcs, TurnPcs,
         dbVars, formVars, reqVars, staffVars, histVars
<1>. QED BY <1>1, <1>2, <1>3 DEF PipelineStep

-----------------------------------------------------------------------------
(* Steps of the other actors *)

LEMMA ActionType ==
  ASSUME TypeInv, NEW a \in Actions, ActionStep(a)
  PROVE  TypeInv'
<1>1. messages \cup {AiMsg(a, "action")} \subseteq Message
  BY DEF TypeInv, TypeOK, Message, AiMsg, Callers
<1>2. NoFlow \in Flow
  BY DEF NoFlow, Flow
<1>3. CASE ActAsk(a) \/ ActFails(a)
  BY <1>3, SameBriefsKeepLatest
     DEF TypeInv, TypeOK, ActAsk, ActFails, dbVars, turnVars, reqVars, staffVars, histVars
<1>6. CASE ActStart(a)
  <2>1. [running |-> TRUE, epoch |-> seenEpoch[a]] \in Flow
    BY DEF Flow, TypeInv, TypeOK
  <2>. QED BY <1>1, <1>2, <1>6, <2>1, SameBriefsKeepLatest
       DEF TypeInv, TypeOK, ActStart, turnVars, reqVars, staffVars, histVars
<1>4. CASE ActHuman(a)
  <2>1. outbox' \subseteq Event
    BY <1>4 DEF ActHuman, TypeInv, TypeOK, Event, Rows, Callers
  <2>2. conv' \in Conversation
    BY <1>4 DEF ActHuman, TypeInv, TypeOK, Conversation, ConvStates
  <2>. QED BY <1>1, <1>2, <1>4, <2>1, <2>2, SameBriefsKeepLatest
       DEF TypeInv, TypeOK, ActHuman, turnVars, reqVars, staffVars
<1>5. CASE ActSlot(a)
  <2>. DEFINE row == [rev |-> LatestRev + 1, data |-> LatestData \cup {<<a, "form">>}]
  <2>1. row \in Brief
    BY LatestIsGreatest, LatestDataType DEF Brief, Edits
  <2>2. conv' \in Conversation
    BY <1>5 DEF ActSlot, TypeInv, TypeOK, Conversation, ConvStates
  <2>3. briefs' = briefs \cup {row}
    BY <1>5 DEF ActSlot
  <2>4. HasLatest'
    <3>. HIDE DEF row
    <3>1. PICK S : S = {row} OBVIOUS
    <3>2. S \subseteq Brief /\ \A b, c \in S : b = c
      BY <2>1, <3>1
    <3>. QED BY <2>3, <3>1, <3>2, AddRowKeepsLatest
  <2>. QED BY <1>1, <1>5, <2>1, <2>2, <2>3, <2>4
       DEF TypeInv, TypeOK, ActSlot, turnVars, reqVars, staffVars, histVars
<1>. QED BY <1>3, <1>4, <1>5, <1>6 DEF ActionStep

LEMMA EditorType ==
  ASSUME TypeInv, NEW e \in Editors, EditorStep(e)
  PROVE  TypeInv'
<1>1. CASE PutBriefRead(e)
  <2>1. NextDraft(<<e, "form">>, TRUE) \in Draft
    BY NextDraftType DEF Edits
  <2>. QED BY <1>1, <2>1, SameBriefsKeepLatest
       DEF TypeInv, TypeOK, PutBriefRead, dbVars, turnVars, reqVars, staffVars, histVars
<1>2. CASE PutBriefSave(e)
  <2>1. formPc' \in [Actions \cup Editors -> {"idle", "read", "asked", "saved", "error"}]
    BY <1>2 DEF PutBriefSave, TypeInv, TypeOK
  <2>2. formDraft[e] \in Draft
    BY DEF TypeInv, TypeOK
  <2>3. CASE briefs' = briefs
    BY <1>2, <2>1, <2>3, SameBriefsKeepLatest
       DEF TypeInv, TypeOK, PutBriefSave, turnVars, reqVars, staffVars, histVars
  <2>4. CASE briefs' = briefs \cup RowOf(formDraft[e])
    <3>1. RowOf(formDraft[e]) \subseteq Brief
      BY <2>2, RowOfType
    <3>2. \A b, c \in RowOf(formDraft[e]) : b = c
      BY DEF RowOf
    <3>3. HasLatest'
      BY <2>4, <3>1, <3>2, AddRowKeepsLatest
    <3>. QED BY <1>2, <2>1, <2>4, <3>1, <3>3
         DEF TypeInv, TypeOK, PutBriefSave, turnVars, reqVars, staffVars, histVars
  <2>. QED BY <1>2, <2>3, <2>4 DEF PutBriefSave
<1>. QED BY <1>1, <1>2 DEF EditorStep

LEMMA RequestType ==
  ASSUME TypeInv, NEW r \in Requests, RequestStep(r)
  PROVE  TypeInv'
<1>1. HasLatest'
  BY SameBriefsKeepLatest
     DEF RequestStep, RequestLookup, RequestCheckBrief, RequestCommit, dbVars
<1>2. CASE RequestLookup(r)
  BY <1>1, <1>2 DEF TypeInv, TypeOK, RequestLookup,
     dbVars, turnVars, formVars, staffVars, histVars
<1>3. CASE RequestCheckBrief(r)
  BY <1>1, <1>3, LatestIsGreatest DEF TypeInv, TypeOK, RequestCheckBrief,
     dbVars, turnVars, formVars, staffVars, histVars
<1>4. CASE RequestCommit(r)
  <2>1. conv' \in Conversation
    BY <1>4 DEF RequestCommit, TypeInv, TypeOK, Conversation, ConvStates
  <2>2. outbox' \subseteq Event
    BY <1>4 DEF RequestCommit, TypeInv, TypeOK, Event, Rows, Callers
  <2>3. requests' \subseteq Request
    BY <1>4 DEF RequestCommit, TypeInv, TypeOK, Request
  <2>4. requestPc' \in [Requests -> {"idle", "looked", "checked", "created", "replayed", "error"}]
    BY <1>4 DEF RequestCommit, TypeInv, TypeOK
  <2>. QED BY <1>1, <1>4, <2>1, <2>2, <2>3, <2>4
       DEF TypeInv, TypeOK, RequestCommit, turnVars, formVars, staffVars, histVars
<1>. QED BY <1>2, <1>3, <1>4 DEF RequestStep

LEMMA StaffType ==
  ASSUME TypeInv, NEW s \in Staff, StaffStep(s)
  PROVE  TypeInv'
<1>1. HasLatest'
  BY SameBriefsKeepLatest
     DEF StaffStep, TakeLoad, ReleaseLoad, SpeakLoad, Load, TakeSave, ReleaseSave,
         SpeakStore, SpeakSave, dbVars
<1>2. CASE TakeLoad(s) \/ ReleaseLoad(s) \/ SpeakLoad(s)
  BY <1>1, <1>2 DEF TypeInv, TypeOK, TakeLoad, ReleaseLoad, SpeakLoad, Load,
     dbVars, turnVars, formVars, reqVars, histVars
<1>3. NewConversation \in Conversation
  BY DEF NewConversation, Conversation, ConvStates
<1>4. \A entity \in Conversation : SaveEntity(s, entity) =>
        /\ conv' \in Conversation
        /\ staffPc' \in [Staff -> {"idle", "take", "release", "speak", "spoken"}]
        /\ snapshot' \in [Staff -> Conversation]
  BY <1>3 DEF SaveEntity, TypeInv, TypeOK
<1>5. CASE TakeSave(s)
  <2>1. [snapshot[s] EXCEPT !.human = TRUE, !.owner = s, !.unread = 0] \in Conversation
    BY DEF TypeInv, TypeOK, Conversation
  <2>. QED BY <1>1, <1>4, <1>5, <2>1 DEF TakeSave, TypeInv, TypeOK, turnVars, formVars, reqVars
<1>6. CASE ReleaseSave(s)
  <2>1. [snapshot[s] EXCEPT !.human = FALSE] \in Conversation
    BY DEF TypeInv, TypeOK, Conversation
  <2>. QED BY <1>1, <1>4, <1>6, <2>1
       DEF ReleaseSave, TypeInv, TypeOK, turnVars, formVars, reqVars, histVars
<1>7. CASE SpeakStore(s)
  <2>1. messages' \subseteq Message
    BY <1>7 DEF SpeakStore, TypeInv, TypeOK, Message, StaffMsg, Callers
  <2>. QED BY <1>1, <1>7, <2>1
       DEF SpeakStore, TypeInv, TypeOK, turnVars, formVars, reqVars, histVars
<1>8. CASE SpeakSave(s)
  <2>1. snapshot[s] \in Conversation
    BY DEF TypeInv, TypeOK
  <2>. QED BY <1>1, <1>4, <1>8, <2>1
       DEF SpeakSave, TypeInv, TypeOK, turnVars, formVars, reqVars, histVars
<1>. QED BY <1>2, <1>5, <1>6, <1>7, <1>8 DEF StaffStep

LEMMA CrashType ==
  ASSUME TypeInv, Crash
  PROVE  TypeInv'
<1>1. NewConversation \in Conversation
  BY DEF NewConversation, Conversation, ConvStates
<1>2. turnPc' \in [Turns -> TurnPcs] /\ pipePc' \in [Turns -> PipePcs]
  BY DEF Crash, TypeInv, TypeOK, TurnPcs, PipePcs
<1>. QED BY <1>1, <1>2, SameBriefsKeepLatest
     DEF Crash, TypeInv, TypeOK, dbVars, histVars

-----------------------------------------------------------------------------
(* Theorems *)

\* No step takes any row or any call in progress out of its type, and the saved
\* brief revisions always have a greatest one.
THEOREM TypeCorrect == Spec => []TypeInv
<1>1. Init => TypeInv
  BY InitType
<1>2. TypeInv /\ [Next]_vars => TypeInv'
  <2>. SUFFICES ASSUME TypeInv, [Next]_vars PROVE TypeInv' OBVIOUS
  <2>1. ASSUME NEW t \in Turns, PostMessage(t) \/ TurnStep(t) \/ PipelineStep(t)
        PROVE  TypeInv'
    BY <2>1, AcceptMessageType, DecideTurnType, CommitTurnType, PipelineType DEF TurnStep
  <2>2. CASE UNCHANGED vars
    BY <2>2, SameBriefsKeepLatest
       DEF TypeInv, TypeOK, vars, dbVars, turnVars, formVars, reqVars, staffVars, histVars
  <2>. QED BY <2>1, <2>2, ActionType, EditorType, RequestType, StaffType, CrashType DEF Next
<1>. QED BY <1>1, <1>2, PTL DEF Spec

\* Every row of the conversation and every call in progress keeps its type.
THEOREM RowsAreTyped == Spec => []TypeOK
<1>1. TypeInv => TypeOK
  BY DEF TypeInv
<1>. QED BY <1>1, TypeCorrect, PTL

-----------------------------------------------------------------------------
(* Announcements and ownership survive the inbox's stale saves *)

\* What holds of the conversation row and of every copy of it the inbox has loaded.
SoundRow(c, sent, reqs) ==
  /\ c.state = "waiting_sales" => \E row \in sent : row.event = "human.requested"
  /\ c.state = "submitted" => \E q \in reqs : Rows("request.created", q.by) \subseteq sent
  /\ c.human => c.owner # NoStaff

\* Inductive: a stale save writes a copy back, so the copies must be sound as well.
HandoffInv ==
  /\ SoundRow(conv, outbox, requests)
  /\ \A s \in Staff : SoundRow(snapshot[s], outbox, requests)

\* Outbox rows and requests are never removed, so what was sound stays sound.
LEMMA SoundStaysSound ==
  ASSUME NEW c, NEW sent, NEW reqs, NEW moreSent, NEW moreReqs,
         SoundRow(c, sent, reqs), sent \subseteq moreSent, reqs \subseteq moreReqs
  PROVE  SoundRow(c, moreSent, moreReqs)
BY DEF SoundRow

\* There is always a channel to announce on.
LEMMA RowsAnnounce ==
  ASSUME NEW event, NEW c, NEW sent, Rows(event, c) \subseteq sent
  PROVE  \E row \in sent : row.event = event
<1>. DEFINE row == [event |-> event, channel |-> "inapp", by |-> c]
<1>1. row \in Rows(event, c)
  BY ChannelAssumption DEF Rows
<1>2. row.event = event
  OBVIOUS
<1>. QED BY <1>1, <1>2

LEMMA RowsOnlyGrow ==
  ASSUME [Next]_vars
  PROVE  outbox \subseteq outbox' /\ requests \subseteq requests'
<1>1. CASE UNCHANGED vars
  BY <1>1 DEF vars, dbVars
<1>2. ASSUME NEW t \in Turns, PostMessage(t) \/ TurnStep(t) \/ PipelineStep(t)
      PROVE  outbox \subseteq outbox' /\ requests \subseteq requests'
  BY <1>2 DEF PostMessage, TurnStep, PipelineStep, RejectDuplicate, StoreForStaff, StoreMessage,
     Understand, StopFlow, FlowAnswers, NoFlowAnswers, CommitTurn, ScriptedFallback,
     PipelineSettles, PipelineTimesOut, PipelineUnderstand, PipelineCommit, PipelineThrows,
     DropReply, RollBack, StoreReply, SaveReply, dbVars
<1>3. ASSUME NEW a \in Actions, ActionStep(a)
      PROVE  outbox \subseteq outbox' /\ requests \subseteq requests'
  BY <1>3 DEF ActionStep, ActAsk, ActStart, ActHuman, ActSlot, ActFails, dbVars
<1>4. ASSUME NEW e \in Editors, EditorStep(e)
      PROVE  outbox \subseteq outbox' /\ requests \subseteq requests'
  BY <1>4 DEF EditorStep, PutBriefRead, PutBriefSave, dbVars
<1>5. ASSUME NEW r \in Requests, RequestStep(r)
      PROVE  outbox \subseteq outbox' /\ requests \subseteq requests'
  BY <1>5 DEF RequestStep, RequestLookup, RequestCheckBrief, RequestCommit, dbVars
<1>6. ASSUME NEW s \in Staff, StaffStep(s)
      PROVE  outbox \subseteq outbox' /\ requests \subseteq requests'
  BY <1>6 DEF StaffStep, TakeLoad, ReleaseLoad, SpeakLoad, Load, TakeSave, ReleaseSave,
     SpeakStore, SpeakSave, dbVars
<1>7. CASE Crash
  BY <1>7 DEF Crash, dbVars
<1>. QED BY <1>1, <1>2, <1>3, <1>4, <1>5, <1>6, <1>7 DEF Next

\* Turns, actions, edits and requests change the row only together with what it announces.
LEMMA CustomerKeepsRowSound ==
  ASSUME TypeInv, SoundRow(conv, outbox, requests),
         \/ \E t \in Turns : PostMessage(t) \/ TurnStep(t) \/ PipelineStep(t)
         \/ \E a \in Actions : ActionStep(a)
         \/ \E e \in Editors : EditorStep(e)
         \/ \E r \in Requests : RequestStep(r)
  PROVE  SoundRow(conv', outbox', requests') /\ snapshot' = snapshot
<1>. USE DEF staffVars
<1>1. ASSUME NEW t \in Turns, PostMessage(t) \/ TurnStep(t) \/ PipelineStep(t)
      PROVE  SoundRow(conv', outbox', requests') /\ snapshot' = snapshot
  <2>1. CASE conv' = conv /\ UNCHANGED <<outbox, requests>> /\ snapshot' = snapshot
    BY <2>1
  <2>2. CASE StoreForStaff(t)
    BY <2>2 DEF StoreForStaff, SoundRow, TypeInv, TypeOK, Conversation
  <2>3. ASSUME NEW route, NEW d \in Draft, StoreReply(t, route, d)
        PROVE  SoundRow(conv', outbox', requests')
    <3>1. conv'.human = conv.human /\ conv'.owner = conv.owner
      BY <2>3 DEF StoreReply, SaveReply, TypeInv, TypeOK, Conversation
    <3>2. conv'.state = IF d.target = NoTarget THEN conv.state ELSE d.target
      BY <2>3 DEF StoreReply, SaveReply, TypeInv, TypeOK, Conversation
    <3>3. outbox \subseteq outbox' /\ requests' = requests
      BY <2>3 DEF StoreReply, SaveReply
    <3>4. d.target = "waiting_sales" => \E row \in outbox' : row.event = "human.requested"
      BY <2>3, RowsAnnounce DEF StoreReply, SaveReply
    <3>5. d.target \in {NoTarget, "request_review", "waiting_sales"}
      BY DEF Draft, Targets
    <3>6. SoundRow(conv, outbox', requests')
      BY <3>3, SoundStaysSound
    <3>. QED BY <3>1, <3>2, <3>4, <3>5, <3>6 DEF SoundRow, NoTarget
  <2>4. draft[t] \in Draft /\ pipeDraft[t] \in Draft
    BY DEF TypeInv, TypeOK
  <2>. QED BY <1>1, <2>1, <2>2, <2>3, <2>4 DEF PostMessage, TurnStep, PipelineStep,
       RejectDuplicate, StoreForStaff, StoreMessage, Understand, StopFlow, FlowAnswers,
       NoFlowAnswers, CommitTurn, ScriptedFallback, PipelineSettles, PipelineTimesOut,
       PipelineUnderstand, PipelineCommit, PipelineThrows, DropReply, RollBack, dbVars
<1>2. ASSUME NEW a \in Actions, ActionStep(a)
      PROVE  SoundRow(conv', outbox', requests') /\ snapshot' = snapshot
  <2>1. CASE ActAsk(a) \/ ActStart(a) \/ ActFails(a)
    BY <2>1 DEF ActAsk, ActStart, ActFails, dbVars
  <2>2. CASE ActHuman(a)
    <3>1. \E row \in outbox' : row.event = "human.requested"
      <4>1. Rows("human.requested", a) \subseteq outbox'
        BY <2>2 DEF ActHuman
      <4>. QED BY <4>1, RowsAnnounce
    <3>. QED BY <2>2, <3>1 DEF ActHuman, SoundRow, TypeInv, TypeOK, Conversation
  <2>3. CASE ActSlot(a)
    BY <2>3 DEF ActSlot, SoundRow, TypeInv, TypeOK, Conversation
  <2>. QED BY <1>2, <2>1, <2>2, <2>3 DEF ActionStep
<1>3. ASSUME NEW e \in Editors, EditorStep(e)
      PROVE  SoundRow(conv', outbox', requests') /\ snapshot' = snapshot
  BY <1>3 DEF EditorStep, PutBriefRead, PutBriefSave, dbVars
<1>4. ASSUME NEW r \in Requests, RequestStep(r)
      PROVE  SoundRow(conv', outbox', requests') /\ snapshot' = snapshot
  <2>1. CASE conv' = conv /\ UNCHANGED <<outbox, requests, snapshot>>
    BY <2>1
  <2>2. CASE ~(conv' = conv /\ UNCHANGED <<outbox, requests, snapshot>>)
    <3>1. RequestCommit(r) /\ ~KeyTaken(r)
      BY <1>4, <2>2 DEF RequestStep, RequestLookup, RequestCheckBrief, RequestCommit, dbVars
    <3>2. conv' = [conv EXCEPT !.state = "submitted"] /\ snapshot' = snapshot
      BY <3>1 DEF RequestCommit
    <3>3. Rows("request.created", r) \subseteq outbox'
      BY <3>1 DEF RequestCommit
    <3>4. \E q \in requests' : q.by = r
      <4>. DEFINE new == [key |-> RequestKey[r], rev |-> requestRev[r], by |-> r]
      <4>1. new \in requests' BY <3>1 DEF RequestCommit
      <4>2. new.by = r OBVIOUS
      <4>. QED BY <4>1, <4>2
    <3>. QED BY <3>2, <3>3, <3>4 DEF SoundRow, TypeInv, TypeOK, Conversation
  <2>. QED BY <2>1, <2>2
<1>. QED BY <1>1, <1>2, <1>3, <1>4

LEMMA HandoffStep == TypeInv /\ HandoffInv /\ [Next]_vars => HandoffInv'
<1>. SUFFICES ASSUME TypeInv, HandoffInv, [Next]_vars PROVE HandoffInv' OBVIOUS
<1>1. \A c : SoundRow(c, outbox, requests) => SoundRow(c, outbox', requests')
  BY RowsOnlyGrow, SoundStaysSound
<1>2. CASE UNCHANGED vars
  BY <1>2 DEF HandoffInv, vars, dbVars, staffVars
<1>3. CASE \/ \E t \in Turns : PostMessage(t) \/ TurnStep(t) \/ PipelineStep(t)
           \/ \E a \in Actions : ActionStep(a)
           \/ \E e \in Editors : EditorStep(e)
           \/ \E r \in Requests : RequestStep(r)
  BY <1>1, <1>3, CustomerKeepsRowSound DEF HandoffInv
<1>4. ASSUME NEW s \in Staff, StaffStep(s) PROVE HandoffInv'
  <2>1. snapshot \in [Staff -> Conversation] /\ conv \in Conversation
    BY DEF TypeInv, TypeOK
  <2>2. SoundRow(NewConversation, outbox', requests')
    BY DEF SoundRow, NewConversation
  <2>3. \A entity : SoundRow(entity, outbox', requests') /\ SaveEntity(s, entity) => HandoffInv'
    BY <1>1, <2>1, <2>2 DEF HandoffInv, SaveEntity
  <2>4. CASE TakeLoad(s) \/ ReleaseLoad(s) \/ SpeakLoad(s)
    BY <1>1, <2>1, <2>4 DEF HandoffInv, TakeLoad, ReleaseLoad, SpeakLoad, Load, dbVars
  <2>5. CASE TakeSave(s)
    <3>. DEFINE entity == [snapshot[s] EXCEPT !.human = TRUE, !.owner = s, !.unread = 0]
    <3>1. entity.state = snapshot[s].state /\ entity.owner # NoStaff
      BY <2>1, StaffAssumption DEF Conversation
    <3>2. SoundRow(entity, outbox', requests')
      BY <1>1, <3>1 DEF HandoffInv, SoundRow
    <3>3. SaveEntity(s, entity)
      BY <2>5 DEF TakeSave
    <3>. HIDE DEF entity
    <3>. QED BY <2>3, <3>2, <3>3
  <2>6. CASE ReleaseSave(s)
    <3>. DEFINE entity == [snapshot[s] EXCEPT !.human = FALSE]
    <3>1. entity.state = snapshot[s].state /\ ~entity.human
      BY <2>1 DEF Conversation
    <3>2. SoundRow(entity, outbox', requests')
      BY <1>1, <3>1 DEF HandoffInv, SoundRow
    <3>3. SaveEntity(s, entity)
      BY <2>6 DEF ReleaseSave
    <3>. HIDE DEF entity
    <3>. QED BY <2>3, <3>2, <3>3
  <2>7. CASE SpeakStore(s)
    BY <1>1, <2>7 DEF HandoffInv, SpeakStore
  <2>8. CASE SpeakSave(s)
    BY <1>1, <2>3, <2>8 DEF HandoffInv, SpeakSave
  <2>. QED BY <1>4, <2>4, <2>5, <2>6, <2>7, <2>8 DEF StaffStep
<1>5. CASE Crash
  <2>1. SoundRow(NewConversation, outbox', requests')
    BY DEF SoundRow, NewConversation
  <2>. QED BY <1>1, <1>5, <2>1 DEF HandoffInv, Crash, dbVars
<1>. QED BY <1>2, <1>3, <1>4, <1>5 DEF Next

\* Whatever stale copies the inbox saves, the conversation never waits for sales or
\* stands as submitted without the outbox rows that tell staff, and never counts as
\* taken with nobody assigned.
THEOREM HandoffCorrect == Spec => []HandoffIsBacked
<1>1. Init => HandoffInv
  BY DEF Init, HandoffInv, SoundRow, NewConversation
<1>2. HandoffInv => HandoffIsBacked
  BY DEF HandoffInv, SoundRow, HandoffIsBacked, WaitingIsAnnounced, SubmittedIsAnnounced,
         TakenIsAssigned
<1>. QED BY <1>1, <1>2, TypeCorrect, HandoffStep, PTL DEF Spec

-----------------------------------------------------------------------------
(* No edit of the brief is lost while no LLM pipeline writes to it *)

Revs(rows) == {b.rev : b \in rows}

\* NoLostEdit of an arbitrary set of rows.
Complete(rows) ==
  /\ \A b \in rows : 1..b.rev \subseteq Revs(rows)
  /\ \A b, c \in rows : b.rev <= c.rev => b.data \subseteq c.data

\* What a draft must know of the rows for its own row to lose nothing.
Fresh(d, rows) ==
  d.rev # 0 => /\ d.rev = 1 \/ d.rev - 1 \in Revs(rows)
               /\ \A b \in rows : b.rev < d.rev => b.data \subseteq d.data

\* Inductive: the optimistic writers (a turn between its read and its commit, PUT
\* /brief between its read and its save) are all fresh, and no pipeline is running.
BriefInv ==
  /\ Complete(briefs)
  /\ \A t \in Turns : Fresh(draft[t], briefs) /\ pipePc[t] = "idle" /\ turnPc[t] # "racing"
  /\ \A e \in Editors : Fresh(formDraft[e], briefs)

\* A fresh row whose revision is not taken fits on top of the others.
LEMMA FreshRowKeepsComplete ==
  ASSUME NEW rows \in SUBSET Brief, NEW row \in Brief,
         Complete(rows), Fresh(row, rows), row.rev \notin Revs(rows)
  PROVE  Complete(rows \cup {row})
<1>1. Revs(rows \cup {row}) = Revs(rows) \cup {row.rev}
  BY DEF Revs
<1>2. row.rev \in Nat \ {0} /\ \A b \in rows : b.rev \in Nat \ {0}
  BY DEF Brief
<1>3. 1..row.rev \subseteq Revs(rows) \cup {row.rev}
  <2>1. CASE row.rev = 1
    BY <2>1
  <2>2. CASE row.rev # 1
    <3>1. PICK b \in rows : b.rev = row.rev - 1
      BY <1>2, <2>2 DEF Fresh, Revs
    <3>2. 1..(row.rev - 1) \subseteq Revs(rows)
      BY <3>1 DEF Complete
    <3>. QED BY <1>2, <3>2
  <2>. QED BY <2>1, <2>2
<1>4. \A c \in rows : ~(row.rev <= c.rev)
  <2>. SUFFICES ASSUME NEW c \in rows, row.rev <= c.rev PROVE FALSE OBVIOUS
  <2>1. row.rev \in 1..c.rev BY <1>2
  <2>. QED BY <2>1 DEF Complete
<1>5. \A b \in rows : b.rev <= row.rev => b.data \subseteq row.data
  BY <1>2 DEF Fresh, Revs
<1>. QED BY <1>1, <1>3, <1>4, <1>5 DEF Complete

\* It takes away nothing that another fresh draft relies on.
LEMMA FreshRowKeepsFresh ==
  ASSUME NEW rows \in SUBSET Brief, NEW row \in Brief, NEW d, d.rev \in Nat,
         Complete(rows), row.rev \notin Revs(rows), Fresh(d, rows)
  PROVE  Fresh(d, rows \cup {row})
<1>1. Revs(rows \cup {row}) = Revs(rows) \cup {row.rev}
  BY DEF Revs
<1>2. row.rev \in Nat \ {0}
  BY DEF Brief
<1>3. d.rev # 0 => ~(row.rev < d.rev)
  <2>. SUFFICES ASSUME d.rev # 0, row.rev < d.rev PROVE FALSE OBVIOUS
  <2>1. d.rev # 1 BY <1>2
  <2>2. PICK b \in rows : b.rev = d.rev - 1
    BY <2>1 DEF Fresh, Revs
  <2>3. row.rev \in 1..b.rev BY <1>2, <2>2
  <2>. QED BY <2>3 DEF Complete
<1>. QED BY <1>1, <1>3 DEF Fresh

\* The revision after the latest one, with the latest data in it, is fresh.
LEMMA NextRevisionIsFresh ==
  ASSUME TypeInv, Complete(briefs), NEW row, row.rev = LatestRev + 1, LatestData \subseteq row.data
  PROVE  Fresh(row, briefs) /\ row.rev \notin Revisions
<1>1. /\ LatestRev \in Nat /\ LatestRev \in Revisions \cup {0}
      /\ \A q \in Revisions : q <= LatestRev
  BY LatestIsGreatest
<1>2. \A b \in briefs : b.rev \in Nat \ {0} /\ b.rev \in Revisions
  BY DEF TypeInv, TypeOK, Brief, Revisions
<1>3. row.rev \notin Revisions
  BY <1>1
<1>4. row.rev = 1 \/ row.rev - 1 \in Revs(briefs)
  BY <1>1 DEF Revs, Revisions
<1>5. ASSUME NEW b \in briefs PROVE b.data \subseteq row.data
  <2>1. b.rev <= LatestRev /\ LatestRev # 0 BY <1>1, <1>2
  <2>2. PICK c \in briefs : c.rev = LatestRev BY <1>1, <2>1 DEF Revisions
  <2>3. b.data \subseteq c.data BY <2>1, <2>2 DEF Complete
  <2>4. c.data \subseteq LatestData BY <2>2 DEF LatestData
  <2>. QED BY <2>3, <2>4
<1>. QED BY <1>3, <1>4, <1>5 DEF Fresh

LEMMA NextDraftIsFresh ==
  ASSUME TypeInv, Complete(briefs), NEW edit, NEW changes
  PROVE  Fresh(NextDraft(edit, changes), briefs)
<1>1. CASE changes /\ edit \notin LatestData
  <2>1. NextDraft(edit, changes) = Drafted(LatestRev + 1, LatestData \cup {edit})
    BY <1>1 DEF NextDraft
  <2>. QED BY <2>1, NextRevisionIsFresh DEF Drafted
<1>2. CASE ~(changes /\ edit \notin LatestData)
  BY <1>2 DEF NextDraft, Drafted, NoRevision, Fresh
<1>. QED BY <1>1, <1>2

\* What a step may do to the brief table: nothing, or add a fresh row.
BriefsStayFresh ==
  /\ Complete(briefs')
  /\ \A d \in Draft : Fresh(d, briefs) => Fresh(d, briefs')

LEMMA SaveRow ==
  ASSUME TypeInv, Complete(briefs), NEW row \in Brief, Fresh(row, briefs),
         row.rev \notin Revisions, briefs' = briefs \cup {row}
  PROVE  BriefsStayFresh
<1>1. briefs \in SUBSET Brief /\ row.rev \notin Revs(briefs)
  BY DEF TypeInv, TypeOK, Revs, Revisions
<1>2. \A d \in Draft : d.rev \in Nat
  BY DEF Draft
<1>. QED BY <1>1, <1>2, FreshRowKeepsComplete, FreshRowKeepsFresh DEF BriefsStayFresh

LEMMA SaveDraft ==
  ASSUME TypeInv, Complete(briefs), NEW d \in Draft, Fresh(d, briefs), ~BriefClash(d),
         briefs' = briefs \cup RowOf(d)
  PROVE  BriefsStayFresh
<1>1. CASE d.rev = NoRevision
  BY <1>1 DEF RowOf, BriefsStayFresh
<1>2. CASE d.rev # NoRevision
  <2>1. PICK row : row = [rev |-> d.rev, data |-> d.data] OBVIOUS
  <2>2. row \in Brief /\ row.rev = d.rev /\ row.data = d.data
    BY <1>2, <2>1 DEF Draft, Brief, NoRevision
  <2>3. Fresh(row, briefs)
    BY <2>2 DEF Fresh
  <2>4. briefs' = briefs \cup {row}
    BY <1>2, <2>1 DEF RowOf
  <2>. QED BY <1>2, <2>2, <2>3, <2>4, SaveRow DEF BriefClash
<1>. QED BY <1>1, <1>2

LEMMA SameBriefsStayFresh ==
  ASSUME Complete(briefs), briefs' = briefs PROVE BriefsStayFresh
BY DEF BriefsStayFresh

ScriptMode == Mode \in {"scripted", "script_only"}

LEMMA TurnKeepsBriefInv ==
  ASSUME ScriptMode, TypeInv, BriefInv, NEW t \in Turns,
         PostMessage(t) \/ TurnStep(t) \/ PipelineStep(t)
  PROVE  /\ BriefsStayFresh
         /\ \A u \in Turns : Fresh(draft'[u], briefs) /\ pipePc'[u] = "idle" /\ turnPc'[u] # "racing"
         /\ formDraft' = formDraft
<1>. USE DEF BriefInv, formVars
<1>1. draft \in [Turns -> Draft] /\ turnPc \in [Turns -> TurnPcs] /\ pipePc \in [Turns -> PipePcs]
  BY DEF TypeInv, TypeOK
<1>2. CASE PostMessage(t) \/ RejectDuplicate(t) \/ StoreForStaff(t) \/ StoreMessage(t)
  BY <1>1, <1>2, SameBriefsStayFresh
     DEF PostMessage, RejectDuplicate, StoreForStaff, StoreMessage, dbVars
<1>3. CASE Understand(t)
  BY <1>1, <1>3, NextDraftIsFresh, SameBriefsStayFresh DEF Understand, dbVars
<1>4. ASSUME Route(t)
      PROVE \A u \in Turns :
              Fresh(draft'[u], briefs) /\ pipePc'[u] = "idle" /\ turnPc'[u] # "racing"
  <2>1. PICK route \in Routes(t) :
         /\ turnPc' = [turnPc EXCEPT ![t] = route]
         /\ pipePc' = [pipePc EXCEPT ![t] = IF route = "racing" THEN "running" ELSE @]
         /\ draft' = [draft EXCEPT ![t].target =
              IF route = "direct" /\ text[t].kind = "human" THEN "waiting_sales" ELSE @]
    BY <1>4 DEF Route
  <2>2. route # "racing"
    BY <2>1 DEF Routes, ScriptMode
  <2>3. \A u \in Turns : draft'[u].rev = draft[u].rev /\ draft'[u].data = draft[u].data
    BY <1>1, <2>1 DEF Draft
  <2>4. \A u \in Turns : Fresh(draft'[u], briefs)
    BY <2>3 DEF Fresh
  <2>. QED BY <1>1, <2>1, <2>2, <2>4
<1>5. CASE StopFlow(t) \/ NoFlowAnswers(t)
  BY <1>4, <1>5, SameBriefsStayFresh DEF StopFlow, NoFlowAnswers
<1>6. CASE FlowAnswers(t)
  <2>1. \A u \in Turns : draft'[u].rev = draft[u].rev /\ draft'[u].data = draft[u].data
    BY <1>1, <1>6 DEF FlowAnswers, Draft
  <2>2. \A u \in Turns : Fresh(draft'[u], briefs)
    BY <2>1 DEF Fresh
  <2>. QED BY <1>1, <1>6, <2>2, SameBriefsStayFresh DEF FlowAnswers
<1>7. CASE CommitTurn(t)
  <2>1. BriefsStayFresh
    <3>1. CASE briefs' = briefs
      BY <3>1, SameBriefsStayFresh
    <3>2. CASE StoreReply(t, MainRoute(t), draft[t])
      BY <1>1, <3>2, SaveDraft DEF StoreReply, SaveReply
    <3>. QED BY <1>7, <3>1, <3>2 DEF CommitTurn, DropReply, RollBack, dbVars
  <2>. QED BY <1>1, <1>7, <2>1 DEF CommitTurn
<1>8. CASE ScriptedFallback(t)
  <2>1. PICK target \in Targets :
          draft' = [draft EXCEPT ![t] = [NextDraft(<<t, "rule">>, text[t].slots) EXCEPT !.target = target]]
    BY <1>8 DEF ScriptedFallback
  <2>2. NextDraft(<<t, "rule">>, text[t].slots) \in Draft
    BY NextDraftType DEF Edits
  <2>3. Fresh([NextDraft(<<t, "rule">>, text[t].slots) EXCEPT !.target = target], briefs)
    BY <2>2, NextDraftIsFresh DEF Fresh, Draft
  <2>. QED BY <1>1, <1>8, <2>1, <2>3, SameBriefsStayFresh DEF ScriptedFallback, dbVars
<1>9. CASE PipelineStep(t) \/ PipelineSettles(t) \/ PipelineTimesOut(t)
  BY <1>9 DEF PipelineStep, PipelineUnderstand, PipelineCommit, PipelineThrows,
     PipelineSettles, PipelineTimesOut
<1>. QED BY <1>2, <1>3, <1>5, <1>6, <1>7, <1>8, <1>9 DEF TurnStep

LEMMA BriefStep ==
  ASSUME ScriptMode, TypeInv, BriefInv, [Next]_vars, TypeInv'
  PROVE  BriefInv'
<1>. USE DEF BriefInv
<1>1. /\ draft \in [Turns -> Draft] /\ draft' \in [Turns -> Draft]
      /\ formDraft \in [Editors -> Draft] /\ formDraft' \in [Editors -> Draft]
  BY DEF TypeInv, TypeOK
<1>2. ASSUME BriefsStayFresh, \A u \in Turns : Fresh(draft'[u], briefs),
             \A u \in Turns : pipePc'[u] = "idle" /\ turnPc'[u] # "racing",
             \A e \in Editors : Fresh(formDraft'[e], briefs)
      PROVE  BriefInv'
  BY <1>1, <1>2 DEF BriefsStayFresh
<1>3. ASSUME NEW t \in Turns, PostMessage(t) \/ TurnStep(t) \/ PipelineStep(t)
      PROVE  BriefInv'
  BY <1>2, <1>3, TurnKeepsBriefInv
<1>4. ASSUME BriefsStayFresh, UNCHANGED <<draft, pipePc, turnPc, formDraft>>
      PROVE  BriefInv'
  BY <1>2, <1>4
<1>5. CASE UNCHANGED vars
  BY <1>4, <1>5, SameBriefsStayFresh DEF vars, dbVars, turnVars, formVars
<1>6. ASSUME NEW a \in Actions, ActionStep(a) PROVE BriefInv'
  <2>1. CASE ActAsk(a) \/ ActStart(a) \/ ActHuman(a) \/ ActFails(a)
    BY <1>4, <2>1, SameBriefsStayFresh DEF ActAsk, ActStart, ActHuman, ActFails, dbVars, turnVars
  <2>2. CASE ActSlot(a)
    <3>1. PICK row : row = [rev |-> LatestRev + 1, data |-> LatestData \cup {<<a, "form">>}]
      OBVIOUS
    <3>2. row.rev = LatestRev + 1 /\ LatestData \subseteq row.data
      BY <3>1
    <3>3. row \in Brief
      BY <3>1, LatestIsGreatest, LatestDataType DEF Brief, Edits
    <3>4. briefs' = briefs \cup {row}
      BY <2>2, <3>1 DEF ActSlot
    <3>5. BriefsStayFresh
      BY <3>2, <3>3, <3>4, NextRevisionIsFresh, SaveRow
    <3>. QED BY <1>4, <2>2, <3>5 DEF ActSlot, turnVars
  <2>. QED BY <1>6, <2>1, <2>2 DEF ActionStep
<1>7. ASSUME NEW e \in Editors, EditorStep(e) PROVE BriefInv'
  <2>1. CASE PutBriefRead(e)
    BY <1>1, <1>2, <2>1, NextDraftIsFresh, SameBriefsStayFresh DEF PutBriefRead, dbVars, turnVars
  <2>2. CASE PutBriefSave(e)
    <3>1. BriefsStayFresh
      BY <1>1, <2>2, SaveDraft, SameBriefsStayFresh DEF PutBriefSave
    <3>. QED BY <1>4, <2>2, <3>1 DEF PutBriefSave, turnVars
  <2>. QED BY <1>7, <2>1, <2>2 DEF EditorStep
<1>8. ASSUME NEW r \in Requests, RequestStep(r) PROVE BriefInv'
  BY <1>4, <1>8, SameBriefsStayFresh DEF RequestStep, RequestLookup, RequestCheckBrief,
     RequestCommit, dbVars, turnVars, formVars
<1>9. ASSUME NEW s \in Staff, StaffStep(s) PROVE BriefInv'
  BY <1>4, <1>9, SameBriefsStayFresh DEF StaffStep, TakeLoad, ReleaseLoad, SpeakLoad, Load,
     TakeSave, ReleaseSave, SpeakStore, SpeakSave, dbVars, turnVars, formVars
<1>10. CASE Crash
  <2>1. \A u \in Turns : pipePc'[u] = "idle" /\ turnPc'[u] # "racing"
    BY <1>10 DEF Crash
  <2>. QED BY <1>2, <1>10, <2>1, SameBriefsStayFresh DEF Crash, dbVars
<1>. QED BY <1>3, <1>5, <1>6, <1>7, <1>8, <1>9, <1>10 DEF Next

\* Without an LLM pipeline, turns, quick actions and PUT /brief calls that read the
\* brief before they save it never overwrite an edit they had not seen: the unique
\* revision turns every such race into an error of one of them.
THEOREM NoEditIsLost == ASSUME ScriptMode PROVE Spec => []NoLostEdit
<1>1. Init => BriefInv
  <2>. SUFFICES ASSUME Init PROVE BriefInv OBVIOUS
  <2>1. \A rows : Fresh(NoDraft, rows)
    BY DEF NoDraft, Drafted, NoRevision, Fresh
  <2>. QED BY <2>1 DEF Init, BriefInv, Complete, Revs
<1>2. TypeInv /\ BriefInv /\ [Next]_vars /\ TypeInv' => BriefInv'
  BY BriefStep
<1>3. BriefInv => NoLostEdit
  BY DEF BriefInv, Complete, NoLostEdit, Revs, Revisions
<1>. QED BY <1>1, <1>2, <1>3, TypeCorrect, PTL DEF Spec

-----------------------------------------------------------------------------
(* Taking a conversation over silences the turns that were already running *)

LEMMA TakenStepIsSilent ==
  ASSUME TypeInv, [Next]_vars, conv.human, NEW t \in Turns,
         turnPc'[t] # turnPc[t] \/ pipePc'[t] # pipePc[t]
  PROVE  /\ {m \in messages' : m.role = "ai"} = {m \in messages : m.role = "ai"}
         /\ briefs' = briefs /\ outbox' = outbox /\ conv'.state = conv.state
<1>. USE DEF turnVars
<1>1. CASE UNCHANGED vars
  BY <1>1 DEF vars
<1>2. ASSUME NEW u \in Turns, StoreForStaff(u)
      PROVE  /\ {m \in messages' : m.role = "ai"} = {m \in messages : m.role = "ai"}
             /\ briefs' = briefs /\ outbox' = outbox /\ conv'.state = conv.state
  <2>1. PICK row : row = CustomerMsg(u) OBVIOUS
  <2>2. row.role # "ai" BY <2>1 DEF CustomerMsg
  <2>3. messages' = messages \cup {row} BY <1>2, <2>1 DEF StoreForStaff
  <2>4. conv'.state = conv.state
    BY <1>2 DEF StoreForStaff, TypeInv, TypeOK, Conversation
  <2>. QED BY <1>2, <2>2, <2>3, <2>4 DEF StoreForStaff
<1>3. ASSUME NEW u \in Turns, PostMessage(u) \/ TurnStep(u) \/ PipelineStep(u), ~StoreForStaff(u)
      PROVE  UNCHANGED <<messages, briefs, outbox, conv>>
  BY <1>3 DEF PostMessage, TurnStep, PipelineStep, RejectDuplicate, StoreMessage,
     Understand, StopFlow, FlowAnswers, NoFlowAnswers, CommitTurn, ScriptedFallback,
     PipelineSettles, PipelineTimesOut, PipelineUnderstand, PipelineCommit, PipelineThrows,
     DropReply, RollBack, StoreReply, dbVars
<1>4. CASE \E u \in Turns : PostMessage(u) \/ TurnStep(u) \/ PipelineStep(u)
  BY <1>2, <1>3, <1>4
<1>5. CASE Crash
  BY <1>5 DEF Crash, dbVars
<1>6. CASE \/ \E a \in Actions : ActionStep(a)
           \/ \E e \in Editors : EditorStep(e)
           \/ \E r \in Requests : RequestStep(r)
           \/ \E s \in Staff : StaffStep(s)
  <2>1. UNCHANGED <<turnPc, pipePc>>
    BY <1>6 DEF ActionStep, ActAsk, ActStart, ActHuman, ActSlot, ActFails, EditorStep, PutBriefRead, PutBriefSave,
       RequestStep, RequestLookup, RequestCheckBrief, RequestCommit, StaffStep, TakeLoad,
       ReleaseLoad, SpeakLoad, Load, TakeSave, ReleaseSave, SpeakStore, SpeakSave
  <2>. QED BY <2>1
<1>. QED BY <1>1, <1>4, <1>5, <1>6 DEF Next

\* A turn that began before staff took the conversation over, or whose pipeline has
\* outlived its timer, stores no reply, brief, state or announcement afterwards.
THEOREM TakeoverSilences == Spec => TakeoverSilencesTurns
<1>1. TypeInv /\ [Next]_vars => [conv.human => \A t \in Turns :
         (turnPc'[t] # turnPc[t] \/ pipePc'[t] # pipePc[t]) =>
           /\ {m \in messages' : m.role = "ai"} = {m \in messages : m.role = "ai"}
           /\ briefs' = briefs /\ outbox' = outbox /\ conv'.state = conv.state]_vars
  BY TakenStepIsSilent
<1>. QED BY <1>1, TypeCorrect, PTL DEF Spec, TakeoverSilencesTurns
-----------------------------------------------------------------------------
(***************************************************************************)
(* Theorems about the answers of ChatConversation: to retries of messages  *)
(* and of requests, and after a pipeline that failed.                      *)
(***************************************************************************)


\* A turn that works on an answer.
Working == {"stored", "understood", "flowing", "direct", "racing", "fallback", "answering"}

\* Inductive: whatever is done or said for a turn, its message was stored first, and of a
\* message and its retry only one was.
AnswersInv ==
  /\ \A t \in Turns : turnPc[t] \in Working \/ pipePc[t] # "idle" => CustomerMsg(t) \in messages
  /\ \A t \in Turns, m \in messages :
       m.role # "staff" /\ m.by = t => CustomerMsg(t) \in messages
  /\ \A t, u \in Turns : t # u /\ ClientMsg[t] = ClientMsg[u] =>
       ~ (CustomerMsg(t) \in messages /\ CustomerMsg(u) \in messages)

\* The second and third part of AnswersInv, for any messages.
Backed(rows) ==
  \A t \in Turns, m \in rows : m.role # "staff" /\ m.by = t => CustomerMsg(t) \in rows
Single(rows) ==
  \A t, u \in Turns : t # u /\ ClientMsg[t] = ClientMsg[u] =>
    ~ (CustomerMsg(t) \in rows /\ CustomerMsg(u) \in rows)

LEMMA InitAnswers == Init => AnswersInv
BY DEF Init, AnswersInv, Working

\* A reply for a turn whose message is stored keeps the messages backed and single.
LEMMA ReplyIsBacked ==
  ASSUME NEW rows, Backed(rows), Single(rows), NEW t \in Turns, CustomerMsg(t) \in rows,
         NEW route
  PROVE  Backed(rows \cup {AiMsg(t, route)}) /\ Single(rows \cup {AiMsg(t, route)})
<1> DEFINE new == AiMsg(t, route)
<1>1. new.role = "ai" /\ new.by = t
  BY DEF AiMsg
<1>2. \A u : CustomerMsg(u).role = "customer"
  BY DEF CustomerMsg
<1>3. \A u : CustomerMsg(u) # new
  <2> SUFFICES ASSUME NEW u, CustomerMsg(u) = new PROVE FALSE OBVIOUS
  <2>1. CustomerMsg(u).role = "customer" BY <1>2
  <2> QED BY <1>1, <2>1
<1>4. Backed(rows \cup {new})
  BY <1>1 DEF Backed
<1>5. Single(rows \cup {new})
  BY <1>3 DEF Single
<1> QED BY <1>4, <1>5

\* A message that is stored under a free client id keeps them so.
LEMMA MessageIsBacked ==
  ASSUME Backed(messages), Single(messages), NEW t \in Turns, ~StoredAlready(t)
  PROVE  Backed(messages \cup {CustomerMsg(t)}) /\ Single(messages \cup {CustomerMsg(t)})
<1> DEFINE new == CustomerMsg(t)
<1>1. new.by = t
  BY DEF CustomerMsg
<1>2. \A u : CustomerMsg(u).by = u
  BY DEF CustomerMsg
<1>3. \A u : CustomerMsg(u) = new => u = t
  BY <1>1, <1>2
<1>4. Backed(messages \cup {new})
  BY <1>1 DEF Backed
<1>5. Single(messages \cup {new})
  BY <1>3 DEF Single, StoredAlready
<1> QED BY <1>4, <1>5

\* What is said by others is not backed by a message: staff and quick actions.
LEMMA OtherIsBacked ==
  ASSUME NEW rows, Backed(rows), Single(rows), NEW m,
         m.role = "staff" \/ m.by \notin Turns, m.role # "customer"
  PROVE  Backed(rows \cup {m}) /\ Single(rows \cup {m})
<1>1. \A u : CustomerMsg(u).role = "customer"
  BY DEF CustomerMsg
<1>2. \A u : CustomerMsg(u) # m
  BY <1>1
<1> QED BY <1>2 DEF Backed, Single

\* A step of a turn: the turn works only on a stored message.
LEMMA TurnKeepsAnswers ==
  ASSUME TypeInv, AnswersInv, NEW t \in Turns, PostMessage(t) \/ TurnStep(t)
  PROVE  AnswersInv'
<1>1. Backed(messages) /\ Single(messages)
  BY DEF AnswersInv, Backed, Single
<1>2. turnPc \in [Turns -> TurnPcs] /\ pipePc \in [Turns -> PipePcs]
  BY DEF TypeInv, TypeOK
<1>3. ASSUME messages \subseteq messages', Backed(messages'), Single(messages'),
             \A u \in Turns \ {t} : turnPc'[u] = turnPc[u] /\ pipePc'[u] = pipePc[u],
             turnPc'[t] \in Working \/ pipePc'[t] # "idle" => CustomerMsg(t) \in messages'
      PROVE  AnswersInv'
  BY <1>3 DEF AnswersInv, Backed, Single
<1>4. CASE UNCHANGED <<messages, pipePc>> /\ \E x : turnPc' = [turnPc EXCEPT ![t] = x] /\
             (x \in Working => turnPc[t] \in Working)
  BY <1>1, <1>2, <1>3, <1>4 DEF AnswersInv
<1>5. CASE StoreForStaff(t) \/ StoreMessage(t)
  <2>1. messages' = messages \cup {CustomerMsg(t)} /\ ~StoredAlready(t) /\ pipePc' = pipePc
    BY <1>5 DEF StoreForStaff, StoreMessage
  <2>2. \A u \in Turns \ {t} : turnPc'[u] = turnPc[u]
    BY <1>2, <1>5 DEF StoreForStaff, StoreMessage
  <2>3. Backed(messages') /\ Single(messages')
    BY <1>1, <2>1, MessageIsBacked
  <2> QED BY <1>3, <2>1, <2>2, <2>3
<1>6. CASE StopFlow(t) \/ NoFlowAnswers(t)
  <2>1. PICK route : /\ turnPc' = [turnPc EXCEPT ![t] = route]
                     /\ pipePc' = [pipePc EXCEPT ![t] = IF route = "racing" THEN "running" ELSE @]
    BY <1>6 DEF StopFlow, NoFlowAnswers, Route
  <2>2. turnPc[t] \in Working /\ messages' = messages
    BY <1>6 DEF StopFlow, NoFlowAnswers, Working
  <2> QED BY <1>1, <1>2, <1>3, <2>1, <2>2 DEF AnswersInv
<1>7. CASE CommitTurn(t)
  <2>1. CustomerMsg(t) \in messages /\ pipePc' = pipePc
    BY <1>7 DEF AnswersInv, CommitTurn, Working
  <2>2. \A u \in Turns \ {t} : turnPc'[u] = turnPc[u]
    BY <1>2, <1>7 DEF CommitTurn
  <2>3. CASE messages' = messages
    BY <1>1, <1>3, <2>1, <2>2, <2>3
  <2>4. CASE messages' = messages \cup {AiMsg(t, MainRoute(t))}
    <3>1. Backed(messages') /\ Single(messages')
      BY <1>1, <2>1, <2>4, ReplyIsBacked
    <3> QED BY <1>3, <2>1, <2>2, <2>4, <3>1
  <2> QED BY <1>7, <2>3, <2>4 DEF CommitTurn, DropReply, RollBack, StoreReply, SaveReply, dbVars
<1>8. CASE PostMessage(t) \/ RejectDuplicate(t)
  BY <1>4, <1>8 DEF PostMessage, RejectDuplicate, dbVars, Working
<1>9. CASE Understand(t) \/ FlowAnswers(t) \/ ScriptedFallback(t) \/ PipelineTimesOut(t)
  BY <1>4, <1>9 DEF Understand, FlowAnswers, ScriptedFallback, PipelineTimesOut, dbVars, Working
<1>10. CASE PipelineSettles(t)
  BY <1>4, <1>10 DEF PipelineSettles, dbVars, Working
<1> QED BY <1>5, <1>6, <1>7, <1>8, <1>9, <1>10 DEF TurnStep

\* A step of the LLM pipeline of a turn.
LEMMA PipelineKeepsAnswers ==
  ASSUME TypeInv, AnswersInv, NEW t \in Turns, PipelineStep(t)
  PROVE  AnswersInv'
<1>1. Backed(messages) /\ Single(messages) /\ CustomerMsg(t) \in messages /\ turnPc' = turnPc
  BY DEF AnswersInv, Backed, Single, PipelineStep, PipelineUnderstand, PipelineCommit,
     PipelineThrows
<1>2. \A u \in Turns \ {t} : pipePc'[u] = pipePc[u]
  BY DEF TypeInv, TypeOK, PipelineStep, PipelineUnderstand, PipelineCommit, PipelineThrows
<1>3. messages' = messages \/ messages' = messages \cup {AiMsg(t, "pipeline")}
  BY DEF PipelineStep, PipelineUnderstand, PipelineCommit, PipelineThrows, DropReply, RollBack,
     StoreReply, SaveReply, dbVars
<1>4. Backed(messages') /\ Single(messages') /\ messages \subseteq messages'
  BY <1>1, <1>3, ReplyIsBacked
<1> QED BY <1>1, <1>2, <1>4 DEF AnswersInv, Backed, Single

\* A step of anybody else, or a crash.
LEMMA OthersKeepAnswers ==
  ASSUME TypeInv, AnswersInv,
         \/ \E a \in Actions : ActionStep(a)
         \/ \E e \in Editors : EditorStep(e)
         \/ \E r \in Requests : RequestStep(r)
         \/ \E s \in Staff : StaffStep(s)
         \/ Crash
  PROVE  AnswersInv'
<1>1. Backed(messages) /\ Single(messages)
  BY DEF AnswersInv, Backed, Single
<1>2. ASSUME messages \subseteq messages', Backed(messages'), Single(messages'),
             \A t \in Turns : turnPc'[t] \in Working \/ pipePc'[t] # "idle"
                                => turnPc[t] \in Working \/ pipePc[t] # "idle"
      PROVE  AnswersInv'
  BY <1>2 DEF AnswersInv, Backed, Single
<1>3. CASE Crash
  <2>1. \A t \in Turns : turnPc'[t] \in Working \/ pipePc'[t] # "idle"
                           => turnPc[t] \in Working \/ pipePc[t] # "idle"
    BY <1>3 DEF Crash, Working
  <2>2. messages' = messages
    BY <1>3 DEF Crash, dbVars
  <2> QED BY <1>1, <1>2, <2>1, <2>2
<1>4. CASE \E a \in Actions : ActionStep(a)
  <2>1. PICK a \in Actions : ActionStep(a) BY <1>4
  <2>2. /\ messages' = messages \/ messages' = messages \cup {AiMsg(a, "action")}
        /\ UNCHANGED <<turnPc, pipePc>>
    BY <2>1 DEF ActionStep, ActAsk, ActStart, ActHuman, ActSlot, ActFails, turnVars, dbVars
  <2>3. AiMsg(a, "action").role = "ai" /\ AiMsg(a, "action").by \notin Turns
    BY CallersAssumption DEF AiMsg
  <2>4. Backed(messages') /\ Single(messages')
    BY <1>1, <2>2, <2>3, OtherIsBacked
  <2> QED BY <1>2, <2>2, <2>4
<1>5. CASE \E s \in Staff : StaffStep(s)
  <2>1. PICK s \in Staff : StaffStep(s) BY <1>5
  <2>2. messages' = messages \/ messages' = messages \cup {StaffMsg(s)}
    BY <2>1 DEF StaffStep, TakeLoad, ReleaseLoad, SpeakLoad, Load, TakeSave, ReleaseSave,
       SpeakStore, SpeakSave, dbVars
  <2>3. UNCHANGED turnVars
    BY <2>1 DEF StaffStep, TakeLoad, ReleaseLoad, SpeakLoad, Load, TakeSave, ReleaseSave,
       SpeakStore, SpeakSave
  <2>4. StaffMsg(s).role = "staff"
    BY DEF StaffMsg
  <2>5. Backed(messages') /\ Single(messages')
    BY <1>1, <2>2, <2>4, OtherIsBacked
  <2> QED BY <1>2, <2>2, <2>3, <2>5 DEF turnVars
<1>6. CASE (\E e \in Editors : EditorStep(e)) \/ \E r \in Requests : RequestStep(r)
  <2>1. messages' = messages /\ UNCHANGED turnVars
    BY <1>6 DEF EditorStep, PutBriefRead, PutBriefSave, RequestStep, RequestLookup,
       RequestCheckBrief, RequestCommit, dbVars
  <2> QED BY <1>1, <1>2, <2>1 DEF turnVars
<1> QED BY <1>3, <1>4, <1>5, <1>6

\* A message and its retry are stored once and answered by one turn only (uq_chatbot_messages_
\* conv_client_msg, handleTurn), whatever pipelines outlive their timers and processes stop.
THEOREM RetriesAreAnsweredOnce == Spec => []RetryIsAnsweredOnce
<1>1. TypeInv /\ AnswersInv /\ [Next]_vars => AnswersInv'
  <2> SUFFICES ASSUME TypeInv, AnswersInv, [Next]_vars PROVE AnswersInv' OBVIOUS
  <2>1. CASE UNCHANGED vars
    BY <2>1 DEF AnswersInv, vars, dbVars, turnVars
  <2>2. CASE Next
    BY <2>2, TurnKeepsAnswers, PipelineKeepsAnswers, OthersKeepAnswers DEF Next
  <2> QED BY <2>1, <2>2
<1>2. AnswersInv => RetryIsAnsweredOnce
  BY DEF AnswersInv, RetryIsAnsweredOnce
<1> QED BY <1>1, <1>2, InitAnswers, TypeCorrect, PTL DEF Spec

-----------------------------------------------------------------------------
(* Requests *)

\* Two requests never share an idempotency key (createRequest): the look-up before the
\* transaction proves nothing, the unique key decides.
THEOREM KeysAreUnique == Spec => []OneRequestPerKey
<1>1. Init => OneRequestPerKey
  BY DEF Init, OneRequestPerKey
<1>2. OneRequestPerKey /\ [Next]_vars => OneRequestPerKey'
  <2> SUFFICES ASSUME OneRequestPerKey, [Next]_vars PROVE OneRequestPerKey' OBVIOUS
  <2>1. CASE \E r \in Requests : RequestCommit(r) /\ ~KeyTaken(r)
    <3>1. PICK r \in Requests : RequestCommit(r) /\ ~KeyTaken(r) BY <2>1
    <3> DEFINE new == [key |-> RequestKey[r], rev |-> requestRev[r], by |-> r]
    <3>2. requests' = requests \cup {new} BY <3>1 DEF RequestCommit
    <3>3. new.key = RequestKey[r] OBVIOUS
    <3>4. \A q \in requests : q.key # new.key BY <3>1, <3>3 DEF KeyTaken
    <3> HIDE DEF new
    <3> QED BY <3>2, <3>4 DEF OneRequestPerKey
  <2>2. CASE ~ \E r \in Requests : RequestCommit(r) /\ ~KeyTaken(r)
    <3>1. requests' = requests
      <4>1. CASE UNCHANGED vars
        BY <4>1 DEF vars, dbVars
      <4>2. CASE \E t \in Turns : PostMessage(t) \/ TurnStep(t) \/ PipelineStep(t)
        BY <4>2 DEF PostMessage, TurnStep, RejectDuplicate, StoreForStaff, StoreMessage, Understand,
           StopFlow, FlowAnswers, NoFlowAnswers, CommitTurn, ScriptedFallback, PipelineSettles,
           PipelineTimesOut, PipelineStep, PipelineUnderstand, PipelineCommit, PipelineThrows,
           DropReply, RollBack, StoreReply, SaveReply, dbVars
      <4>3. CASE (\E a \in Actions : ActionStep(a)) \/ \E e \in Editors : EditorStep(e)
        BY <4>3 DEF ActionStep, ActAsk, ActStart, ActHuman, ActSlot, ActFails, EditorStep, PutBriefRead, PutBriefSave,
           dbVars
      <4>4. CASE \E r \in Requests : RequestStep(r)
        BY <2>2, <4>4 DEF RequestStep, RequestLookup, RequestCheckBrief, RequestCommit, dbVars
      <4>5. CASE (\E s \in Staff : StaffStep(s)) \/ Crash
        BY <4>5 DEF StaffStep, TakeLoad, ReleaseLoad, SpeakLoad, Load, TakeSave, ReleaseSave,
           SpeakStore, SpeakSave, Crash, dbVars
      <4> QED BY <4>1, <4>2, <4>3, <4>4, <4>5 DEF Next
    <3> QED BY <3>1 DEF OneRequestPerKey
  <2> QED BY <2>1, <2>2
<1> QED BY <1>1, <1>2, PTL DEF Spec

-----------------------------------------------------------------------------
(* Pipelines that fail *)

\* Inductive: a pipeline is started once, by a turn that has understood, and until it has
\* committed nothing is said in its name.
FailureInv ==
  \A t \in Turns :
    /\ turnPc[t] \in {"idle", "checked", "stored", "understood"} => pipePc[t] = "idle"
    /\ pipePc[t] # "committed" => AiMsg(t, "pipeline") \notin messages

\* Only the pipeline of a turn speaks as it.
LEMMA SpeaksForItself ==
  /\ \A t, u, route : AiMsg(u, route) = AiMsg(t, "pipeline") => u = t /\ route = "pipeline"
  /\ \A t, u : CustomerMsg(u) # AiMsg(t, "pipeline")
  /\ \A t, s : StaffMsg(s) # AiMsg(t, "pipeline")
<1>1. \A u, route : AiMsg(u, route).by = u /\ AiMsg(u, route).route = route
                    /\ AiMsg(u, route).role = "ai"
  BY DEF AiMsg
<1>2. \A u : CustomerMsg(u).role = "customer" /\ StaffMsg(u).role = "staff"
  BY DEF CustomerMsg, StaffMsg
<1>3. \A t, u, route : AiMsg(u, route) = AiMsg(t, "pipeline") => u = t /\ route = "pipeline"
  BY <1>1
<1>4. \A t, u : CustomerMsg(u) # AiMsg(t, "pipeline") /\ StaffMsg(u) # AiMsg(t, "pipeline")
  <2> SUFFICES ASSUME NEW t, NEW u
               PROVE CustomerMsg(u) # AiMsg(t, "pipeline") /\ StaffMsg(u) # AiMsg(t, "pipeline")
    OBVIOUS
  <2>1. AiMsg(t, "pipeline").role = "ai" BY <1>1
  <2>2. CustomerMsg(u).role = "customer" /\ StaffMsg(u).role = "staff" BY <1>2
  <2> QED BY <2>1, <2>2
<1> QED BY <1>3, <1>4

LEMMA TurnKeepsFailure ==
  ASSUME TypeInv, FailureInv, NEW t \in Turns, PostMessage(t) \/ TurnStep(t)
  PROVE  FailureInv'
<1>1. turnPc \in [Turns -> TurnPcs] /\ pipePc \in [Turns -> PipePcs]
  BY DEF TypeInv, TypeOK
<1>2. \A u \in Turns : AiMsg(u, "pipeline") \in messages' => AiMsg(u, "pipeline") \in messages
  <2>1. CASE messages' = messages
    BY <2>1
  <2>2. CASE messages' = messages \cup {CustomerMsg(t)}
    BY <2>2, SpeaksForItself
  <2>3. CASE CommitTurn(t) /\ messages' = messages \cup {AiMsg(t, MainRoute(t))}
    <3>1. MainRoute(t) # "pipeline"
      BY <2>3 DEF CommitTurn, MainRoute
    <3> QED BY <2>3, <3>1, SpeaksForItself
  <2> QED BY <2>1, <2>2, <2>3 DEF PostMessage, TurnStep, RejectDuplicate, StoreForStaff,
       StoreMessage, Understand, StopFlow, FlowAnswers, NoFlowAnswers, CommitTurn,
       ScriptedFallback, PipelineSettles, PipelineTimesOut, DropReply, RollBack, StoreReply,
       SaveReply, dbVars
<1>3. CASE StopFlow(t) \/ NoFlowAnswers(t)
  <2>1. PICK route \in Routes(t) :
          /\ turnPc' = [turnPc EXCEPT ![t] = route]
          /\ pipePc' = [pipePc EXCEPT ![t] = IF route = "racing" THEN "running" ELSE @]
    BY <1>3 DEF StopFlow, NoFlowAnswers, Route
  <2>2. route \in {"fallback", "direct", "racing"}
    BY ModeAssumption DEF Routes, Modes
  <2>3. pipePc[t] = "idle" /\ AiMsg(t, "pipeline") \notin messages
    BY <1>3 DEF StopFlow, NoFlowAnswers, FailureInv
  <2> QED BY <1>1, <1>2, <2>1, <2>2, <2>3 DEF FailureInv
<1>4. CASE ~ (StopFlow(t) \/ NoFlowAnswers(t))
  <2>1. pipePc' = pipePc
    BY <1>4 DEF PostMessage, TurnStep, RejectDuplicate, StoreForStaff, StoreMessage, Understand,
       FlowAnswers, CommitTurn, ScriptedFallback, PipelineSettles, PipelineTimesOut
  <2>2. \A u \in Turns : turnPc'[u] \in {"idle", "checked", "stored", "understood"}
                           => turnPc[u] \in {"idle", "checked", "stored", "understood"}
    BY <1>1, <1>4 DEF PostMessage, TurnStep, RejectDuplicate, StoreForStaff, StoreMessage, Understand,
       FlowAnswers, CommitTurn, ScriptedFallback, PipelineSettles, PipelineTimesOut
  <2> QED BY <1>2, <2>1, <2>2 DEF FailureInv
<1> QED BY <1>3, <1>4

LEMMA PipelineKeepsFailure ==
  ASSUME TypeInv, FailureInv, NEW t \in Turns, PipelineStep(t)
  PROVE  FailureInv'
<1>1. pipePc \in [Turns -> PipePcs]
  BY DEF TypeInv, TypeOK
<1>2. turnPc' = turnPc /\ pipePc[t] \in {"running", "composing"}
  BY DEF PipelineStep, PipelineUnderstand, PipelineCommit, PipelineThrows
<1>3. CASE messages' = messages /\ \E x : pipePc' = [pipePc EXCEPT ![t] = x]
  BY <1>1, <1>2, <1>3 DEF FailureInv
<1>4. CASE /\ messages' = messages \cup {AiMsg(t, "pipeline")}
           /\ pipePc' = [pipePc EXCEPT ![t] = "committed"]
  BY <1>1, <1>2, <1>4, SpeaksForItself DEF FailureInv
<1> QED BY <1>3, <1>4 DEF PipelineStep, PipelineUnderstand, PipelineCommit, PipelineThrows,
     DropReply, RollBack, StoreReply, SaveReply, dbVars

LEMMA OthersKeepFailure ==
  ASSUME TypeInv, FailureInv,
         \/ \E a \in Actions : ActionStep(a)
         \/ \E e \in Editors : EditorStep(e)
         \/ \E r \in Requests : RequestStep(r)
         \/ \E s \in Staff : StaffStep(s)
         \/ Crash
  PROVE  FailureInv'
<1>1. ASSUME UNCHANGED <<turnPc, pipePc>>,
             \A u \in Turns : AiMsg(u, "pipeline") \in messages' => AiMsg(u, "pipeline") \in messages
      PROVE  FailureInv'
  BY <1>1 DEF FailureInv
<1>2. CASE Crash
  BY <1>2 DEF Crash, FailureInv, Finished, dbVars
<1>3. CASE \E a \in Actions : ActionStep(a)
  <2>1. PICK a \in Actions : /\ messages' = messages \/ messages' = messages \cup {AiMsg(a, "action")}
                             /\ UNCHANGED <<turnPc, pipePc>>
    BY <1>3 DEF ActionStep, ActAsk, ActStart, ActHuman, ActSlot, ActFails, turnVars, dbVars
  <2> QED BY <1>1, <2>1, SpeaksForItself
<1>4. CASE \E s \in Staff : StaffStep(s)
  <2>1. PICK s \in Staff : StaffStep(s) BY <1>4
  <2>2. messages' = messages \/ messages' = messages \cup {StaffMsg(s)}
    BY <2>1 DEF StaffStep, TakeLoad, ReleaseLoad, SpeakLoad, Load, TakeSave, ReleaseSave,
       SpeakStore, SpeakSave, dbVars
  <2>3. UNCHANGED turnVars
    BY <2>1 DEF StaffStep, TakeLoad, ReleaseLoad, SpeakLoad, Load, TakeSave, ReleaseSave,
       SpeakStore, SpeakSave
  <2> QED BY <1>1, <2>2, <2>3, SpeaksForItself DEF turnVars
<1>5. CASE (\E e \in Editors : EditorStep(e)) \/ \E r \in Requests : RequestStep(r)
  <2>1. messages' = messages /\ UNCHANGED turnVars
    BY <1>5 DEF EditorStep, PutBriefRead, PutBriefSave, RequestStep, RequestLookup,
       RequestCheckBrief, RequestCommit, dbVars
  <2> QED BY <1>1, <2>1 DEF turnVars
<1> QED BY <1>2, <1>3, <1>4, <1>5

\* A pipeline that failed, also after its timer, has stored no reply, so that the scripted
\* fallback does not answer twice (executePipeline, runScriptedFallback).
THEOREM FailedPipelinesAreSilent == Spec => []FailedPipelineLeavesNothing
<1>1. Init => FailureInv
  BY DEF Init, FailureInv
<1>2. TypeInv /\ FailureInv /\ [Next]_vars => FailureInv'
  <2> SUFFICES ASSUME TypeInv, FailureInv, [Next]_vars PROVE FailureInv' OBVIOUS
  <2>1. CASE UNCHANGED vars
    BY <2>1 DEF FailureInv, vars, dbVars, turnVars
  <2>2. CASE Next
    BY <2>2, TurnKeepsFailure, PipelineKeepsFailure, OthersKeepFailure DEF Next
  <2> QED BY <2>1, <2>2
<1>3. FailureInv => FailedPipelineLeavesNothing
  BY DEF FailureInv, FailedPipelineLeavesNothing
<1> QED BY <1>1, <1>2, <1>3, TypeCorrect, PTL DEF Spec
=============================================================================
