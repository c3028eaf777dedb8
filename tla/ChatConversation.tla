------------------------- MODULE ChatConversation -------------------------
(***************************************************************************)
(* One chatbot conversation and everybody who writes to it: customer turns *)
(* (POST /messages) with the LLM pipeline each of them may race against a  *)
(* timer, quick actions (POST /actions), brief edits (PUT /brief), quote   *)
(* requests (POST /requests) and the staff inbox (take, release, speak).   *)
(*                                                                         *)
(* A database transaction that holds the FOR UPDATE lock of the            *)
(* conversation row is one action.  Statements outside such a transaction  *)
(* are actions of their own, so every other actor may run between them.    *)
(***************************************************************************)
EXTENDS Integers, FiniteSets

CONSTANTS
  Turns,           \* POST /messages calls, retries included
  ClientMsg,       \* client_msg_id of each turn; a retry repeats it
  Texts,           \* what the understanders make of a text
  Actions,         \* POST /actions calls
  Editors,         \* PUT /brief calls
  Requests,        \* POST /requests calls
  RequestKey,      \* idempotency_key of each request
  Staff,           \* users of the inbox
  NoStaff,         \* assigned_user_id IS NULL
  Mode,            \* config.llm.mode, or "scripted" for the scripted provider
  FlowsPublished,  \* some enabled flow is published
  Channels,        \* {"inapp"}, or {"inapp", "email"} when notify_emails is set
  MayCrash         \* the server process may stop and be started again

Modes == {"scripted", "script_only", "script_first", "llm_first"}
Kinds == {"plain", "human", "complaint"}

ASSUME ModeAssumption == Mode \in Modes
ASSUME FlowAssumption == FlowsPublished \in BOOLEAN
ASSUME ChannelAssumption == "inapp" \in Channels
ASSUME TextAssumption == Texts \subseteq [kind : Kinds, slots : BOOLEAN]
ASSUME StaffAssumption == NoStaff \notin Staff
ASSUME CallersAssumption == Turns \cap Actions = {}
ASSUME CrashAssumption == MayCrash \in BOOLEAN

VARIABLES
  conv,       \* row of chatbot_conversations
  briefs,     \* rows of chatbot_briefs
  messages,   \* customer, ai and staff rows of chatbot_messages
  outbox,     \* rows of chatbot_outbox, whatever their delivery status
  flowState,  \* row of chatbot_flow_states of this conversation
  requests,   \* rows of chatbot_requests
  turnPc,     \* how far handleTurn got, for each turn
  text,       \* the message each turn carries
  draft,      \* what the turn is about to commit
  pipePc,     \* how far executePipeline's pipelineWork got
  pipeDraft,  \* what the pipeline is about to commit
  seenEpoch,  \* epoch of the flow when the turn or action consulted it
  formPc,     \* progress of PUT /brief and POST /actions calls
  formDraft,  \* the brief a PUT /brief call is about to save
  requestPc,  \* progress of POST /requests calls
  requestRev, \* brief revision a request was validated against
  staffPc,    \* progress of an inbox operation
  snapshot,   \* the conversation entity an inbox operation has loaded
  flowEpoch   \* history: how often the running flow was stopped for safety

turnVars  == <<turnPc, text, draft, pipePc, pipeDraft, seenEpoch>>
formVars  == <<formPc, formDraft>>
reqVars   == <<requestPc, requestRev>>
staffVars == <<staffPc, snapshot>>
dbVars    == <<conv, briefs, messages, outbox, flowState, requests>>
histVars  == <<flowEpoch>>
vars == <<dbVars, turnVars, formVars, reqVars, staffVars, histVars>>

-----------------------------------------------------------------------------
(* Data *)

ConvStates == {"new", "waiting_sales", "request_review", "submitted"}
NoTarget == "none"
\* The states a reply may move the conversation to.
Targets == {NoTarget, "request_review", "waiting_sales"}
NoRevision == 0

Callers == Turns \cup Actions \cup Editors \cup Requests

\* A brief is the set of edits merged into it; each edit sets a field of its own.
Edits == (Turns \X {"rule", "llm"}) \cup ((Editors \cup Actions) \X {"form"})

Conversation ==
  [human : BOOLEAN, state : ConvStates, unread : Nat, owner : Staff \cup {NoStaff}]
Brief == [rev : Nat \ {0}, data : SUBSET Edits]
Draft == [rev : Nat, data : SUBSET Edits,
          target : Targets, flow : {"keep", "run", "end"}]
Message == [role : {"customer", "ai", "staff"}, by : Callers \cup Staff,
            route : {"none", "direct", "flow", "pipeline", "fallback", "action"}]
Event == [event : {"human.requested", "request.created"}, channel : Channels,
          by : Callers]
Flow == [running : BOOLEAN, epoch : Nat]
Request == [key : {RequestKey[r] : r \in Requests}, rev : Nat, by : Requests]

TurnPcs == {"idle", "checked", "stored", "understood", "flowing", "direct", "racing",
            "fallback", "answering", "replied", "silent", "replayed", "error", "lost"}
Finished == {"replied", "silent", "replayed", "error", "lost"}
PipePcs == {"idle", "running", "composing", "committed", "dropped", "failed"}

Drafted(rev, data) == [rev |-> rev, data |-> data, target |-> NoTarget, flow |-> "keep"]
NoDraft == Drafted(NoRevision, {})
NoFlow  == [running |-> FALSE, epoch |-> 0]
NewConversation == [human |-> FALSE, state |-> "new", unread |-> 0, owner |-> NoStaff]

CustomerMsg(t) == [role |-> "customer", by |-> t, route |-> "none"]
AiMsg(c, route) == [role |-> "ai", by |-> c, route |-> route]
StaffMsg(s) == [role |-> "staff", by |-> s, route |-> "none"]
Rows(event, c) == {[event |-> event, channel |-> ch, by |-> c] : ch \in Channels}

Revisions == {b.rev : b \in briefs}
\* findOne ... ORDER BY revision DESC
LatestRev == CHOOSE r \in Revisions \cup {0} : \A q \in Revisions : q <= r
LatestData == UNION {b.data : b \in {c \in briefs : c.rev = LatestRev}}

\* The next revision with the edit merged in; none when it would change nothing.
NextDraft(edit, changes) ==
  IF changes /\ edit \notin LatestData
  THEN Drafted(LatestRev + 1, LatestData \cup {edit})
  ELSE Drafted(NoRevision, LatestData)

RowOf(d) == IF d.rev = NoRevision THEN {} ELSE {[rev |-> d.rev, data |-> d.data]}
\* Mutation: the table has no unique index.
NoClash(d) == FALSE

\* uq_chatbot_briefs_conv_revision
BriefClash(d) == d.rev # NoRevision /\ d.rev \in Revisions

Special(t) == text[t].kind \in {"human", "complaint"}
StoredAlready(t) == \E u \in Turns : ClientMsg[u] = ClientMsg[t] /\ CustomerMsg(u) \in messages

-----------------------------------------------------------------------------
(* The transaction every AI reply of a turn goes through *)

\* Sales took over: the reply, the brief, the state and the events are dropped.
DropReply ==
  /\ conv.human
  /\ UNCHANGED dbVars

\* The unique constraint on the brief revision rolls the transaction back.
RollBack(d) ==
  /\ ~conv.human
  /\ BriefClash(d)
  /\ UNCHANGED dbVars

NextFlow(t, d) ==
  CASE d.flow = "run" -> [running |-> TRUE, epoch |-> seenEpoch[t]]
    [] d.flow = "end" -> NoFlow
    [] OTHER -> flowState

SaveReply(t, route, d) ==
  /\ briefs' = briefs \cup RowOf(d)
  /\ conv' = [conv EXCEPT !.state = IF d.target = NoTarget THEN @ ELSE d.target]
  /\ outbox' = outbox \cup (IF d.target = "waiting_sales" THEN Rows("human.requested", t) ELSE {})
  \* an empty text, of the LLM or of an item of knowledge, is no message
  /\ \/ messages' = messages \cup {AiMsg(t, route)}
     \/ route \in {"direct", "pipeline"} /\ UNCHANGED messages
  /\ flowState' = NextFlow(t, d)
  /\ UNCHANGED requests

\* Mutations of the commit: no check of human_active; a commit that loses the outbox
\* rows and the flow position.
StoreReplyUnchecked(t, route, d) == ~BriefClash(d) /\ SaveReply(t, route, d)
StoreReplyUnannounced(t, route, d) ==
  /\ ~conv.human /\ ~BriefClash(d)
  /\ conv' = [conv EXCEPT !.state = IF d.target = NoTarget THEN @ ELSE d.target]
  /\ briefs' = briefs \cup RowOf(d)
  /\ messages' = messages \cup {AiMsg(t, route)}
  /\ UNCHANGED <<outbox, flowState, requests>>

StoreReply(t, route, d) ==
  /\ ~conv.human
  /\ ~BriefClash(d)
  /\ SaveReply(t, route, d)

-----------------------------------------------------------------------------
(* A customer turn: ChatbotConversationService.postMessage, then handleTurn *)

\* The idempotency check reads the stored messages before any lock is taken.
PostMessage(t) ==
  /\ turnPc[t] = "idle"
  /\ turnPc' = [turnPc EXCEPT ![t] = IF StoredAlready(t) THEN "replayed" ELSE "checked"]
  /\ UNCHANGED <<dbVars, text, draft, pipePc, pipeDraft, seenEpoch, formVars, reqVars, staffVars, histVars>>

\* uq_chatbot_messages_conv_client_msg: a retry that passed the check loses here.
RejectDuplicate(t) ==
  /\ turnPc[t] = "checked"
  /\ StoredAlready(t)
  /\ turnPc' = [turnPc EXCEPT ![t] = "error"]
  /\ UNCHANGED <<dbVars, text, draft, pipePc, pipeDraft, seenEpoch, formVars, reqVars, staffVars, histVars>>

\* Phase 1 while staff hold the conversation: keep the message, answer nothing.
StoreForStaff(t) ==
  /\ turnPc[t] = "checked"
  /\ ~StoredAlready(t)
  /\ conv.human
  /\ conv' = [conv EXCEPT !.unread = @ + 1]
  /\ messages' = messages \cup {CustomerMsg(t)}
  /\ turnPc' = [turnPc EXCEPT ![t] = "silent"]
  /\ UNCHANGED <<briefs, outbox, flowState, requests, text, draft, pipePc, pipeDraft,
                 seenEpoch, formVars, reqVars, staffVars, flowEpoch>>

\* Mutation: no unique index on client_msg_id.
StoreMessageTwice(t) ==
  /\ turnPc[t] = "checked"
  /\ ~conv.human
  /\ messages' = messages \cup {CustomerMsg(t)}
  /\ turnPc' = [turnPc EXCEPT ![t] = "stored"]
  /\ UNCHANGED <<conv, briefs, outbox, flowState, requests, text, draft, pipePc, pipeDraft,
                 seenEpoch, formVars, reqVars, staffVars, histVars>>

\* Phase 1 otherwise: keep the message and go on to answer it.
StoreMessage(t) ==
  /\ turnPc[t] = "checked"
  /\ ~StoredAlready(t)
  /\ ~conv.human
  /\ messages' = messages \cup {CustomerMsg(t)}
  /\ turnPc' = [turnPc EXCEPT ![t] = "stored"]
  /\ UNCHANGED <<conv, briefs, outbox, flowState, requests, text, draft, pipePc, pipeDraft,
                 seenEpoch, formVars, reqVars, staffVars, histVars>>

\* The lock is gone: read the latest brief and merge what the rules found.
Understand(t) ==
  /\ turnPc[t] = "stored"
  /\ draft' = [draft EXCEPT ![t] = NextDraft(<<t, "rule">>, text[t].slots)]
  /\ turnPc' = [turnPc EXCEPT ![t] = "understood"]
  /\ UNCHANGED <<dbVars, text, pipePc, pipeDraft, seenEpoch, formVars, reqVars, staffVars, histVars>>

\* Which branch of handleTurn answers a turn that no flow answers.
Routes(t) ==
  CASE Mode = "scripted" -> {"fallback"}
    [] Mode = "script_only" -> {"direct"}
    [] Mode = "script_first" -> IF Special(t) THEN {"direct"} ELSE {"direct", "racing", "fallback"}
    [] Mode = "llm_first" -> {"racing", "fallback"}

Route(t) ==
  \E route \in Routes(t) :
    /\ turnPc' = [turnPc EXCEPT ![t] = route]
    /\ pipePc' = [pipePc EXCEPT ![t] = IF route = "racing" THEN "running" ELSE @]
    /\ pipeDraft' = [pipeDraft EXCEPT ![t] = IF route = "racing" THEN draft[t] ELSE @]
    /\ draft' = [draft EXCEPT ![t].target =
                   IF route = "direct" /\ text[t].kind = "human" THEN "waiting_sales" ELSE @]

\* A complaint or a call for a human stops the running flow (clearState).
StopFlow(t) ==
  /\ turnPc[t] = "understood"
  /\ Special(t)
  /\ flowState' = NoFlow
  /\ flowEpoch' = flowEpoch + 1
  /\ Route(t)
  /\ UNCHANGED <<conv, briefs, messages, outbox, requests, text, seenEpoch,
                 formVars, reqVars, staffVars>>

\* handleText finds a branch or a keyword; the position is only saved at commit.
FlowAnswers(t) ==
  /\ turnPc[t] = "understood"
  /\ ~Special(t)
  /\ FlowsPublished
  /\ \E next \in {"run", "end"} : draft' = [draft EXCEPT ![t].flow = next]
  \* a keyword found after the running flow was left has deleted its row already
  /\ flowState' \in {flowState, NoFlow}
  /\ seenEpoch' = [seenEpoch EXCEPT ![t] = flowEpoch]
  /\ turnPc' = [turnPc EXCEPT ![t] = "flowing"]
  /\ UNCHANGED <<conv, briefs, messages, outbox, requests, text, pipePc, pipeDraft,
                 formVars, reqVars, staffVars, histVars>>

\* handleText finds nothing; it deletes the row of a flow the customer left, and
\* keeps it when the branch taken has no text to say.
NoFlowAnswers(t) ==
  /\ turnPc[t] = "understood"
  /\ ~Special(t)
  /\ flowState' \in {flowState, NoFlow}
  /\ Route(t)
  /\ UNCHANGED <<conv, briefs, messages, outbox, requests, text, seenEpoch,
                 formVars, reqVars, staffVars, histVars>>

MainRoute(t) == CASE turnPc[t] = "flowing" -> "flow"
                  [] turnPc[t] = "direct" -> "direct"
                  [] turnPc[t] = "answering" -> "fallback"

\* commitTurn called by handleTurn itself or by runScriptedFallback.
CommitTurn(t) ==
  /\ turnPc[t] \in {"flowing", "direct", "answering"}
  /\ \/ DropReply /\ turnPc' = [turnPc EXCEPT ![t] = "silent"]
     \/ RollBack(draft[t]) /\ turnPc' = [turnPc EXCEPT ![t] = "error"]
     \/ StoreReply(t, MainRoute(t), draft[t]) /\ turnPc' = [turnPc EXCEPT ![t] = "replied"]
  /\ UNCHANGED <<text, draft, pipePc, pipeDraft, seenEpoch, formVars, reqVars, staffVars, histVars>>

\* runScriptedFallback reads the brief again and merges the same text again.  The
\* scripted responder looks for a wish for a human with a pattern of its own.
ScriptedFallback(t) ==
  /\ turnPc[t] = "fallback"
  /\ \E target \in Targets :
       draft' = [draft EXCEPT ![t] = [NextDraft(<<t, "rule">>, text[t].slots) EXCEPT !.target = target]]
  /\ turnPc' = [turnPc EXCEPT ![t] = "answering"]
  /\ UNCHANGED <<dbVars, text, pipePc, pipeDraft, seenEpoch, formVars, reqVars, staffVars, histVars>>

-----------------------------------------------------------------------------
(* executePipeline: pipelineWork raced against a timer that cannot stop it *)

\* The revision the pipeline proposes: one more than the draft the turn passed to
\* it, or 1 when the turn passed none.
PipelineMerge(t, finds) ==
  IF finds
  THEN Drafted(pipeDraft[t].rev + 1, pipeDraft[t].data \cup {<<t, "llm">>})
  ELSE pipeDraft[t]

\* Answer of LLM #1: merged slots, and perhaps a wish for a human.
PipelineUnderstand(t) ==
  /\ pipePc[t] = "running"
  /\ \E finds \in BOOLEAN, target \in {NoTarget, "waiting_sales"} :
       pipeDraft' = [pipeDraft EXCEPT ![t] = [PipelineMerge(t, finds) EXCEPT !.target = target]]
  /\ pipePc' = [pipePc EXCEPT ![t] = "composing"]
  /\ UNCHANGED <<dbVars, turnPc, text, draft, seenEpoch, formVars, reqVars, staffVars, histVars>>

\* Mutation: the reply is saved outside the transaction that saves the brief.
PipelineCommitSplit(t) ==
  /\ pipePc[t] = "composing"
  /\ \/ DropReply /\ pipePc' = [pipePc EXCEPT ![t] = "dropped"]
     \/ /\ BriefClash(pipeDraft[t]) /\ ~conv.human
        /\ messages' = messages \cup {AiMsg(t, "pipeline")}
        /\ pipePc' = [pipePc EXCEPT ![t] = "failed"]
        /\ UNCHANGED <<conv, briefs, outbox, flowState, requests>>
     \/ StoreReply(t, "pipeline", pipeDraft[t]) /\ pipePc' = [pipePc EXCEPT ![t] = "committed"]
  /\ UNCHANGED <<turnPc, text, draft, pipeDraft, seenEpoch, formVars, reqVars, staffVars, histVars>>

\* Answer of LLM #2: validated and committed, whether or not the timer has fired.
PipelineCommit(t) ==
  /\ pipePc[t] = "composing"
  /\ \/ DropReply /\ pipePc' = [pipePc EXCEPT ![t] = "dropped"]
     \/ RollBack(pipeDraft[t]) /\ pipePc' = [pipePc EXCEPT ![t] = "failed"]
     \/ StoreReply(t, "pipeline", pipeDraft[t]) /\ pipePc' = [pipePc EXCEPT ![t] = "committed"]
  /\ UNCHANGED <<turnPc, text, draft, pipeDraft, seenEpoch, formVars, reqVars, staffVars, histVars>>

\* Either LLM call throws (429, 503, circuit open, bad JSON).
PipelineThrows(t) ==
  /\ pipePc[t] \in {"running", "composing"}
  /\ pipePc' = [pipePc EXCEPT ![t] = "failed"]
  /\ UNCHANGED <<dbVars, turnPc, text, draft, pipeDraft, seenEpoch, formVars, reqVars, staffVars, histVars>>

\* Promise.race settles with the pipeline's result, or its error starts the fallback.
PipelineSettles(t) ==
  /\ turnPc[t] = "racing"
  /\ turnPc' = [turnPc EXCEPT ![t] =
       CASE pipePc[t] = "committed" -> "replied"
         [] pipePc[t] = "dropped" -> "silent"
         [] pipePc[t] = "failed" -> "fallback"
         [] OTHER -> @]
  /\ pipePc[t] \in {"committed", "dropped", "failed"}
  /\ UNCHANGED <<dbVars, text, draft, pipePc, pipeDraft, seenEpoch, formVars, reqVars, staffVars, histVars>>

\* Mutation: the race has no timer.
NoTimer(t) == FALSE /\ UNCHANGED vars

\* Promise.race settles with the timer; pipelineWork goes on by itself.
PipelineTimesOut(t) ==
  /\ turnPc[t] = "racing"
  /\ turnPc' = [turnPc EXCEPT ![t] = "fallback"]
  /\ UNCHANGED <<dbVars, text, draft, pipePc, pipeDraft, seenEpoch, formVars, reqVars, staffVars, histVars>>

-----------------------------------------------------------------------------
(* Quick actions: each is one transaction under the conversation lock *)

\* 'start' asks startByAction for a flow before it takes the lock.
ActAsk(a) ==
  /\ formPc[a] = "idle"
  /\ seenEpoch' = [seenEpoch EXCEPT ![a] = flowEpoch]
  /\ formPc' = [formPc EXCEPT ![a] = "asked"]
  /\ UNCHANGED <<dbVars, turnPc, text, draft, pipePc, pipeDraft, formDraft, reqVars, staffVars,
                 histVars>>

\* It greets even while staff hold the conversation; only the flow waits.
ActStart(a) ==
  /\ formPc[a] = "asked"
  /\ messages' = messages \cup {AiMsg(a, "action")}
  /\ \/ flowState' = NoFlow
     \/ /\ FlowsPublished
        /\ ~conv.human
        /\ flowState' = [running |-> TRUE, epoch |-> seenEpoch[a]]
  /\ formPc' = [formPc EXCEPT ![a] = "saved"]
  /\ UNCHANGED <<conv, briefs, outbox, requests, turnVars, formDraft, reqVars, staffVars, histVars>>

ActHuman(a) ==
  /\ formPc[a] = "idle"
  /\ flowState' = NoFlow
  /\ flowEpoch' = flowEpoch + 1
  /\ conv' = [conv EXCEPT !.state = "waiting_sales"]
  /\ outbox' = outbox \cup Rows("human.requested", a)
  /\ messages' = messages \cup {AiMsg(a, "action")}
  /\ formPc' = [formPc EXCEPT ![a] = "saved"]
  /\ UNCHANGED <<briefs, requests, turnVars, formDraft, reqVars, staffVars>>

ActSlot(a) ==
  /\ formPc[a] = "idle"
  /\ briefs' = briefs \cup
       {[rev |-> LatestRev + 1, data |-> LatestData \cup {<<a, "form">>}]}
  /\ \E state \in {conv.state, "request_review"} : conv' = [conv EXCEPT !.state = state]
  /\ messages' = messages \cup {AiMsg(a, "action")}
  /\ formPc' = [formPc EXCEPT ![a] = "saved"]
  /\ UNCHANGED <<outbox, flowState, requests, turnVars, formDraft, reqVars, staffVars, histVars>>

\* The transaction fails, as when PUT /brief has saved the same revision since the
\* brief was read, and leaves nothing.
ActFails(a) ==
  /\ formPc[a] \in {"idle", "asked"}
  /\ formPc' = [formPc EXCEPT ![a] = "error"]
  /\ UNCHANGED <<dbVars, turnVars, formDraft, reqVars, staffVars, histVars>>

-----------------------------------------------------------------------------
(* PUT /brief: no transaction, only the unique revision guards the save *)

\* The client's base_revision is the latest one, else the call is refused (409).
PutBriefRead(e) ==
  /\ formPc[e] = "idle"
  /\ formDraft' = [formDraft EXCEPT ![e] = NextDraft(<<e, "form">>, TRUE)]
  /\ formPc' = [formPc EXCEPT ![e] = "read"]
  /\ UNCHANGED <<dbVars, turnVars, reqVars, staffVars, histVars>>

PutBriefSave(e) ==
  /\ formPc[e] = "read"
  /\ \/ /\ BriefClash(formDraft[e])
        /\ formPc' = [formPc EXCEPT ![e] = "error"]
        /\ UNCHANGED briefs
     \/ /\ ~BriefClash(formDraft[e])
        /\ formPc' = [formPc EXCEPT ![e] = "saved"]
        /\ briefs' = briefs \cup RowOf(formDraft[e])
  /\ UNCHANGED <<conv, messages, outbox, flowState, requests, turnVars, formDraft,
                 reqVars, staffVars, histVars>>

-----------------------------------------------------------------------------
(* POST /requests *)

\* Mutation: idempotency_key is not unique.
KeyNeverTaken(r) == FALSE

\* uq_chatbot_requests_idempotency_key
KeyTaken(r) == \E q \in requests : q.key = RequestKey[r]

\* A known idempotency_key is answered with the stored request.
RequestLookup(r) ==
  /\ requestPc[r] = "idle"
  /\ requestPc' = [requestPc EXCEPT ![r] = IF KeyTaken(r) THEN "replayed" ELSE "looked"]
  /\ UNCHANGED <<dbVars, turnVars, formVars, requestRev, staffVars, histVars>>

\* brief_revision must be the latest one, else the call is refused (409).
RequestCheckBrief(r) ==
  /\ requestPc[r] = "looked"
  /\ requestRev' = [requestRev EXCEPT ![r] = LatestRev]
  /\ requestPc' = [requestPc EXCEPT ![r] = "checked"]
  /\ UNCHANGED <<dbVars, turnVars, formVars, staffVars, histVars>>

\* One transaction, but it neither locks nor reads the conversation or the brief.
RequestCommit(r) ==
  /\ requestPc[r] = "checked"
  /\ \/ /\ KeyTaken(r)
        /\ requestPc' = [requestPc EXCEPT ![r] = "error"]
        /\ UNCHANGED <<conv, outbox, requests>>
     \/ /\ ~KeyTaken(r)
        /\ requests' = requests \cup {[key |-> RequestKey[r], rev |-> requestRev[r], by |-> r]}
        /\ outbox' = outbox \cup Rows("request.created", r)
        /\ conv' = [conv EXCEPT !.state = "submitted"]
        /\ requestPc' = [requestPc EXCEPT ![r] = "created"]
  /\ UNCHANGED <<briefs, messages, flowState, turnVars, formVars, requestRev, staffVars, histVars>>

-----------------------------------------------------------------------------
(* Inbox: findOne, then save of the loaded entity, without a lock *)

Load(s, op) ==
  /\ staffPc[s] = "idle"
  /\ snapshot' = [snapshot EXCEPT ![s] = conv]
  /\ staffPc' = [staffPc EXCEPT ![s] = op]
  /\ UNCHANGED <<dbVars, turnVars, formVars, reqVars, histVars>>

\* repository.save writes every column in which the entity differs from the row.
SaveEntity(s, entity) ==
  /\ conv' = entity
  /\ staffPc' = [staffPc EXCEPT ![s] = "idle"]
  /\ snapshot' = [snapshot EXCEPT ![s] = NewConversation]

TakeLoad(s) == Load(s, "take")

TakeSave(s) ==
  /\ staffPc[s] = "take"
  /\ SaveEntity(s, [snapshot[s] EXCEPT !.human = TRUE, !.owner = s, !.unread = 0])
  /\ UNCHANGED <<briefs, messages, outbox, flowState, requests, turnVars, formVars, reqVars, flowEpoch>>

ReleaseLoad(s) == Load(s, "release")

\* Mutation: it writes a state outside the enumeration.
ReleaseSaveClosed(s) ==
  /\ staffPc[s] = "release"
  /\ SaveEntity(s, [snapshot[s] EXCEPT !.human = FALSE, !.state = "closed"])
  /\ UNCHANGED <<briefs, messages, outbox, flowState, requests, turnVars, formVars, reqVars, histVars>>

ReleaseSave(s) ==
  /\ staffPc[s] = "release"
  /\ SaveEntity(s, [snapshot[s] EXCEPT !.human = FALSE])
  /\ UNCHANGED <<briefs, messages, outbox, flowState, requests, turnVars, formVars, reqVars, histVars>>

\* sendStaffMessage refuses (NOT_TAKEN) unless the loaded conversation is taken.
SpeakLoad(s) == conv.human /\ Load(s, "speak")

SpeakStore(s) ==
  /\ staffPc[s] = "speak"
  /\ messages' = messages \cup {StaffMsg(s)}
  /\ staffPc' = [staffPc EXCEPT ![s] = "spoken"]
  /\ UNCHANGED <<conv, briefs, outbox, flowState, requests, turnVars, formVars, reqVars,
                 snapshot, histVars>>

SpeakSave(s) ==
  /\ staffPc[s] = "spoken"
  /\ SaveEntity(s, snapshot[s])
  /\ UNCHANGED <<briefs, messages, outbox, flowState, requests, turnVars, formVars, reqVars, histVars>>

-----------------------------------------------------------------------------
(* The server process stops: calls in progress are lost, the database keeps its rows *)

Crash ==
  /\ MayCrash
  /\ turnPc' = [t \in Turns |->
       IF turnPc[t] \in Finished \cup {"idle"} THEN turnPc[t] ELSE "lost"]
  /\ pipePc' = [t \in Turns |->
       IF pipePc[t] \in {"running", "composing"} THEN "failed" ELSE pipePc[t]]
  /\ formPc' = [c \in Actions \cup Editors |-> IF formPc[c] \in {"read", "asked"} THEN "error" ELSE formPc[c]]
  /\ requestPc' = [r \in Requests |->
       IF requestPc[r] \in {"looked", "checked"} THEN "error" ELSE requestPc[r]]
  /\ staffPc' = [s \in Staff |-> "idle"]
  /\ snapshot' = [s \in Staff |-> NewConversation]
  /\ UNCHANGED <<dbVars, text, draft, pipeDraft, seenEpoch, formDraft, requestRev, histVars>>

-----------------------------------------------------------------------------
(* Specification *)

Init ==
  /\ conv = NewConversation
  /\ briefs = {} /\ messages = {} /\ outbox = {} /\ requests = {}
  /\ flowState = NoFlow
  /\ turnPc = [t \in Turns |-> "idle"]
  /\ text \in {x \in [Turns -> Texts] :
                \A t, u \in Turns : ClientMsg[t] = ClientMsg[u] => x[t] = x[u]}
  /\ draft = [t \in Turns |-> NoDraft]
  /\ pipePc = [t \in Turns |-> "idle"]
  /\ pipeDraft = [t \in Turns |-> NoDraft]
  /\ seenEpoch = [c \in Turns \cup Actions |-> 0]
  /\ formPc = [c \in Actions \cup Editors |-> "idle"]
  /\ formDraft = [e \in Editors |-> NoDraft]
  /\ requestPc = [r \in Requests |-> "idle"]
  /\ requestRev = [r \in Requests |-> NoRevision]
  /\ staffPc = [s \in Staff |-> "idle"]
  /\ snapshot = [s \in Staff |-> NewConversation]
  /\ flowEpoch = 0

TurnStep(t) ==
  \/ RejectDuplicate(t) \/ StoreForStaff(t) \/ StoreMessage(t) \/ Understand(t)
  \/ StopFlow(t) \/ FlowAnswers(t) \/ NoFlowAnswers(t) \/ CommitTurn(t)
  \/ ScriptedFallback(t) \/ PipelineSettles(t) \/ PipelineTimesOut(t)
PipelineStep(t) == PipelineUnderstand(t) \/ PipelineCommit(t) \/ PipelineThrows(t)
ActionStep(a) == ActAsk(a) \/ ActStart(a) \/ ActHuman(a) \/ ActSlot(a) \/ ActFails(a)
EditorStep(e) == PutBriefRead(e) \/ PutBriefSave(e)
RequestStep(r) == RequestLookup(r) \/ RequestCheckBrief(r) \/ RequestCommit(r)
StaffStep(s) ==
  \/ TakeLoad(s) \/ TakeSave(s) \/ ReleaseLoad(s) \/ ReleaseSave(s)
  \/ SpeakLoad(s) \/ SpeakStore(s) \/ SpeakSave(s)

Next ==
  \/ \E t \in Turns : PostMessage(t) \/ TurnStep(t) \/ PipelineStep(t)
  \/ \E a \in Actions : ActionStep(a)
  \/ \E e \in Editors : EditorStep(e)
  \/ \E r \in Requests : RequestStep(r)
  \/ \E s \in Staff : StaffStep(s)
  \/ Crash

Spec == Init /\ [][Next]_vars

\* A handler that has begun runs on and its timer fires.  Nothing is assumed of the
\* LLM, whose answer may never come, nor of the people.
Fairness == \A t \in Turns : WF_vars(TurnStep(t))

FairSpec == Spec /\ Fairness

-----------------------------------------------------------------------------
(* Properties *)

\* Types of the rows and of what each call in progress remembers.
TypeOK ==
  /\ conv \in Conversation
  /\ briefs \subseteq Brief
  /\ messages \subseteq Message
  /\ outbox \subseteq Event
  /\ flowState \in Flow
  /\ requests \subseteq Request
  /\ turnPc \in [Turns -> TurnPcs]
  /\ text \in [Turns -> Texts]
  /\ draft \in [Turns -> Draft]
  /\ pipePc \in [Turns -> PipePcs]
  /\ pipeDraft \in [Turns -> Draft]
  /\ seenEpoch \in [Turns \cup Actions -> Nat]
  /\ formPc \in [Actions \cup Editors -> {"idle", "read", "asked", "saved", "error"}]
  /\ formDraft \in [Editors -> Draft]
  /\ requestPc \in [Requests -> {"idle", "looked", "checked", "created", "replayed", "error"}]
  /\ requestRev \in [Requests -> Nat]
  /\ staffPc \in [Staff -> {"idle", "take", "release", "speak", "spoken"}]
  /\ snapshot \in [Staff -> Conversation]
  /\ flowEpoch \in Nat

\* A conversation that waits for sales has been announced to staff.  commitTurn and the
\* 'human' action write state and outbox rows in one transaction; a stale save of the
\* inbox may bring the state back, but never before the rows were there.
WaitingIsAnnounced ==
  conv.state = "waiting_sales" => \E row \in outbox : row.event = "human.requested"

\* A conversation that counts as submitted has a request whose outbox rows are all
\* there, whatever crash or stale save came between.
SubmittedIsAnnounced ==
  conv.state = "submitted" =>
    \E q \in requests : Rows("request.created", q.by) \subseteq outbox

\* Whatever the inbox overwrites with an entity loaded earlier, a conversation held
\* by staff has a member of staff assigned.
TakenIsAssigned == conv.human => conv.owner # NoStaff

\* All three: what the conversation's row says of sales, requests and staff is backed by
\* the rows it speaks of, whatever the inbox saves over it.
HandoffIsBacked == WaitingIsAnnounced /\ SubmittedIsAnnounced /\ TakenIsAssigned

\* No edit that was saved is overwritten by a writer that had not seen it: revisions
\* have no gap and each keeps all edits of the earlier ones.
NoLostEdit ==
  /\ \A b \in briefs : 1..b.rev \subseteq Revisions
  /\ \A b, c \in briefs : b.rev <= c.rev => b.data \subseteq c.data

\* A pipeline that failed has left no reply behind, so the fallback that follows is
\* the only answer the customer gets.
FailedPipelineLeavesNothing ==
  \A t \in Turns : pipePc[t] = "failed" => AiMsg(t, "pipeline") \notin messages

\* A message and its retry are stored once and answered by one turn only, though the
\* check for an earlier copy is made before any lock is taken.
RetryIsAnsweredOnce ==
  \A t, u \in Turns : (t # u /\ ClientMsg[t] = ClientMsg[u]) =>
    ~ \E m, n \in messages : m.role # "staff" /\ n.role # "staff" /\ m.by = t /\ n.by = u

\* Two requests never share an idempotency key, however their handlers interleave.
OneRequestPerKey == \A p, q \in requests : p.key = q.key => p = q

\* While staff hold the conversation no step of a turn stores an AI reply or a brief,
\* moves the state or announces anything, even if the turn began before they took
\* over or its pipeline has outlived the timer.
TakeoverSilencesTurns ==
  [][conv.human => \A t \in Turns :
       (turnPc'[t] # turnPc[t] \/ pipePc'[t] # pipePc[t]) =>
         /\ {m \in messages' : m.role = "ai"} = {m \in messages : m.role = "ai"}
         /\ briefs' = briefs /\ outbox' = outbox /\ conv'.state = conv.state]_vars

\* Every message the server keeps is dealt with: its turn commits a reply, which is empty
\* when the LLM or the knowledge gave an empty text, leaves it to staff, is refused to the
\* caller or is lost with the process.  The LLM may never answer.
KeptMessageIsDealtWith ==
  \A t \in Turns : turnPc[t] = "stored" ~> turnPc[t] \in Finished

-----------------------------------------------------------------------------
(* What comments and messages of the code say, and the code does not do *)

\* turn-orchestrator.service.ts:171 says that a complaint or a wish for a human always
\* stops the running flow: no flow that runs was consulted before the last stop.
SafetyStopsFlow == flowState.running => flowState.epoch = flowEpoch
=============================================================================
