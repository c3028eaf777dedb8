----------------------------- MODULE ChatFlows -----------------------------
(***************************************************************************)
(* The scripted flows of the chatbot (ChatbotFlowService and flow-graph):  *)
(* administrators draft, publish, switch and remove flows while customers  *)
(* walk through the published ones.  Every call loads, decides and saves   *)
(* in separate statements; the published flows are cached in the process   *)
(* for 30 seconds, and a call that missed the cache fills it with what it  *)
(* read before.  A customer's place in a flow is the cursor of the         *)
(* conversation, saved with the reply.                                     *)
(***************************************************************************)
EXTENDS Integers, FiniteSets

CONSTANTS
  Flows,        \* ids of flows
  Nodes,        \* ids of the steps of graphs
  Buttons,      \* ids of buttons
  Actions,      \* start buttons of the widget
  Words,        \* keywords
  Texts,        \* texts customers send
  Bodies,       \* graphs administrators send
  Flows0,       \* the rows of chatbot_flows at first
  Convs,        \* conversations
  Cursor0,      \* their places at first
  Customers,    \* calls of customers in progress at once
  MaxSteps,     \* FLOW_LIMITS.max_steps
  MaxCalls,     \* bound: calls of administrators, numbered in the order they begin
  NoRow, NoGraph, NoNode, NoCursor, NoCache, NoFlow, Other

Admins == 1..MaxCalls
Callers == Admins \cup Customers
NodeTypes == {"start", "message", "knowledge", "handoff", "end"}
Handles == Buttons \cup {"next", "other"}

\* A graph: the type of each of its nodes, the nodes with a text and those with buttons, the
\* edges, and the start buttons and keywords of its start.
Edge == [source : Nodes, handle : Handles, target : Nodes]
Graph == [type : UNION {[N -> NodeTypes] : N \in SUBSET Nodes}, says : SUBSET Nodes,
          buttons : [Nodes -> SUBSET Buttons], edges : SUBSET Edge,
          actions : SUBSET Actions, words : SUBSET Words]

Row == [enabled : BOOLEAN, draft : Graph, live : Graph \cup {NoGraph}, version : Nat]
Served == [flow : Flows, version : Nat, graph : Graph]
Cursor == [flow : Flows, version : Nat, node : Nodes]
\* What a customer typed or clicked: a button, or not, and a keyword in it, or not.
Text == [button : Buttons \cup {Other}, word : Words \cup {Other}]

ASSUME CallersAssumption == Admins \cap Customers = {}
ASSUME BodiesAssumption == Bodies \subseteq Graph
ASSUME TextsAssumption == Texts \subseteq Text
ASSUME BoundsAssumption == MaxSteps \in Nat \ {0} /\ MaxCalls \in Nat
ASSUME NullAssumption ==
  /\ NoNode \notin Nodes /\ Other \notin Buttons \cup Words /\ NoGraph \notin Graph
  /\ Buttons \cap {"next", "other"} = {}

VARIABLES
  flows,      \* chatbot_flows: a row, or NoRow
  cursor,     \* chatbot_flow_states, by conversation
  cache,      \* the published flows in memory, or NoCache when there are none or old ones
  reading,    \* where each call is in reading the published flows, and what it found
  call,       \* what each call is doing
  calls,      \* calls of administrators so far
  used,       \* ids of flows given so far
  published,  \* history: what was ever published
  calm        \* history: administrators worked one by one, none failed between its statements,
              \* no stale answer filled the cache

vars == <<flows, cursor, cache, reading, call, calls, used, published, calm>>
tables == <<flows, cursor, used, published>>
admin == <<calls, calm>>

-----------------------------------------------------------------------------
(* Graphs *)

NodesOf(g, type) == {n \in DOMAIN g.type : g.type[n] = type}
Waiting(g) == {n \in NodesOf(g, "message") : g.buttons[n] # {}}
StartNode(g) == IF NodesOf(g, "start") = {} THEN NoNode ELSE CHOOSE n \in NodesOf(g, "start") : TRUE

AllowedHandles(g, n) ==
  CASE g.type[n] \in {"start", "knowledge"} -> {"next"}
    [] g.type[n] = "message" -> IF g.buttons[n] = {} THEN {"next"} ELSE g.buttons[n] \cup {"other"}
    [] OTHER -> {}

\* validateFlowGraph drops the edges that lead nowhere, back to the start or out of a branch
\* that is not there, and all but one of those that share a branch.
Sound(g, e) ==
  /\ {e.source, e.target} \subseteq DOMAIN g.type
  /\ g.type[e.target] # "start"
  /\ e.handle \in AllowedHandles(g, e.source)
Walkable(g) == \A e \in g.edges : Sound(g, e)
Clean(g) ==
  LET sound == {e \in g.edges : Sound(g, e)}
      kept(e) == e = CHOOSE d \in sound : d.source = e.source /\ d.handle = e.handle
  IN [g EXCEPT !.edges = {e \in sound : kept(e)}]

\* The errors that keep a graph from being published.  "approved": the knowledge steps whose
\* topic has a published answer.
HasErrors(g, approved) ==
  \/ Clean(g) # g
  \/ Cardinality(NodesOf(g, "start")) # 1
  \/ ~ \E e \in g.edges : e.source = StartNode(g)
  \/ g.actions = {} /\ g.words = {}
  \/ ~ (NodesOf(g, "message") \cup NodesOf(g, "handoff")) \subseteq g.says
  \/ ~ NodesOf(g, "knowledge") \subseteq g.says \cup approved

NextOf(g, n, handle) ==
  LET out == {e \in g.edges : e.source = n /\ e.handle = handle}
  IN IF out = {} THEN NoNode ELSE (CHOOSE e \in out : TRUE).target

\* matchBranch and followBranch: where the text leads from a waiting node.
Target(g, n, text) ==
  IF text.button \in g.buttons[n] THEN NextOf(g, n, text.button) ELSE NextOf(g, n, "other")

ASSUME FlowsAssumption ==
  /\ Flows0 \in [Flows -> Row \cup {NoRow}]
  /\ \A f \in Flows : Flows0[f] # NoRow /\ Flows0[f].live # NoGraph => Walkable(Flows0[f].live)
ASSUME TriggersAssumption ==
  \A f, g \in Flows :
    LET served(r) == r # NoRow /\ r.enabled /\ r.live # NoGraph /\ r.version > 0
    IN f # g /\ served(Flows0[f]) /\ served(Flows0[g]) =>
         Flows0[f].live.actions \cap Flows0[g].live.actions = {}
ASSUME CursorsAssumption ==
  /\ Cursor0 \in [Convs -> Cursor \cup {NoCursor}]
  /\ \A v \in Convs : Cursor0[v] # NoCursor =>
       LET row == Flows0[Cursor0[v].flow]
       IN /\ row # NoRow /\ row.live # NoGraph /\ row.version = Cursor0[v].version
          /\ Cursor0[v].node \in Waiting(row.live)

-----------------------------------------------------------------------------
(* The published flows and their cache *)

Idle == [kind |-> "none", at |-> "idle", flow |-> NoFlow, row |-> NoRow, conv |-> NoCursor,
         text |-> Other, from |-> NoFlow, cur |-> NoNode, steps |-> 0, said |-> FALSE,
         wait |-> NoNode]
Unread == [at |-> "no", found |-> {}]
Wanted == [at |-> "wanted", found |-> {}]

At(c, at) == call[c].at = at
HasRead(c) == reading[c].at = "done"
Goes(c, at) == call' = [call EXCEPT ![c].at = at]
Ends(c) ==
  /\ call' = [call EXCEPT ![c] = Idle]
  /\ reading' = [reading EXCEPT ![c] = Unread]

AsServed(f, row) == [flow |-> f, version |-> row.version, graph |-> row.live]
PublishedRows ==
  {AsServed(f, flows[f]) :
     f \in {g \in Flows : flows[g] # NoRow /\ flows[g].enabled /\ flows[g].live # NoGraph
                          /\ flows[g].version > 0}}

\* A call that has nothing more to do than to answer is over when it has the flows.
Answered(c, found) ==
  reading' = [reading EXCEPT ![c] = IF At(c, "idle") THEN Unread
                                    ELSE [at |-> "done", found |-> found]]

AskFlows(c) ==
  /\ reading[c].at = "wanted"
  /\ IF cache = NoCache THEN reading' = [reading EXCEPT ![c].at = "query"] ELSE Answered(c, cache)
  /\ UNCHANGED <<tables, cache, call, admin>>

QueryFlows(c) ==
  /\ reading[c].at = "query"
  /\ reading' = [reading EXCEPT ![c] = [at |-> "fill", found |-> PublishedRows]]
  /\ UNCHANGED <<tables, cache, call, admin>>

FillCache(c) ==
  /\ reading[c].at = "fill"
  /\ cache' = reading[c].found
  /\ Answered(c, reading[c].found)
  /\ calm' = (calm /\ reading[c].found = PublishedRows)
  /\ UNCHANGED <<tables, call, calls>>

\* CACHE_TTL_MS passes.  Mutation: what is cached stays.
NeverAge == FALSE /\ UNCHANGED vars
Age ==
  /\ cache # NoCache
  /\ cache' = NoCache
  /\ UNCHANGED <<tables, reading, call, admin>>

\* startActionConflicts.  Mutation: nothing is compared.
TakenNever(g, f, found) == FALSE
Taken(g, f, found) == \E s \in found : s.flow # f /\ g.actions \cap s.graph.actions # {}

-----------------------------------------------------------------------------
(* Administrators *)

NewRow(g) == [enabled |-> TRUE, draft |-> Clean(g), live |-> NoGraph, version |-> 0]
\* The graph update is sent is cleaned into the draft.  Mutation: a published flow follows.
DraftedLive(row, g) ==
  [row EXCEPT !.draft = Clean(g), !.live = IF @ = NoGraph THEN @ ELSE Clean(g)]
Drafted(row, g) == [row EXCEPT !.draft = Clean(g)]
\* What publish makes of the row it loaded.  Mutation: the version stays.
LaunchedSame(row) == [row EXCEPT !.live = Clean(row.draft), !.draft = Clean(row.draft)]
Launched(row) == [LaunchedSame(row) EXCEPT !.version = @ + 1]

\* A call starts with the row as it is; it knows of conflicts when it has read the published
\* flows, which it only does for a graph with start buttons.
BeginAdmin(a, kind, f, row, at, g) ==
  /\ call' = [call EXCEPT ![a] = [Idle EXCEPT !.kind = kind, !.at = at, !.flow = f, !.row = row]]
  /\ reading' = [reading EXCEPT ![a] = IF g = NoGraph \/ g.actions = {}
                                       THEN [at |-> "done", found |-> {}] ELSE Wanted]
  /\ calls' = calls + 1
  /\ calm' = (calm /\ \A b \in Admins : At(b, "idle"))
  /\ UNCHANGED <<flows, cursor, cache, published>>

AdminCall(a) ==
  /\ a = calls + 1
  /\ \E f \in Flows :
       \/ /\ f \notin used
          /\ used' = used \cup {f}
          /\ \E g \in Bodies : BeginAdmin(a, "create", f, NewRow(g), "save", NoGraph)
       \/ /\ flows[f] # NoRow
          /\ UNCHANGED used
          /\ \/ \E g \in Bodies \cup {flows[f].draft} :
                  BeginAdmin(a, "update", f, Drafted(flows[f], g), "save", NoGraph)
             \/ BeginAdmin(a, "publish", f, flows[f], "lint", Clean(flows[f].draft))
             \/ BeginAdmin(a, "enable", f, [flows[f] EXCEPT !.enabled = TRUE], "conflicts",
                           flows[f].live)
             \/ BeginAdmin(a, "disable", f, [flows[f] EXCEPT !.enabled = FALSE], "save", NoGraph)
             \/ BeginAdmin(a, "remove", f, flows[f], "remove", NoGraph)

\* lint, before a publish; the knowledge base is asked for the topics.
CheckPublish(a) ==
  /\ At(a, "lint") /\ HasRead(a)
  /\ \E approved \in SUBSET NodesOf(call[a].row.draft, "knowledge") :
       IF \/ HasErrors(call[a].row.draft, approved)
          \/ Taken(call[a].row.draft, call[a].flow, reading[a].found)
       THEN Ends(a)
       ELSE /\ call' = [call EXCEPT ![a].row = Launched(@), ![a].at = "save"]
            /\ UNCHANGED reading
  /\ UNCHANGED <<tables, cache, admin>>

CheckEnable(a) ==
  /\ At(a, "conflicts") /\ HasRead(a)
  /\ IF call[a].row.live # NoGraph /\ Taken(call[a].row.live, call[a].flow, reading[a].found)
     THEN Ends(a)
     ELSE Goes(a, "save") /\ UNCHANGED reading
  /\ UNCHANGED <<tables, cache, admin>>

\* The whole row is saved, or inserted again when it has been removed meanwhile.
SaveFlow(a) ==
  /\ At(a, "save")
  /\ flows' = [flows EXCEPT ![call[a].flow] = call[a].row]
  /\ published' = IF call[a].kind # "publish" THEN published
                  ELSE published \cup {AsServed(call[a].flow, call[a].row)}
  /\ call' = [call EXCEPT ![a].row = NoRow, ![a].kind = "none",
                          ![a].at = CASE call[a].kind = "disable" -> "clear"
                                      [] call[a].kind = "create" -> "get"
                                      [] OTHER -> "invalidate"]
  /\ reading' = [reading EXCEPT ![a] = Unread]
  /\ UNCHANGED <<cursor, cache, admin, used>>

Left(f) == [c \in Convs |-> IF cursor[c] # NoCursor /\ cursor[c].flow = f THEN NoCursor
                            ELSE cursor[c]]

ClearCursors(a) ==
  /\ At(a, "clear")
  /\ cursor' = Left(call[a].flow)
  /\ Goes(a, "invalidate")
  /\ UNCHANGED <<flows, cache, reading, admin, used, published>>

\* The delete fails: the flow is disabled, and the cache is left as it is.
ClearFails(a) ==
  /\ At(a, "clear")
  /\ Ends(a)
  /\ calm' = FALSE
  /\ UNCHANGED <<tables, cache, calls>>

RemoveFlow(a) ==
  /\ At(a, "remove")
  /\ cursor' = Left(call[a].flow)
  /\ flows' = [flows EXCEPT ![call[a].flow] = NoRow]
  /\ Goes(a, "invalidate")
  /\ UNCHANGED <<cache, reading, admin, used, published>>

\* Mutation: removing a flow leaves the cache alone.
InvalidateSaved(a) ==
  /\ At(a, "invalidate")
  /\ cache' = IF call[a].kind = "remove" THEN cache ELSE NoCache
  /\ IF call[a].kind = "remove" THEN Ends(a) ELSE Goes(a, "get") /\ UNCHANGED reading
  /\ UNCHANGED <<tables, admin>>
Invalidate(a) ==
  /\ At(a, "invalidate")
  /\ cache' = NoCache
  /\ IF call[a].kind = "remove" THEN Ends(a) ELSE Goes(a, "get") /\ UNCHANGED reading
  /\ UNCHANGED <<tables, admin>>

\* The answer is the flow as it is then, with the issues of its draft.
GetFlow(a) ==
  /\ At(a, "get")
  /\ LET row == flows[call[a].flow]
     IN IF row = NoRow \/ row.draft.actions = {} THEN Ends(a)
        ELSE /\ call' = [call EXCEPT ![a] = Idle]
             /\ reading' = [reading EXCEPT ![a] = Wanted]
  /\ UNCHANGED <<tables, cache, admin>>

AdminStep(a) ==
  \/ CheckPublish(a) \/ CheckEnable(a) \/ SaveFlow(a) \/ ClearCursors(a) \/ ClearFails(a)
  \/ RemoveFlow(a) \/ Invalidate(a) \/ GetFlow(a)

-----------------------------------------------------------------------------
(* Customers *)

\* handleText, and startByAction for a start button of the widget.
CustomerCall(c) ==
  /\ At(c, "idle")
  /\ \E v \in Convs :
       \/ \E text \in Texts :
            call' = [call EXCEPT ![c] = [Idle EXCEPT !.kind = "text", !.at = "lookup",
                                                     !.conv = v, !.text = text]]
       \/ \E action \in Actions :
            call' = [call EXCEPT ![c] = [Idle EXCEPT !.kind = "start", !.at = "start",
                                                     !.conv = v, !.text = action]]
  /\ reading' = [reading EXCEPT ![c] = Wanted]
  /\ UNCHANGED <<tables, cache, admin>>

\* A complaint, or a wish for staff, stops the running flow.
ClearState(v) ==
  /\ cursor' = [cursor EXCEPT ![v] = NoCursor]
  /\ UNCHANGED <<flows, cache, reading, call, admin, used, published>>

Walks(c, s, node) ==
  /\ call' = [call EXCEPT ![c].at = "walk", ![c].from = s, ![c].cur = node, ![c].text = Other]
  /\ reading' = [reading EXCEPT ![c] = Unread]

\* The customer's flow goes on if it is still published and its node still waits there.
Continued(c, s) ==
  LET place == cursor[call[c].conv]
  IN /\ s.flow = place.flow
     /\ place.node \in NodesOf(s.graph, "message")
     /\ Target(s.graph, place.node, call[c].text) # NoNode

\* Of several flows with the keyword, the order of priority decides, which is left open.
ByKeyword(c) ==
  LET matching == {s \in reading[c].found : call[c].text.word \in s.graph.words}
  IN IF matching = {} THEN Ends(c)
     ELSE \E s \in matching : Walks(c, s, StartNode(s.graph))

LookUp(c) ==
  /\ At(c, "lookup") /\ HasRead(c)
  /\ LET place == cursor[call[c].conv]
         goesOn == {s \in reading[c].found : place # NoCursor /\ Continued(c, s)}
     IN IF place = NoCursor THEN ByKeyword(c)
        ELSE IF goesOn = {} THEN Goes(c, "leave") /\ UNCHANGED reading
        ELSE \E s \in goesOn : Walks(c, s, Target(s.graph, place.node, call[c].text))
  /\ UNCHANGED <<tables, cache, admin>>

LeaveFlow(c) ==
  /\ At(c, "leave")
  /\ cursor' = [cursor EXCEPT ![call[c].conv] = NoCursor]
  /\ ByKeyword(c)
  /\ UNCHANGED <<flows, cache, admin, used, published>>

StartFlow(c) ==
  /\ At(c, "start") /\ HasRead(c)
  /\ LET owners == {s \in reading[c].found : call[c].text \in s.graph.actions}
     IN IF owners = {} THEN Goes(c, "commit") /\ UNCHANGED reading
        ELSE \E s \in owners : Walks(c, s, StartNode(s.graph))
  /\ UNCHANGED <<tables, cache, admin>>

\* Where the walk waits.  Mutation: at any message.
WaitsAtMessage(g, n) == n \in NodesOf(g, "message")
Waits(g, n) == n \in Waiting(g)

\* The walk ends at a node that waits, at a terminal one or where nothing follows, and is cut
\* after MaxSteps.  Mutation: it is not cut.
GoesOnForEver(c) == call[c].cur # NoNode
GoesOn(c) == call[c].cur # NoNode /\ call[c].steps < MaxSteps

\* A knowledge step says the answer of its topic, or else its fallback text.
WalkStep(c) ==
  /\ At(c, "walk") /\ GoesOn(c)
  /\ LET g == call[c].from.graph
         n == call[c].cur
     IN \E answered \in IF n \in NodesOf(g, "knowledge") THEN BOOLEAN ELSE {FALSE} :
          call' = [call EXCEPT
            ![c].steps = @ + 1,
            ![c].said = @ \/ answered \/ (n \in g.says /\ g.type[n] # "start"),
            ![c].wait = IF Waits(g, n) THEN n ELSE NoNode,
            ![c].cur = IF Waits(g, n) \/ g.type[n] \in {"handoff", "end"} THEN NoNode
                       ELSE NextOf(g, n, "next")]
  /\ UNCHANGED <<tables, cache, reading, admin>>

\* A flow without any text does not answer.
WalkEnd(c) ==
  /\ At(c, "walk") /\ ~GoesOn(c)
  /\ IF ~call[c].said /\ call[c].kind = "text" THEN Ends(c)
     ELSE /\ call' = [call EXCEPT ![c].at = "commit", ![c].steps = 0, ![c].cur = NoNode,
                                  ![c].wait = IF call[c].said THEN @ ELSE NoNode]
          /\ UNCHANGED reading
  /\ UNCHANGED <<tables, cache, admin>>

\* applyState, in the transaction that stores the reply; a start button that no flow answers
\* leaves the flow.
Reached(c) ==
  IF call[c].wait = NoNode THEN NoCursor
  ELSE [flow |-> call[c].from.flow, version |-> call[c].from.version, node |-> call[c].wait]

CommitReply(c) ==
  /\ At(c, "commit")
  /\ cursor' = [cursor EXCEPT ![call[c].conv] = Reached(c)]
  /\ Ends(c)
  /\ UNCHANGED <<flows, cache, admin, used, published>>

\* Staff have taken the conversation meanwhile, or the transaction fails.
DropReply(c) ==
  /\ At(c, "commit")
  /\ \/ UNCHANGED cursor
     \/ /\ call[c].kind = "start"
        /\ cursor' = [cursor EXCEPT ![call[c].conv] = NoCursor]
  /\ Ends(c)
  /\ UNCHANGED <<flows, cache, admin, used, published>>

CustomerStep(c) ==
  \/ LookUp(c) \/ LeaveFlow(c) \/ StartFlow(c) \/ WalkStep(c) \/ WalkEnd(c)
  \/ CommitReply(c) \/ DropReply(c)

-----------------------------------------------------------------------------

Init ==
  /\ flows = Flows0
  /\ cursor = Cursor0
  /\ cache = NoCache
  /\ reading = [c \in Callers |-> Unread]
  /\ call = [c \in Callers |-> Idle]
  /\ calls = 0
  /\ used = {f \in Flows : Flows0[f] # NoRow}
  /\ published = {AsServed(f, Flows0[f]) :
                    f \in {g \in Flows : Flows0[g] # NoRow /\ Flows0[g].live # NoGraph}}
  /\ calm = TRUE

ReadStep(c) == AskFlows(c) \/ QueryFlows(c) \/ FillCache(c)

Next ==
  \/ \E a \in Admins : AdminCall(a) \/ AdminStep(a)
  \/ \E c \in Customers : CustomerCall(c) \/ CustomerStep(c)
  \/ \E c \in Callers : ReadStep(c)
  \/ \E v \in Convs : ClearState(v)
  \/ Age

Spec == Init /\ [][Next]_vars

\* The event loop and the database go on with every call that has begun, and time passes.
FairSpec ==
  /\ Spec
  /\ \A a \in Admins : WF_vars(AdminStep(a) \/ ReadStep(a))
  /\ \A c \in Customers : WF_vars(CustomerStep(c) \/ ReadStep(c))
  /\ WF_vars(Age)

-----------------------------------------------------------------------------
(* Properties *)

\* Rows, cache, cursors and calls keep their types, and whatever is walked is a node of the
\* graph it is walked in.
TypeOK ==
  /\ \A f \in Flows : flows[f] # NoRow => flows[f] \in Row
  /\ \A v \in Convs : cursor[v] # NoCursor => cursor[v] \in Cursor
  /\ cache # NoCache => cache \subseteq Served
  /\ \A c \in Callers :
       /\ reading[c].found \subseteq Served
       /\ call[c].steps \in 0..MaxSteps
       /\ call[c].cur # NoNode => call[c].cur \in DOMAIN call[c].from.graph.type
  /\ used \subseteq Flows /\ calls \in 0..MaxCalls

\* What customers are served, now or from the cache, was published as such: flow, version and
\* graph belong together, however drafts and stale rows were saved meanwhile.
ServedWasPublished ==
  /\ PublishedRows \subseteq published
  /\ cache # NoCache => cache \subseteq published
  /\ \A c \in Callers : reading[c].found \subseteq published
  /\ \A c \in Customers : call[c].from # NoFlow => call[c].from \in published

\* The place a conversation remembers is a message with buttons of a graph that was published
\* as that version of that flow, so the customer has been shown something to click.
CursorWaits ==
  \A v \in Convs : cursor[v] # NoCursor =>
    \E s \in published :
      /\ s.flow = cursor[v].flow /\ s.version = cursor[v].version
      /\ cursor[v].node \in Waiting(s.graph)

\* As long as administrators work one by one and no stale answer filled the cache, no two
\* enabled flows share a start button.
TriggersUnique ==
  calm => \A s, t \in PublishedRows : s.flow # t.flow => s.graph.actions \cap t.graph.actions = {}

\* As long as administrators work one by one, a publish sticks: the row is at the last version
\* ever published, and a version names one graph.
PublishSticks ==
  calm => \A f \in Flows, s \in published :
    flows[f] # NoRow /\ s.flow = f =>
      /\ s.version <= flows[f].version
      /\ s.version = flows[f].version => s.graph = flows[f].live

\* As long as no stale answer filled it, the cache is what is published, but for the moment
\* between the save of an administrator and the end of that call's work on it.
CacheIsFresh ==
  /\ calm
  /\ cache # NoCache
  /\ \A a \in Admins : ~At(a, "clear") /\ ~At(a, "invalidate")
  => cache = PublishedRows

\* Once administrators have finished, what is cached is what is published, for good.
CacheCatchesUp == <>[](cache = NoCache \/ cache = PublishedRows)
=============================================================================
