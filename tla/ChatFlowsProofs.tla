-------------------------- MODULE ChatFlowsProofs --------------------------
(***************************************************************************)
(* What customers walk through was published, for any number of            *)
(* administrators and customers whose calls overlap and save stale rows:   *)
(* every row a call may still save is itself one that was published.       *)
(***************************************************************************)
EXTENDS ChatFlows, TLAPS

Kinds == {"none", "create", "update", "publish", "enable", "disable", "remove", "text", "start"}
Places == {"idle", "save", "lint", "conflicts", "remove", "clear", "invalidate", "get",
           "lookup", "start", "leave", "walk", "commit"}
Job == [kind : Kinds, at : Places, flow : Flows \cup {NoFlow}, row : Row \cup {NoRow},
        conv : Convs \cup {NoCursor}, text : Text \cup Actions \cup {Other},
        from : Served \cup {NoFlow}, cur : Nodes \cup {NoNode}, steps : 0..MaxSteps,
        said : BOOLEAN, wait : Nodes \cup {NoNode}]
Answer == [at : {"no", "wanted", "query", "fill", "done"}, found : SUBSET Served]

\* A row of the flow f, in the table or in the memory of a call, was published if it has a
\* live graph.
GoodRow(f, row) == row \in Row /\ (row.live # NoGraph => AsServed(f, row) \in published)

\* What a call is about to save, and where it walks.
GoodJob(job) ==
  /\ job \in Job
  /\ job.at = "lint" => job.kind = "publish"
  /\ job.at \in {"lint", "conflicts"} => job.flow \in Flows /\ GoodRow(job.flow, job.row)
  /\ job.at = "conflicts" => job.kind # "publish"
  /\ job.at = "save" =>
       /\ job.flow \in Flows /\ job.row \in Row
       /\ IF job.kind = "publish" THEN job.row.live \in Graph /\ Walkable(job.row.live)
          ELSE GoodRow(job.flow, job.row)
  /\ job.from # NoFlow => job.from \in published
  /\ job.cur # NoNode => job.from \in published /\ job.cur \in DOMAIN job.from.graph.type
  /\ job.wait # NoNode =>
       /\ job.at \in {"walk", "commit"}
       /\ job.from \in published /\ job.wait \in Waiting(job.from.graph)

GoodPublished == published \subseteq {s \in Served : Walkable(s.graph)}
GoodFlows ==
  /\ flows \in [Flows -> Row \cup {NoRow}]
  /\ \A f \in Flows : flows[f] # NoRow => GoodRow(f, flows[f])
GoodCursors == cursor \in [Convs -> Cursor \cup {NoCursor}] /\ CursorWaits
GoodCache == cache # NoCache => cache \subseteq published
GoodReads ==
  /\ reading \in [Callers -> Answer]
  /\ \A c \in Callers : reading[c].found \subseteq published
GoodCalls == call \in [Callers -> Job] /\ \A c \in Callers : GoodJob(call[c])
GoodCounts == used \subseteq Flows /\ calls \in 0..MaxCalls

\* The inductive invariant.
IInv ==
  /\ GoodPublished /\ GoodFlows /\ GoodCursors /\ GoodCache /\ GoodReads /\ GoodCalls
  /\ GoodCounts

-----------------------------------------------------------------------------
(* Graphs *)

\* A graph that was cleaned has only edges that can be walked (validateFlowGraph).
LEMMA CleanIsWalkable ==
  ASSUME NEW g \in Graph
  PROVE  Clean(g) \in Graph /\ Walkable(Clean(g))
<1> DEFINE sound == {e \in g.edges : Sound(g, e)}
           kept(e) == e = CHOOSE d \in sound : d.source = e.source /\ d.handle = e.handle
           E == {e \in sound : kept(e)}
<1>1. Clean(g) = [g EXCEPT !.edges = E]
  BY DEF Clean
<1> HIDE DEF kept
<1>2. E \subseteq g.edges /\ \A e \in E : Sound(g, e)
  OBVIOUS
<1> HIDE DEF E
<1>3. Clean(g) \in Graph
  BY <1>1, <1>2 DEF Graph
<1>4. Clean(g).edges = E /\ Clean(g).type = g.type /\ Clean(g).buttons = g.buttons
  BY <1>1 DEF Graph
<1>5. ASSUME NEW e \in E PROVE Sound(Clean(g), e)
  BY <1>2, <1>4 DEF Sound, AllowedHandles
<1> QED BY <1>3, <1>4, <1>5 DEF Walkable

\* A step that is followed leads to a node of the graph.
LEMMA NextIsNode ==
  ASSUME NEW g \in Graph, Walkable(g), NEW n, NEW h
  PROVE  NextOf(g, n, h) = NoNode \/ NextOf(g, n, h) \in DOMAIN g.type
<1> DEFINE out == {e \in g.edges : e.source = n /\ e.handle = h}
<1>1. CASE out = {}
  BY <1>1 DEF NextOf
<1>2. CASE out # {}
  <2>1. (CHOOSE e \in out : TRUE) \in out
    BY <1>2
  <2>2. \A e \in out : e.target \in DOMAIN g.type
    BY DEF Walkable, Sound
  <2> QED BY <1>2, <2>1, <2>2 DEF NextOf
<1> QED BY <1>1, <1>2

LEMMA TargetIsNode ==
  ASSUME NEW g \in Graph, Walkable(g), NEW n, NEW text
  PROVE  Target(g, n, text) = NoNode \/ Target(g, n, text) \in DOMAIN g.type
BY NextIsNode DEF Target

LEMMA StartIsNode ==
  ASSUME NEW g \in Graph
  PROVE  StartNode(g) = NoNode \/ StartNode(g) \in DOMAIN g.type
<1>1. CASE NodesOf(g, "start") = {}
  BY <1>1 DEF StartNode
<1>2. CASE NodesOf(g, "start") # {}
  <2>1. (CHOOSE n \in NodesOf(g, "start") : TRUE) \in NodesOf(g, "start")
    BY <1>2
  <2> QED BY <1>2, <2>1 DEF StartNode, NodesOf
<1> QED BY <1>1, <1>2

LEMMA NodesAreTyped == ASSUME NEW g \in Graph PROVE DOMAIN g.type \subseteq Nodes
BY DEF Graph

-----------------------------------------------------------------------------
(* What steps have in common *)

LEMMA IdleIsGood == GoodJob(Idle)
BY BoundsAssumption DEF GoodJob, Job, Idle, Kinds, Places

LEMMA AnswersTyped ==
  /\ Unread \in Answer /\ Wanted \in Answer
  /\ \A found \in SUBSET Served : [at |-> "done", found |-> found] \in Answer
BY DEF Unread, Wanted, Answer

\* More that was published keeps what was sound sound.
LEMMA MorePublished ==
  ASSUME NEW job, GoodJob(job), published \subseteq published'
  PROVE  GoodJob(job)'
BY DEF GoodJob, GoodRow

LEMMA CallsStay ==
  ASSUME GoodCalls, published \subseteq published',
         NEW c \in Callers, NEW job, GoodJob(job), call' = [call EXCEPT ![c] = job]
  PROVE  GoodCalls'
<1>1. \A x \in Callers : GoodJob(call[x])' \/ (call'[x] = job /\ GoodJob(job)')
  BY MorePublished DEF GoodCalls
<1> QED BY <1>1 DEF GoodCalls, GoodJob

LEMMA ReadsStay ==
  ASSUME GoodReads, published \subseteq published',
         NEW c \in Callers, NEW r \in Answer, r.found \subseteq published,
         reading' = [reading EXCEPT ![c] = r]
  PROVE  GoodReads'
BY DEF GoodReads

LEMMA ReadsKept ==
  ASSUME GoodReads, published \subseteq published', UNCHANGED reading
  PROVE  GoodReads'
BY DEF GoodReads

\* A step of a call that leaves tables and cache alone.
LEMMA CallGoesOn ==
  ASSUME IInv, UNCHANGED <<tables, cache>>, GoodCounts',
         NEW c \in Callers, NEW job, GoodJob(job), call' = [call EXCEPT ![c] = job],
         GoodReads'
  PROVE  IInv'
<1>1. GoodCalls'
  BY CallsStay DEF IInv, tables
<1> QED
  BY <1>1 DEF IInv, tables, GoodPublished, GoodFlows, GoodRow, GoodCursors, CursorWaits, GoodCache

-----------------------------------------------------------------------------
(* Reading the published flows *)

LEMMA PublishedRowsArePublished == ASSUME IInv PROVE PublishedRows \subseteq published
BY DEF IInv, GoodFlows, GoodRow, PublishedRows

LEMMA FlowsAreRead ==
  ASSUME IInv, NEW c \in Callers, ReadStep(c)
  PROVE  IInv'
<1> USE DEF IInv
<1>1. published \subseteq Served
  BY DEF GoodPublished
<1>2. reading[c] \in Answer /\ reading[c].found \subseteq published
  BY DEF GoodReads
<1>3. UNCHANGED <<tables, call>>
  BY DEF ReadStep, AskFlows, QueryFlows, FillCache
<1>4. GoodCounts'
  BY <1>3 DEF ReadStep, AskFlows, QueryFlows, FillCache, admin, tables, GoodCounts
<1>5. ASSUME NEW found, found \subseteq published, Answered(c, found) PROVE GoodReads'
  <2>1. PICK r : r = IF At(c, "idle") THEN Unread ELSE [at |-> "done", found |-> found]
    OBVIOUS
  <2>2. r \in Answer /\ r.found \subseteq published
    BY <1>1, <1>5, <2>1, AnswersTyped DEF Unread
  <2> QED BY <1>3, <1>5, <2>1, <2>2, ReadsStay DEF Answered, tables
<1>6. GoodReads' /\ GoodCache'
  <2>1. CASE AskFlows(c)
    <3>1. CASE cache = NoCache
      <4>1. PICK r : r = [reading[c] EXCEPT !.at = "query"]
        OBVIOUS
      <4>2. r \in Answer /\ r.found \subseteq published /\ reading' = [reading EXCEPT ![c] = r]
        BY <1>2, <2>1, <3>1, <4>1 DEF Answer, AskFlows
      <4> QED BY <2>1, <4>2, ReadsStay DEF AskFlows, tables, GoodCache
    <3>2. CASE cache # NoCache
      BY <1>5, <2>1, <3>2 DEF AskFlows, GoodCache, tables
    <3> QED BY <3>1, <3>2
  <2>2. CASE QueryFlows(c)
    <3>1. PICK r : r = [at |-> "fill", found |-> PublishedRows]
      OBVIOUS
    <3>2. r \in Answer /\ r.found \subseteq published
      BY <1>1, <3>1, PublishedRowsArePublished DEF Answer
    <3> QED BY <2>2, <3>1, <3>2, ReadsStay DEF QueryFlows, tables, GoodCache
  <2>3. CASE FillCache(c)
    BY <1>2, <1>5, <2>3 DEF FillCache, GoodCache, tables
  <2> QED BY <2>1, <2>2, <2>3 DEF ReadStep
<1> QED
  BY <1>3, <1>4, <1>6 DEF tables, GoodPublished, GoodFlows, GoodRow, GoodCursors, CursorWaits,
     GoodCalls, GoodJob

-----------------------------------------------------------------------------
(* Administrators *)

LEMMA RowsOfGraphs ==
  ASSUME NEW f, NEW row, NEW g \in Graph
  PROVE  /\ GoodRow(f, NewRow(g))
         /\ GoodRow(f, row) => GoodRow(f, Drafted(row, g))
         /\ \A b \in BOOLEAN : GoodRow(f, row) => GoodRow(f, [row EXCEPT !.enabled = b])
<1>1. Clean(g) \in Graph
  BY CleanIsWalkable
<1>2. GoodRow(f, NewRow(g))
  BY <1>1 DEF GoodRow, NewRow, Row
<1>3. ASSUME GoodRow(f, row) PROVE GoodRow(f, Drafted(row, g))
  BY <1>1, <1>3 DEF GoodRow, Drafted, Row, AsServed
<1>4. ASSUME GoodRow(f, row), NEW b \in BOOLEAN PROVE GoodRow(f, [row EXCEPT !.enabled = b])
  BY <1>4 DEF GoodRow, Row, AsServed
<1> QED BY <1>2, <1>3, <1>4

LEMMA LaunchedIsWalkable ==
  ASSUME NEW row \in Row
  PROVE  /\ Launched(row) \in Row
         /\ Launched(row).live \in Graph /\ Walkable(Launched(row).live)
<1>1. row.draft \in Graph
  BY DEF Row
<1>2. Clean(row.draft) \in Graph /\ Walkable(Clean(row.draft))
  BY <1>1, CleanIsWalkable
<1> HIDE DEF Row
<1>3. LaunchedSame(row) \in Row /\ LaunchedSame(row).live = Clean(row.draft)
  BY <1>2 DEF LaunchedSame, Row
<1> QED BY <1>2, <1>3 DEF Launched, Row

LEMMA AdminBegins ==
  ASSUME IInv, NEW a \in Admins, a = calls + 1, NEW kind \in Kinds, NEW f \in Flows, NEW row,
         NEW place \in {"save", "lint", "conflicts", "remove"}, NEW g,
         place # "remove" => GoodRow(f, row), row \in Row, used' \in SUBSET Flows,
         place = "lint" => kind = "publish", place \in {"save", "conflicts"} => kind # "publish",
         BeginAdmin(a, kind, f, row, place, g)
  PROVE  IInv'
<1>1. PICK job : job = [Idle EXCEPT !.kind = kind, !.at = place, !.flow = f, !.row = row]
  OBVIOUS
<1>2. job \in Job
  BY <1>1, IdleIsGood DEF GoodJob, Job, Places
<1>3. /\ job.kind = kind /\ job.at = place /\ job.flow = f /\ job.row = row
      /\ job.from = NoFlow /\ job.cur = NoNode /\ job.wait = NoNode
  BY <1>1 DEF Idle
<1>4. GoodJob(job)
  BY <1>2, <1>3 DEF GoodJob
<1>5. PICK r : r = IF g = NoGraph \/ g.actions = {} THEN [at |-> "done", found |-> {}] ELSE Wanted
  OBVIOUS
<1>6. r \in Answer /\ r.found = {}
  BY <1>5, AnswersTyped DEF Wanted
<1>7. a \in Callers /\ calls' \in 0..MaxCalls
  BY BoundsAssumption DEF Callers, Admins, BeginAdmin
<1>8. GoodCalls'
  BY <1>1, <1>4, <1>7, CallsStay DEF BeginAdmin, IInv
<1>9. GoodReads'
  BY <1>5, <1>6, <1>7, ReadsStay DEF BeginAdmin, IInv
<1> QED
  BY <1>7, <1>8, <1>9 DEF BeginAdmin, IInv, GoodPublished, GoodFlows, GoodRow, GoodCursors,
     CursorWaits, GoodCache, GoodCounts

LEMMA AdminIsCalled ==
  ASSUME IInv, NEW a \in Admins, AdminCall(a)
  PROVE  IInv'
<1>1. PICK f \in Flows :
        \/ /\ used' = used \cup {f}
           /\ \E g \in Bodies : BeginAdmin(a, "create", f, NewRow(g), "save", NoGraph)
        \/ /\ flows[f] # NoRow
           /\ UNCHANGED used
           /\ \/ \E g \in Bodies \cup {flows[f].draft} :
                   BeginAdmin(a, "update", f, Drafted(flows[f], g), "save", NoGraph)
              \/ BeginAdmin(a, "publish", f, flows[f], "lint", Clean(flows[f].draft))
              \/ BeginAdmin(a, "enable", f, [flows[f] EXCEPT !.enabled = TRUE], "conflicts",
                            flows[f].live)
              \/ BeginAdmin(a, "disable", f, [flows[f] EXCEPT !.enabled = FALSE], "save", NoGraph)
              \/ BeginAdmin(a, "remove", f, flows[f], "remove", NoGraph)
  BY DEF AdminCall
<1>2. a = calls + 1 /\ used \subseteq Flows
  BY DEF AdminCall, IInv, GoodCounts
<1>3. flows[f] # NoRow => GoodRow(f, flows[f]) /\ flows[f].draft \in Graph
  BY DEF IInv, GoodFlows, GoodRow, Row
<1>4. CASE /\ used' = used \cup {f}
           /\ \E g \in Bodies : BeginAdmin(a, "create", f, NewRow(g), "save", NoGraph)
  <2>1. PICK g \in Bodies : BeginAdmin(a, "create", f, NewRow(g), "save", NoGraph)
    BY <1>4
  <2>2. GoodRow(f, NewRow(g)) /\ NewRow(g) \in Row
    BY BodiesAssumption, RowsOfGraphs DEF GoodRow
  <2> QED BY <1>2, <1>4, <2>1, <2>2, AdminBegins DEF Kinds
<1>5. CASE /\ flows[f] # NoRow
           /\ UNCHANGED used
           /\ \E g \in Bodies \cup {flows[f].draft} :
                BeginAdmin(a, "update", f, Drafted(flows[f], g), "save", NoGraph)
  <2>1. PICK g \in Bodies \cup {flows[f].draft} :
          BeginAdmin(a, "update", f, Drafted(flows[f], g), "save", NoGraph)
    BY <1>5
  <2>2. GoodRow(f, Drafted(flows[f], g)) /\ Drafted(flows[f], g) \in Row
    BY <1>3, <1>5, BodiesAssumption, RowsOfGraphs DEF GoodRow
  <2> QED BY <1>2, <1>5, <2>1, <2>2, AdminBegins DEF Kinds
<1>6. CASE /\ flows[f] # NoRow
           /\ UNCHANGED used
           /\ \/ BeginAdmin(a, "publish", f, flows[f], "lint", Clean(flows[f].draft))
              \/ BeginAdmin(a, "remove", f, flows[f], "remove", NoGraph)
  BY <1>2, <1>3, <1>6, AdminBegins DEF Kinds, GoodRow
<1>7. CASE /\ flows[f] # NoRow
           /\ UNCHANGED used
           /\ \/ BeginAdmin(a, "enable", f, [flows[f] EXCEPT !.enabled = TRUE], "conflicts",
                            flows[f].live)
              \/ BeginAdmin(a, "disable", f, [flows[f] EXCEPT !.enabled = FALSE], "save", NoGraph)
  <2>1. \A b \in BOOLEAN : GoodRow(f, [flows[f] EXCEPT !.enabled = b])
                           /\ [flows[f] EXCEPT !.enabled = b] \in Row
    BY <1>3, <1>7, RowsOfGraphs DEF GoodRow
  <2> QED BY <1>2, <1>7, <2>1, AdminBegins DEF Kinds
<1> QED BY <1>1, <1>4, <1>5, <1>6, <1>7

LEMMA JobTyped ==
  ASSUME IInv, NEW c \in Callers
  PROVE  /\ GoodJob(call[c]) /\ call[c] \in Job
         /\ reading[c] \in Answer /\ reading[c].found \subseteq published
         /\ \A s \in published : s \in Served /\ s.graph \in Graph /\ Walkable(s.graph)
BY DEF IInv, GoodCalls, GoodJob, GoodReads, GoodPublished, Served

\* A call that ends without touching tables or cache.
LEMMA CallEnds ==
  ASSUME IInv, UNCHANGED <<tables, cache>>, GoodCounts', NEW c \in Callers, Ends(c)
  PROVE  IInv'
<1>1. GoodReads'
  BY AnswersTyped, ReadsStay DEF Ends, IInv, tables, Unread
<1> QED BY <1>1, IdleIsGood, CallGoesOn DEF Ends

\* A call that goes to a place from which nothing of it is saved as it is.
LEMMA PlaceChanges ==
  ASSUME NEW job, GoodJob(job), job.at \notin {"walk", "commit"},
         NEW place \in Places \ {"lint", "conflicts", "save"}
  PROVE  GoodJob([job EXCEPT !.at = place])
<1>1. PICK new : new = [job EXCEPT !.at = place]
  OBVIOUS
<1>2. new \in Job /\ new.at = place
  BY <1>1 DEF GoodJob, Job
<1>3. /\ new.from = job.from /\ new.cur = job.cur /\ new.wait = job.wait
  BY <1>1 DEF GoodJob, Job
<1> QED BY <1>1, <1>2, <1>3 DEF GoodJob

LEMMA CallMoves ==
  ASSUME IInv, UNCHANGED <<tables, cache, reading>>, GoodCounts', NEW c \in Callers,
         call[c].at \notin {"walk", "commit"},
         NEW place \in Places \ {"lint", "conflicts", "save"}, Goes(c, place)
  PROVE  IInv'
<1>1. PICK new : new = [call[c] EXCEPT !.at = place]
  OBVIOUS
<1>2. call' = [call EXCEPT ![c] = new]
  BY <1>1 DEF Goes
<1>3. GoodReads'
  BY ReadsKept DEF IInv, tables
<1> QED BY <1>1, <1>2, <1>3, JobTyped, PlaceChanges, CallGoesOn

LEMMA PublishChecked ==
  ASSUME IInv, NEW a \in Callers, CheckPublish(a)
  PROVE  IInv'
<1>1. GoodCounts' /\ UNCHANGED <<tables, cache>>
  BY DEF CheckPublish, admin, tables, IInv, GoodCounts
<1>2. CASE Ends(a)
  BY <1>1, <1>2, CallEnds
<1>3. CASE call' = [call EXCEPT ![a].row = Launched(@), ![a].at = "save"] /\ UNCHANGED reading
  <2>1. PICK job : job = [call[a] EXCEPT !.row = Launched(call[a].row), !.at = "save"]
    OBVIOUS
  <2>2. call' = [call EXCEPT ![a] = job]
    BY <1>3, <2>1 DEF IInv, GoodCalls
  <2>3. /\ call[a].at = "lint" /\ call[a].kind = "publish"
        /\ call[a].flow \in Flows /\ call[a].row \in Row
    BY JobTyped DEF CheckPublish, At, GoodJob, GoodRow
  <2>4. /\ Launched(call[a].row) \in Row
        /\ Launched(call[a].row).live \in Graph /\ Walkable(Launched(call[a].row).live)
    BY <2>3, LaunchedIsWalkable
  <2>5. job \in Job
    BY <2>1, <2>4, JobTyped DEF Job, Places
  <2>6. /\ job.at = "save" /\ job.kind = "publish" /\ job.flow = call[a].flow
        /\ job.row = Launched(call[a].row)
        /\ job.from = call[a].from /\ job.cur = call[a].cur /\ job.wait = call[a].wait
    BY <2>1, <2>3, JobTyped DEF Job
  <2>7. GoodJob(job)
    BY <2>3, <2>4, <2>5, <2>6, JobTyped DEF GoodJob
  <2>8. GoodReads'
    BY <1>1, <1>3, ReadsKept DEF IInv, tables
  <2> QED BY <1>1, <2>2, <2>7, <2>8, CallGoesOn
<1> QED BY <1>2, <1>3 DEF CheckPublish

LEMMA EnableChecked ==
  ASSUME IInv, NEW a \in Callers, CheckEnable(a)
  PROVE  IInv'
<1>1. GoodCounts' /\ UNCHANGED <<tables, cache>>
  BY DEF CheckEnable, admin, tables, IInv, GoodCounts
<1>2. CASE Ends(a)
  BY <1>1, <1>2, CallEnds
<1>3. CASE Goes(a, "save") /\ UNCHANGED reading
  <2>1. PICK job : job = [call[a] EXCEPT !.at = "save"]
    OBVIOUS
  <2>2. call' = [call EXCEPT ![a] = job]
    BY <1>3, <2>1 DEF Goes
  <2>3. /\ call[a].kind # "publish" /\ call[a].wait = NoNode
        /\ call[a].flow \in Flows /\ GoodRow(call[a].flow, call[a].row)
    BY JobTyped DEF CheckEnable, At, GoodJob
  <2>4. job \in Job
    BY <2>1, JobTyped DEF Job, Places
  <2>5. /\ job.at = "save" /\ job.kind = call[a].kind /\ job.flow = call[a].flow
        /\ job.row = call[a].row
        /\ job.from = call[a].from /\ job.cur = call[a].cur /\ job.wait = call[a].wait
    BY <2>1, JobTyped DEF Job
  <2>6. GoodJob(job)
    BY <2>3, <2>4, <2>5, JobTyped DEF GoodJob, GoodRow
  <2>7. GoodReads'
    BY <1>1, <1>3, ReadsKept DEF IInv, tables
  <2> QED BY <1>1, <2>2, <2>6, <2>7, CallGoesOn
<1> QED BY <1>2, <1>3 DEF CheckEnable

LEMMA FlowSaved ==
  ASSUME IInv, NEW a \in Callers, SaveFlow(a)
  PROVE  IInv'
<1> DEFINE f == call[a].flow
           row == call[a].row
<1>1. call[a].at = "save" /\ call[a].wait = NoNode /\ f \in Flows /\ row \in Row
  BY JobTyped DEF SaveFlow, At, GoodJob
<1>2. published \subseteq published' /\ UNCHANGED <<cursor, cache, used, calls>>
  BY DEF SaveFlow, admin
<1>4. GoodPublished'
  <2>1. CASE call[a].kind = "publish"
    <3>1. row.live \in Graph /\ Walkable(row.live)
      BY <1>1, <2>1, JobTyped DEF GoodJob
    <3>2. AsServed(f, row) \in Served /\ AsServed(f, row).graph = row.live
      BY <1>1, <3>1 DEF AsServed, Served, Row
    <3> QED BY <2>1, <3>1, <3>2 DEF SaveFlow, IInv, GoodPublished
  <2>2. CASE call[a].kind # "publish"
    BY <2>2 DEF SaveFlow, IInv, GoodPublished
  <2> QED BY <2>1, <2>2
<1>5. row.live # NoGraph => AsServed(f, row) \in published'
  <2>1. CASE call[a].kind = "publish"
    BY <2>1 DEF SaveFlow
  <2>2. CASE call[a].kind # "publish"
    BY <1>1, <1>2, <2>2, JobTyped DEF GoodJob, GoodRow
  <2> QED BY <2>1, <2>2
<1>6. GoodFlows'
  <2>1. flows' = [flows EXCEPT ![f] = row]
    BY DEF SaveFlow
  <2>2. flows' \in [Flows -> Row \cup {NoRow}]
    BY <1>1, <2>1 DEF IInv, GoodFlows
  <2>3. ASSUME NEW g \in Flows, flows'[g] # NoRow
        PROVE  flows'[g] \in Row /\ (flows'[g].live # NoGraph => AsServed(g, flows'[g]) \in published')
    BY <1>1, <1>2, <1>5, <2>1, <2>3 DEF IInv, GoodFlows, GoodRow
  <2> QED BY <2>2, <2>3 DEF GoodFlows, GoodRow, AsServed
<1>7. GoodCalls'
  <2>1. PICK place : place = CASE call[a].kind = "disable" -> "clear"
                         [] call[a].kind = "create" -> "get"
                         [] OTHER -> "invalidate"
    OBVIOUS
  <2>2. PICK job : job = [call[a] EXCEPT !.row = NoRow, !.kind = "none", !.at = place]
    OBVIOUS
  <2>3. place \in {"clear", "get", "invalidate"}
    BY <2>1
  <2>4. call' = [call EXCEPT ![a] = job]
    BY <2>1, <2>2 DEF SaveFlow, IInv, GoodCalls
  <2>5. job \in Job
    <3>1. place \in Places /\ "none" \in Kinds /\ NoRow \in Row \cup {NoRow}
      BY <2>3 DEF Places, Kinds
    <3>2. call[a] \in Job
      BY JobTyped
    <3> HIDE DEF f, row
    <3> QED BY <2>2, <3>1, <3>2 DEF Job
  <2>6. job.at = place /\ job.from = call[a].from /\ job.cur = call[a].cur /\ job.wait = call[a].wait
    BY <2>2, JobTyped DEF Job
  <2>7. GoodJob(job)
    BY <1>1, <2>3, <2>5, <2>6, JobTyped DEF GoodJob
  <2> QED BY <1>2, <2>4, <2>7, CallsStay DEF IInv
<1>8. GoodReads'
  BY <1>2, AnswersTyped, ReadsStay DEF SaveFlow, IInv, Unread
<1>9. GoodCursors' /\ GoodCache' /\ GoodCounts'
  BY <1>2 DEF IInv, GoodCursors, CursorWaits, GoodCache, GoodCounts
<1> QED BY <1>4, <1>6, <1>7, <1>8, <1>9 DEF IInv

\* Leaving a flow takes cursors away and moves none.
LEMMA LeftIsGood ==
  ASSUME GoodCursors, UNCHANGED published,
         cursor' \in [Convs -> Cursor \cup {NoCursor}],
         \A v \in Convs : cursor'[v] \in {cursor[v], NoCursor}
  PROVE  GoodCursors'
BY DEF GoodCursors, CursorWaits

LEMMA FlowLeft == ASSUME IInv, NEW f, UNCHANGED published, cursor' = Left(f) PROVE GoodCursors'
BY LeftIsGood DEF IInv, GoodCursors, Left

LEMMA CursorsCleared ==
  ASSUME IInv, NEW a \in Callers, ClearCursors(a)
  PROVE  IInv'
<1>1. UNCHANGED <<flows, cache, reading, used, published, calls>>
  BY DEF ClearCursors, admin
<1>2. PICK job : job = [call[a] EXCEPT !.at = "invalidate"]
  OBVIOUS
<1>3. GoodJob(job) /\ call' = [call EXCEPT ![a] = job]
  BY <1>2, JobTyped, PlaceChanges DEF ClearCursors, At, Goes, Places
<1>4. GoodCalls'
  BY <1>1, <1>3, CallsStay DEF IInv
<1>5. GoodCursors'
  BY <1>1, FlowLeft DEF ClearCursors
<1> QED
  BY <1>1, <1>4, <1>5 DEF IInv, GoodPublished, GoodFlows, GoodRow, GoodCache, GoodReads, GoodCounts

LEMMA ClearingFails ==
  ASSUME IInv, NEW a \in Callers, ClearFails(a)
  PROVE  IInv'
<1>1. UNCHANGED <<tables, cache, calls>> /\ Ends(a)
  BY DEF ClearFails
<1>2. GoodCounts'
  BY <1>1 DEF IInv, GoodCounts, tables
<1> QED BY <1>1, <1>2, CallEnds

LEMMA FlowRemoved ==
  ASSUME IInv, NEW a \in Callers, RemoveFlow(a)
  PROVE  IInv'
<1>1. UNCHANGED <<cache, reading, used, published, calls>>
  BY DEF RemoveFlow, admin
<1>2. PICK job : job = [call[a] EXCEPT !.at = "invalidate"]
  OBVIOUS
<1>3. GoodJob(job) /\ call' = [call EXCEPT ![a] = job]
  BY <1>2, JobTyped, PlaceChanges DEF RemoveFlow, At, Goes, Places
<1>4. GoodCalls'
  BY <1>1, <1>3, CallsStay DEF IInv
<1>5. GoodCursors'
  BY <1>1, FlowLeft DEF RemoveFlow
<1>6. GoodFlows'
  BY <1>1 DEF RemoveFlow, IInv, GoodFlows, GoodRow
<1> QED
  BY <1>1, <1>4, <1>5, <1>6 DEF IInv, GoodPublished, GoodCache, GoodReads, GoodCounts

LEMMA CacheEmptied ==
  ASSUME IInv, NEW a \in Callers, Invalidate(a)
  PROVE  IInv'
<1>1. UNCHANGED <<tables, calls>> /\ cache' = NoCache
  BY DEF Invalidate, admin
<1>2. GoodCalls' /\ GoodReads'
  <2>1. CASE Ends(a)
    BY <1>1, <2>1, IdleIsGood, AnswersTyped, CallsStay, ReadsStay DEF Ends, IInv, tables, Unread
  <2>2. CASE Goes(a, "get") /\ UNCHANGED reading
    <3>1. PICK job : job = [call[a] EXCEPT !.at = "get"]
      OBVIOUS
    <3>2. GoodJob(job) /\ call' = [call EXCEPT ![a] = job]
      BY <2>2, <3>1, JobTyped, PlaceChanges DEF Invalidate, At, Goes, Places
    <3> QED BY <1>1, <2>2, <3>2, CallsStay, ReadsKept DEF IInv, tables
  <2> QED BY <2>1, <2>2 DEF Invalidate
<1> QED
  BY <1>1, <1>2 DEF IInv, tables, GoodPublished, GoodFlows, GoodRow, GoodCursors, CursorWaits,
     GoodCache, GoodCounts

LEMMA FlowFetched ==
  ASSUME IInv, NEW a \in Callers, GetFlow(a)
  PROVE  IInv'
<1>1. UNCHANGED <<tables, cache>> /\ GoodCounts'
  BY DEF GetFlow, admin, tables, IInv, GoodCounts
<1>2. CASE Ends(a)
  BY <1>1, <1>2, CallEnds
<1>3. CASE call' = [call EXCEPT ![a] = Idle] /\ reading' = [reading EXCEPT ![a] = Wanted]
  <2>1. GoodReads'
    BY <1>1, <1>3, AnswersTyped, ReadsStay DEF IInv, tables, Wanted
  <2> QED BY <1>1, <1>3, <2>1, IdleIsGood, CallGoesOn
<1> QED BY <1>2, <1>3 DEF GetFlow

LEMMA AdminSteps ==
  ASSUME IInv, NEW a \in Callers, AdminStep(a)
  PROVE  IInv'
BY PublishChecked, EnableChecked, FlowSaved, CursorsCleared, ClearingFails, FlowRemoved,
   CacheEmptied, FlowFetched DEF AdminStep

-----------------------------------------------------------------------------
(* Customers *)

LEMMA CustomerIsCalled ==
  ASSUME IInv, NEW c \in Customers, CustomerCall(c)
  PROVE  IInv'
<1>1. UNCHANGED <<tables, cache>> /\ GoodCounts' /\ c \in Callers
  BY DEF CustomerCall, admin, tables, IInv, GoodCounts, Callers
<1>2. GoodReads'
  BY <1>1, AnswersTyped, ReadsStay DEF CustomerCall, IInv, tables, Wanted
<1>3. PICK v \in Convs :
        \/ \E text \in Texts :
             call' = [call EXCEPT ![c] = [Idle EXCEPT !.kind = "text", !.at = "lookup",
                                                      !.conv = v, !.text = text]]
        \/ \E action \in Actions :
             call' = [call EXCEPT ![c] = [Idle EXCEPT !.kind = "start", !.at = "start",
                                                      !.conv = v, !.text = action]]
  BY DEF CustomerCall
<1>4. ASSUME NEW kind \in {"text", "start"}, NEW place \in {"lookup", "start"},
             NEW said \in Text \cup Actions,
             call' = [call EXCEPT ![c] = [Idle EXCEPT !.kind = kind, !.at = place,
                                                      !.conv = v, !.text = said]]
      PROVE  IInv'
  <2>1. PICK job : job = [Idle EXCEPT !.kind = kind, !.at = place, !.conv = v, !.text = said]
    OBVIOUS
  <2>2. Idle \in Job
    BY IdleIsGood DEF GoodJob
  <2>3. kind \in Kinds /\ place \in Places
    BY DEF Kinds, Places
  <2>4. job \in Job
    BY <2>1, <2>2, <2>3 DEF Job
  <2>5. job.at = place /\ job.from = NoFlow /\ job.cur = NoNode /\ job.wait = NoNode
    BY <2>1 DEF Idle
  <2>6. GoodJob(job)
    BY <2>4, <2>5 DEF GoodJob
  <2> QED BY <1>1, <1>2, <1>4, <2>1, <2>6, CallGoesOn
<1> QED BY <1>3, <1>4, TextsAssumption

\* A walk begins at a node of a graph that was published.
LEMMA WalkBegins ==
  ASSUME IInv, UNCHANGED published, NEW c \in Callers, call[c].at \notin {"walk", "commit"},
         NEW s \in published, NEW node, node = NoNode \/ node \in DOMAIN s.graph.type,
         Walks(c, s, node)
  PROVE  GoodCalls' /\ GoodReads'
<1>1. PICK job : job = [call[c] EXCEPT !.at = "walk", !.from = s, !.cur = node, !.text = Other]
  OBVIOUS
<1>2. call' = [call EXCEPT ![c] = job]
  BY <1>1 DEF Walks, IInv, GoodCalls
<1>3. call[c] \in Job /\ s \in Served /\ s.graph \in Graph
  BY JobTyped
<1>4. "walk" \in Places /\ node \in Nodes \cup {NoNode}
  BY <1>3, NodesAreTyped DEF Places
<1>5. job \in Job
  BY <1>1, <1>3, <1>4 DEF Job
<1>6. job.at = "walk" /\ job.from = s /\ job.cur = node /\ job.wait = call[c].wait
  BY <1>1, <1>3 DEF Job
<1>7. call[c].wait = NoNode
  BY JobTyped DEF GoodJob
<1>8. GoodJob(job)
  BY <1>5, <1>6, <1>7 DEF GoodJob
<1>9. GoodReads'
  BY AnswersTyped, ReadsStay DEF Walks, IInv, Unread
<1> QED BY <1>2, <1>8, <1>9, CallsStay DEF IInv

\* A call that looks for a flow by keyword, whatever the step does to the cursor.
LEMMA KeywordLeads ==
  ASSUME IInv, UNCHANGED published, NEW c \in Callers, call[c].at \notin {"walk", "commit"},
         ByKeyword(c)
  PROVE  GoodCalls' /\ GoodReads'
<1>1. CASE Ends(c)
  BY <1>1, IdleIsGood, AnswersTyped, CallsStay, ReadsStay DEF Ends, IInv, Unread
<1>2. CASE \E s \in reading[c].found : Walks(c, s, StartNode(s.graph))
  <2>1. PICK s \in reading[c].found : Walks(c, s, StartNode(s.graph))
    BY <1>2
  <2>2. s \in published /\ s.graph \in Graph
    BY JobTyped
  <2> QED BY <2>1, <2>2, StartIsNode, WalkBegins
<1> QED BY <1>1, <1>2 DEF ByKeyword

LEMMA TextIsLookedUp ==
  ASSUME IInv, NEW c \in Callers, LookUp(c)
  PROVE  IInv'
<1> DEFINE place == cursor[call[c].conv]
           goesOn == {s \in reading[c].found : place # NoCursor /\ Continued(c, s)}
<1>1. UNCHANGED <<tables, cache>> /\ GoodCounts' /\ call[c].at = "lookup"
  BY DEF LookUp, At, admin, tables, IInv, GoodCounts
<1>2. \/ ByKeyword(c)
      \/ Goes(c, "leave") /\ UNCHANGED reading
      \/ \E s \in goesOn : Walks(c, s, Target(s.graph, place.node, call[c].text))
  BY DEF LookUp
<1>3. GoodCalls' /\ GoodReads' => IInv'
  BY <1>1 DEF IInv, tables, GoodPublished, GoodFlows, GoodRow, GoodCursors, CursorWaits, GoodCache
<1>4. CASE ByKeyword(c)
  BY <1>1, <1>3, <1>4, KeywordLeads DEF tables
<1>5. CASE Goes(c, "leave") /\ UNCHANGED reading
  BY <1>1, <1>5, CallMoves DEF Places
<1>6. CASE \E s \in goesOn : Walks(c, s, Target(s.graph, place.node, call[c].text))
  <2>1. PICK s \in goesOn : Walks(c, s, Target(s.graph, place.node, call[c].text))
    BY <1>6
  <2>2. s \in published /\ s.graph \in Graph /\ Walkable(s.graph)
    BY JobTyped
  <2>3. \/ Target(s.graph, place.node, call[c].text) = NoNode
        \/ Target(s.graph, place.node, call[c].text) \in DOMAIN s.graph.type
    BY <2>2, TargetIsNode
  <2> QED BY <1>1, <1>3, <2>1, <2>2, <2>3, WalkBegins DEF tables
<1> QED BY <1>2, <1>4, <1>5, <1>6

LEMMA CursorSet ==
  ASSUME GoodCursors, UNCHANGED published, NEW v, NEW new \in {NoCursor},
         cursor' = [cursor EXCEPT ![v] = new]
  PROVE  GoodCursors'
BY LeftIsGood DEF GoodCursors

LEMMA CustomerLeaves ==
  ASSUME IInv, NEW c \in Callers, LeaveFlow(c)
  PROVE  IInv'
<1>1. UNCHANGED <<flows, cache, used, published, calls>> /\ call[c].at = "leave"
  BY DEF LeaveFlow, At, admin
<1>2. GoodCalls' /\ GoodReads'
  BY <1>1, KeywordLeads DEF LeaveFlow
<1>3. GoodCursors'
  BY <1>1, CursorSet DEF LeaveFlow, IInv
<1> QED
  BY <1>1, <1>2, <1>3 DEF IInv, GoodPublished, GoodFlows, GoodRow, GoodCache, GoodCounts

LEMMA CustomerStarts ==
  ASSUME IInv, NEW c \in Callers, StartFlow(c)
  PROVE  IInv'
<1>1. UNCHANGED <<tables, cache>> /\ GoodCounts' /\ call[c].at = "start"
  BY DEF StartFlow, At, admin, tables, IInv, GoodCounts
<1>2. CASE Goes(c, "commit") /\ UNCHANGED reading
  BY <1>1, <1>2, CallMoves DEF Places
<1>3. CASE \E s \in {s \in reading[c].found : call[c].text \in s.graph.actions} :
             Walks(c, s, StartNode(s.graph))
  <2>1. PICK s \in reading[c].found : Walks(c, s, StartNode(s.graph))
    BY <1>3
  <2>2. s \in published /\ s.graph \in Graph
    BY JobTyped
  <2>3. GoodCalls' /\ GoodReads'
    BY <1>1, <2>1, <2>2, StartIsNode, WalkBegins DEF tables
  <2> QED
    BY <1>1, <2>3 DEF IInv, tables, GoodPublished, GoodFlows, GoodRow, GoodCursors, CursorWaits,
       GoodCache
<1> QED BY <1>2, <1>3 DEF StartFlow

\* One step of a walk: what follows is a node of the graph, and where it waits there are buttons.
LEMMA CustomerWalks ==
  ASSUME IInv, NEW c \in Callers, WalkStep(c)
  PROVE  IInv'
<1> DEFINE g == call[c].from.graph
           n == call[c].cur
<1>1. UNCHANGED <<tables, cache, reading>> /\ GoodCounts' /\ call[c].at = "walk"
  BY DEF WalkStep, At, admin, tables, IInv, GoodCounts
<1>2. PICK answered \in BOOLEAN :
        call' = [call EXCEPT
            ![c].steps = @ + 1,
            ![c].said = @ \/ answered \/ (n \in g.says /\ g.type[n] # "start"),
            ![c].wait = IF Waits(g, n) THEN n ELSE NoNode,
            ![c].cur = IF Waits(g, n) \/ g.type[n] \in {"handoff", "end"} THEN NoNode
                       ELSE NextOf(g, n, "next")]
  BY DEF WalkStep
<1>a. PICK said : said = (call[c].said \/ answered \/ (n \in g.says /\ g.type[n] # "start"))
  OBVIOUS
<1>b. PICK wait : wait = IF Waits(g, n) THEN n ELSE NoNode
  OBVIOUS
<1>c. PICK cur : cur = IF Waits(g, n) \/ g.type[n] \in {"handoff", "end"} THEN NoNode
                       ELSE NextOf(g, n, "next")
  OBVIOUS
<1>d. PICK steps : steps = call[c].steps + 1
  OBVIOUS
<1>3. call[c].from \in published /\ n \in DOMAIN g.type /\ call[c].steps < MaxSteps
  BY JobTyped DEF WalkStep, GoesOn, GoodJob
<1>4. g \in Graph /\ Walkable(g)
  BY <1>3, JobTyped
<1>5. cur = NoNode \/ cur \in DOMAIN g.type
  BY <1>c, <1>4, NextIsNode
<1>6. wait = NoNode \/ wait \in Waiting(g)
  BY <1>b DEF Waits
<1>7. cur \in Nodes \cup {NoNode} /\ wait \in Nodes \cup {NoNode}
  BY <1>4, <1>5, <1>6, NodesAreTyped DEF Waiting, NodesOf
<1>8. steps \in 0..MaxSteps /\ said \in BOOLEAN
  BY <1>a, <1>d, <1>3, JobTyped, BoundsAssumption DEF Job
<1>9. PICK job : job = [call[c] EXCEPT !.steps = steps, !.said = said, !.wait = wait, !.cur = cur]
  OBVIOUS
<1>10. call[c] \in Job
  BY JobTyped
<1>e. call' = [call EXCEPT ![c] = job]
  BY <1>2, <1>a, <1>b, <1>c, <1>d, <1>9 DEF IInv, GoodCalls
<1> HIDE DEF g, n
<1>11. job \in Job
  BY <1>7, <1>8, <1>9, <1>10 DEF Job
<1>12. job.at = "walk" /\ job.from = call[c].from /\ job.cur = cur /\ job.wait = wait
  BY <1>1, <1>9, <1>10 DEF Job
<1>13. GoodJob(job)
  BY <1>3, <1>5, <1>6, <1>11, <1>12 DEF GoodJob, g
<1>14. GoodReads'
  BY <1>1, ReadsKept DEF IInv, tables
<1> QED BY <1>1, <1>e, <1>13, <1>14, CallGoesOn

LEMMA WalkIsOver ==
  ASSUME IInv, NEW c \in Callers, WalkEnd(c)
  PROVE  IInv'
<1>1. UNCHANGED <<tables, cache>> /\ GoodCounts' /\ call[c].at = "walk"
  BY DEF WalkEnd, At, admin, tables, IInv, GoodCounts
<1>2. CASE Ends(c)
  BY <1>1, <1>2, CallEnds
<1>3. CASE /\ call' = [call EXCEPT ![c].at = "commit", ![c].steps = 0, ![c].cur = NoNode,
                                   ![c].wait = IF call[c].said THEN @ ELSE NoNode]
           /\ UNCHANGED reading
  <2>1. PICK wait : wait = IF call[c].said THEN call[c].wait ELSE NoNode
    OBVIOUS
  <2>2. PICK job : job = [call[c] EXCEPT !.at = "commit", !.steps = 0, !.cur = NoNode, !.wait = wait]
    OBVIOUS
  <2>3. call[c] \in Job /\ GoodJob(call[c]) /\ "commit" \in Places /\ 0 \in 0..MaxSteps
    BY JobTyped, BoundsAssumption DEF Places
  <2>4. wait \in Nodes \cup {NoNode}
    BY <2>1, <2>3 DEF Job
  <2>5. call' = [call EXCEPT ![c] = job]
    BY <1>3, <2>1, <2>2 DEF IInv, GoodCalls
  <2>6. job \in Job
    BY <2>2, <2>3, <2>4 DEF Job
  <2>7. job.at = "commit" /\ job.from = call[c].from /\ job.cur = NoNode /\ job.wait = wait
    BY <2>2, <2>3 DEF Job
  <2>8. GoodJob(job)
    BY <2>1, <2>3, <2>6, <2>7 DEF GoodJob
  <2>9. GoodReads'
    BY <1>1, <1>3, ReadsKept DEF IInv, tables
  <2> QED BY <1>1, <2>5, <2>8, <2>9, CallGoesOn
<1> QED BY <1>2, <1>3 DEF WalkEnd

\* The place that is saved with a reply is where the walk waited.
LEMMA ReplyIsCommitted ==
  ASSUME IInv, NEW c \in Callers, CommitReply(c)
  PROVE  IInv'
<1>1. UNCHANGED <<flows, cache, used, published, calls>>
  BY DEF CommitReply, admin
<1>2. GoodCalls' /\ GoodReads'
  BY <1>1, IdleIsGood, AnswersTyped, CallsStay, ReadsStay DEF CommitReply, Ends, IInv, Unread
<1>3. GoodCursors'
  <2>1. CASE call[c].wait = NoNode
    BY <1>1, <2>1, CursorSet DEF CommitReply, Reached, IInv
  <2>2. CASE call[c].wait # NoNode
    <3>1. PICK new : new = [flow |-> call[c].from.flow, version |-> call[c].from.version,
                            node |-> call[c].wait]
      OBVIOUS
    <3>2. PICK s \in published : s = call[c].from /\ call[c].wait \in Waiting(s.graph)
      BY <2>2, JobTyped DEF GoodJob
    <3>3. s \in Served /\ s.graph \in Graph
      BY JobTyped
    <3>4. new \in Cursor
      BY <3>1, <3>2, <3>3, NodesAreTyped DEF Cursor, Served, Waiting, NodesOf
    <3>5. /\ s.flow = new.flow /\ s.version = new.version /\ new.node \in Waiting(s.graph)
      BY <3>1, <3>2
    <3>6. cursor' = [cursor EXCEPT ![call[c].conv] = new]
      BY <2>2, <3>1 DEF CommitReply, Reached
    <3>7. cursor' \in [Convs -> Cursor \cup {NoCursor}]
      BY <3>4, <3>6 DEF IInv, GoodCursors
    <3>8. \A v \in Convs : cursor'[v] = cursor[v] \/ cursor'[v] = new
      BY <3>6 DEF IInv, GoodCursors
    <3>9. CursorWaits'
      BY <1>1, <3>5, <3>8 DEF IInv, GoodCursors, CursorWaits
    <3> QED BY <3>7, <3>9 DEF GoodCursors
  <2> QED BY <2>1, <2>2
<1> QED
  BY <1>1, <1>2, <1>3 DEF IInv, GoodPublished, GoodFlows, GoodRow, GoodCache, GoodCounts

LEMMA ReplyIsDropped ==
  ASSUME IInv, NEW c \in Callers, DropReply(c)
  PROVE  IInv'
<1>1. UNCHANGED <<flows, cache, used, published, calls>>
  BY DEF DropReply, admin
<1>2. GoodCalls' /\ GoodReads'
  BY <1>1, IdleIsGood, AnswersTyped, CallsStay, ReadsStay DEF DropReply, Ends, IInv, Unread
<1>3. ASSUME UNCHANGED cursor PROVE GoodCursors'
  BY <1>1, <1>3 DEF IInv, GoodCursors, CursorWaits
<1>4. ASSUME cursor' = [cursor EXCEPT ![call[c].conv] = NoCursor] PROVE GoodCursors'
  BY <1>1, <1>4, CursorSet DEF IInv
<1>5. GoodCursors'
  BY <1>3, <1>4 DEF DropReply
<1> QED
  BY <1>1, <1>2, <1>5 DEF IInv, GoodPublished, GoodFlows, GoodRow, GoodCache, GoodCounts

LEMMA CustomerSteps ==
  ASSUME IInv, NEW c \in Callers, CustomerStep(c)
  PROVE  IInv'
BY TextIsLookedUp, CustomerLeaves, CustomerStarts, CustomerWalks, WalkIsOver, ReplyIsCommitted,
   ReplyIsDropped DEF CustomerStep

-----------------------------------------------------------------------------
(* The whole *)

LEMMA StateCleared ==
  ASSUME IInv, NEW v \in Convs, ClearState(v)
  PROVE  IInv'
<1>1. UNCHANGED <<flows, cache, reading, call, used, published, calls>>
  BY DEF ClearState, admin
<1>2. GoodCursors'
  BY <1>1, CursorSet DEF ClearState, IInv
<1> QED
  BY <1>1, <1>2 DEF IInv, GoodPublished, GoodFlows, GoodRow, GoodCache, GoodReads, GoodCalls,
     GoodJob, GoodCounts

LEMMA Untouched ==
  ASSUME IInv, UNCHANGED <<flows, cursor, reading, call, used, published, calls>>,
         cache' \in {cache, NoCache}
  PROVE  IInv'
BY DEF IInv, GoodPublished, GoodFlows, GoodRow, GoodCursors, CursorWaits, GoodCache, GoodReads,
   GoodCalls, GoodJob, GoodCounts

LEMMA StartsGood == Init => IInv
<1> SUFFICES ASSUME Init PROVE IInv
  OBVIOUS
<1>1. \A f \in Flows : Flows0[f] # NoRow => Flows0[f] \in Row
  BY FlowsAssumption
<1>2. GoodFlows
  BY <1>1, FlowsAssumption DEF Init, GoodFlows, GoodRow
<1>3. GoodPublished
  <2>1. ASSUME NEW f \in Flows, Flows0[f] # NoRow, Flows0[f].live # NoGraph
        PROVE  AsServed(f, Flows0[f]) \in Served /\ Walkable(AsServed(f, Flows0[f]).graph)
    <3>1. Flows0[f].live \in Graph /\ Flows0[f].version \in Nat /\ Walkable(Flows0[f].live)
      BY <1>1, <2>1, FlowsAssumption DEF Row
    <3> QED BY <3>1 DEF AsServed, Served
  <2> QED BY <2>1 DEF Init, GoodPublished
<1>4. GoodCursors
  <2>1. CursorWaits
    <3>1. SUFFICES ASSUME NEW v \in Convs, Cursor0[v] # NoCursor
                   PROVE  \E s \in published :
                            /\ s.flow = Cursor0[v].flow /\ s.version = Cursor0[v].version
                            /\ Cursor0[v].node \in Waiting(s.graph)
      BY DEF Init, CursorWaits
    <3>2. PICK f : f = Cursor0[v].flow
      OBVIOUS
    <3>3. Cursor0[v] \in Cursor
      BY <3>1, CursorsAssumption
    <3>4. f \in Flows
      BY <3>2, <3>3 DEF Cursor
    <3>5. /\ Flows0[f] # NoRow /\ Flows0[f].live # NoGraph /\ Flows0[f].version = Cursor0[v].version
          /\ Cursor0[v].node \in Waiting(Flows0[f].live)
      BY <3>1, <3>2, CursorsAssumption
    <3>6. AsServed(f, Flows0[f]) \in published
      BY <3>4, <3>5 DEF Init
    <3> QED BY <3>2, <3>5, <3>6 DEF AsServed
  <2> QED BY <2>1, CursorsAssumption DEF Init, GoodCursors
<1>5. GoodCache /\ GoodReads /\ GoodCalls
  BY AnswersTyped, IdleIsGood DEF Init, GoodCache, GoodReads, GoodCalls, GoodJob, Unread
<1>6. GoodCounts
  BY BoundsAssumption DEF Init, GoodCounts
<1> QED BY <1>2, <1>3, <1>4, <1>5, <1>6 DEF IInv

LEMMA StepKeeps == IInv /\ [Next]_vars => IInv'
<1> SUFFICES ASSUME IInv, [Next]_vars PROVE IInv'
  OBVIOUS
<1>1. ASSUME NEW a \in Admins, AdminCall(a) \/ AdminStep(a) PROVE IInv'
  BY <1>1, AdminIsCalled, AdminSteps DEF Callers
<1>2. ASSUME NEW c \in Customers, CustomerCall(c) \/ CustomerStep(c) PROVE IInv'
  BY <1>2, CustomerIsCalled, CustomerSteps DEF Callers
<1>3. ASSUME NEW c \in Callers, ReadStep(c) PROVE IInv'
  BY <1>3, FlowsAreRead
<1>4. ASSUME NEW v \in Convs, ClearState(v) PROVE IInv'
  BY <1>4, StateCleared
<1>5. CASE Age
  BY <1>5, Untouched DEF Age, tables, admin
<1>6. CASE UNCHANGED vars
  BY <1>6, Untouched DEF vars
<1> QED BY <1>1, <1>2, <1>3, <1>4, <1>5, <1>6 DEF Next

LEMMA InvHolds == Spec => []IInv
BY StartsGood, StepKeeps, PTL DEF Spec

\* Rows, cursors, cache and calls keep their types whatever overlaps, and a walk never leaves the
\* graph it is walked in (handleText, walkFlow).
THEOREM FlowsAreTyped == Spec => []TypeOK
<1>1. IInv => TypeOK
  <2> SUFFICES ASSUME IInv PROVE TypeOK
    OBVIOUS
  <2>1. published \subseteq Served
    BY DEF IInv, GoodPublished
  <2>2. ASSUME NEW c \in Callers
        PROVE  /\ reading[c].found \subseteq Served /\ call[c].steps \in 0..MaxSteps
               /\ call[c].cur # NoNode => call[c].cur \in DOMAIN call[c].from.graph.type
    BY <2>1, JobTyped DEF GoodJob, Job
  <2> QED
    BY <2>1, <2>2 DEF TypeOK, IInv, GoodFlows, GoodRow, GoodCursors, GoodCache, GoodCounts
<1> QED BY <1>1, InvHolds, PTL

\* What customers are served was published as such, whatever drafts and stale rows are saved
\* (update, publish, setEnabled, remove, publishedFlows).
THEOREM OnlyPublishedIsServed == Spec => []ServedWasPublished
<1>1. IInv => ServedWasPublished
  <2> SUFFICES ASSUME IInv PROVE ServedWasPublished
    OBVIOUS
  <2>1. \A c \in Customers : call[c].from # NoFlow => call[c].from \in published
    BY JobTyped DEF Callers, GoodJob
  <2> QED
    BY <2>1, PublishedRowsArePublished DEF ServedWasPublished, IInv, GoodCache, GoodReads
<1> QED BY <1>1, InvHolds, PTL

\* A remembered place is a question of a graph that was published as that version of the flow
\* (applyState, walkFlow).
THEOREM CursorsWait == Spec => []CursorWaits
<1>1. IInv => CursorWaits
  BY DEF IInv, GoodCursors
<1> QED BY <1>1, InvHolds, PTL

-----------------------------------------------------------------------------
(* Administrators one by one *)

\* What a call has in its memory is the row of the table, when no other call is in progress.
SameRow(job) ==
  /\ flows[job.flow] # NoRow
  /\ job.row.version = flows[job.flow].version /\ job.row.live = flows[job.flow].live
Agrees(job) ==
  /\ job.at = "lint" => SameRow(job)
  /\ job.at = "conflicts" => job.kind # "create" /\ SameRow(job)
  /\ job.at = "save" /\ job.kind = "create" => \A s \in published : s.flow # job.flow
  /\ job.at = "save" /\ job.kind = "publish" =>
       flows[job.flow] # NoRow /\ job.row.version = flows[job.flow].version + 1
  /\ job.at = "save" /\ job.kind \notin {"create", "publish"} => SameRow(job)

Working(a) == call[a].at # "idle"
OneWorks == \A a, b \in Admins : Working(a) /\ Working(b) => a = b
Sticks ==
  \A f \in Flows, s \in published :
    flows[f] # NoRow /\ s.flow = f =>
      /\ s.version <= flows[f].version
      /\ s.version = flows[f].version => s.graph = flows[f].live

\* Ids are given once, and what belongs to a flow has the id of one.
IdsUsed ==
  /\ \A s \in published : s.flow \in used
  /\ \A f \in Flows : flows[f] # NoRow => f \in used
  /\ \A a \in Admins : call[a].at \in {"lint", "conflicts", "save"} => call[a].flow \in used

CalmInv == calm => OneWorks /\ Sticks /\ \A a \in Admins : Agrees(call[a])
StickInv == IdsUsed /\ CalmInv

\* Steps of others.
LEMMA OthersAgree ==
  ASSUME StickInv, UNCHANGED <<flows, published, used>>, calm' => calm,
         \A a \in Admins : call'[a] = call[a]
  PROVE  StickInv'
BY DEF StickInv, IdsUsed, CalmInv, OneWorks, Working, Sticks, Agrees, SameRow

LEMMA CustomersApart ==
  ASSUME IInv, NEW c \in Customers, CustomerCall(c) \/ CustomerStep(c)
  PROVE  /\ UNCHANGED <<flows, published, used, calm>>
         /\ \A a \in Admins : call'[a] = call[a]
<1>1. \A a \in Admins : a # c
  BY CallersAssumption
<1>2. call \in [Callers -> Job]
  BY DEF IInv, GoodCalls
<1>3. CASE CustomerCall(c)
  BY <1>1, <1>2, <1>3 DEF CustomerCall, tables, admin, Callers
<1>4. CASE LookUp(c)
  BY <1>1, <1>2, <1>4 DEF LookUp, ByKeyword, Walks, Goes, Ends, tables, admin, Callers
<1>5. CASE LeaveFlow(c)
  BY <1>1, <1>2, <1>5 DEF LeaveFlow, ByKeyword, Walks, Ends, admin, Callers
<1>6. CASE StartFlow(c)
  BY <1>1, <1>2, <1>6 DEF StartFlow, Walks, Goes, tables, admin, Callers
<1>7. CASE WalkStep(c)
  BY <1>1, <1>2, <1>7 DEF WalkStep, tables, admin, Callers
<1>8. CASE WalkEnd(c)
  BY <1>1, <1>2, <1>8 DEF WalkEnd, Ends, tables, admin, Callers
<1>9. CASE CommitReply(c) \/ DropReply(c)
  BY <1>1, <1>2, <1>9 DEF CommitReply, DropReply, Ends, admin, Callers
<1> QED BY <1>3, <1>4, <1>5, <1>6, <1>7, <1>8, <1>9 DEF CustomerStep

\* An administrator's call that moves on without touching flows.
LEMMA WorkerMoves ==
  ASSUME StickInv, NEW a \in Admins, Working(a), UNCHANGED <<published, used, calm>>,
         flows' = flows \/ \E f \in Flows : flows' = [flows EXCEPT ![f] = NoRow],
         DOMAIN flows = Flows,
         \A b \in Admins : b # a => call'[b] = call[b],
         call'[a].at \notin {"lint", "conflicts", "save"}
  PROVE  StickInv'
<1>1. \A f \in Flows : flows'[f] \in {flows[f], NoRow}
  OBVIOUS
<1>2. IdsUsed'
  BY <1>1 DEF StickInv, IdsUsed
<1>3. ASSUME calm' PROVE OneWorks' /\ Sticks' /\ \A b \in Admins : Agrees(call[b])'
  <2>1. calm /\ OneWorks /\ Sticks
    BY <1>3 DEF StickInv, CalmInv
  <2>2. \A b \in Admins : b # a => call[b].at = "idle" /\ call'[b].at = "idle"
    BY <2>1 DEF OneWorks, Working
  <2>3. OneWorks'
    BY <2>2 DEF OneWorks, Working
  <2>4. Sticks'
    BY <1>1, <2>1 DEF Sticks
  <2>5. \A b \in Admins : Agrees(call[b])'
    BY <2>2 DEF Agrees
  <2> QED BY <2>3, <2>4, <2>5
<1> QED BY <1>2, <1>3 DEF StickInv, CalmInv

LEMMA BeginSticks ==
  ASSUME IInv, StickInv, NEW a \in Admins, NEW kind, NEW f \in Flows, NEW row, NEW place, NEW g,
         place # "idle", BeginAdmin(a, kind, f, row, place, g),
         used' = used \/ used' = used \cup {f},
         place \in {"lint", "conflicts", "save"} => f \in used',
         place \in {"lint", "conflicts"} => kind # "create",
         place = "save" => kind # "publish",
         kind # "create" => /\ flows[f] # NoRow
                            /\ row.version = flows[f].version /\ row.live = flows[f].live,
         kind = "create" => f \notin used
  PROVE  StickInv'
<1>1. PICK job : job = [Idle EXCEPT !.kind = kind, !.at = place, !.flow = f, !.row = row]
  OBVIOUS
<1>2. job.kind = kind /\ job.at = place /\ job.flow = f /\ job.row = row
  BY <1>1 DEF Idle
<1>3. call' = [call EXCEPT ![a] = job] /\ UNCHANGED <<flows, published>>
  BY <1>1 DEF BeginAdmin
<1>4. call'[a] = job /\ \A b \in Admins : b # a => call'[b] = call[b]
  BY <1>3 DEF IInv, GoodCalls, Callers
<1>5. calm' => calm /\ \A b \in Admins : call[b].at = "idle"
  BY DEF BeginAdmin, At
<1>6. IdsUsed'
  BY <1>2, <1>3, <1>4 DEF StickInv, IdsUsed
<1>7. ASSUME calm' PROVE OneWorks' /\ Sticks' /\ \A b \in Admins : Agrees(call[b])'
  <2>1. OneWorks'
    BY <1>4, <1>5, <1>7 DEF OneWorks, Working
  <2>2. Sticks'
    BY <1>3, <1>5, <1>7 DEF StickInv, CalmInv, Sticks
  <2>3. \A b \in Admins : b # a => Agrees(call[b])'
    BY <1>4, <1>5, <1>7 DEF Agrees
  <2>4. Agrees(call[a])'
    BY <1>2, <1>3, <1>4 DEF Agrees, SameRow, StickInv, IdsUsed
  <2> QED BY <2>1, <2>2, <2>3, <2>4
<1> QED BY <1>6, <1>7 DEF StickInv, CalmInv

LEMMA CalledSticks ==
  ASSUME IInv, StickInv, NEW a \in Admins, AdminCall(a)
  PROVE  StickInv'
<1>1. PICK f \in Flows :
        \/ /\ f \notin used
           /\ used' = used \cup {f}
           /\ \E g \in Bodies : BeginAdmin(a, "create", f, NewRow(g), "save", NoGraph)
        \/ /\ flows[f] # NoRow
           /\ UNCHANGED used
           /\ \/ \E g \in Bodies \cup {flows[f].draft} :
                   BeginAdmin(a, "update", f, Drafted(flows[f], g), "save", NoGraph)
              \/ BeginAdmin(a, "publish", f, flows[f], "lint", Clean(flows[f].draft))
              \/ BeginAdmin(a, "enable", f, [flows[f] EXCEPT !.enabled = TRUE], "conflicts",
                            flows[f].live)
              \/ BeginAdmin(a, "disable", f, [flows[f] EXCEPT !.enabled = FALSE], "save", NoGraph)
              \/ BeginAdmin(a, "remove", f, flows[f], "remove", NoGraph)
  BY DEF AdminCall
<1>2. flows[f] # NoRow => flows[f] \in Row /\ f \in used
  BY DEF IInv, GoodFlows, GoodRow, StickInv, IdsUsed
<1>3. CASE /\ f \notin used
           /\ used' = used \cup {f}
           /\ \E g \in Bodies : BeginAdmin(a, "create", f, NewRow(g), "save", NoGraph)
  BY <1>3, BeginSticks
<1>4. CASE flows[f] # NoRow /\ UNCHANGED used
  <2>1. \A g : /\ Drafted(flows[f], g).version = flows[f].version
               /\ Drafted(flows[f], g).live = flows[f].live
    BY <1>2, <1>4 DEF Drafted, Row
  <2>3. CASE \E g \in Bodies \cup {flows[f].draft} :
               BeginAdmin(a, "update", f, Drafted(flows[f], g), "save", NoGraph)
    BY <1>2, <1>4, <2>1, <2>3, BeginSticks
  <2>4. CASE \/ BeginAdmin(a, "publish", f, flows[f], "lint", Clean(flows[f].draft))
             \/ BeginAdmin(a, "remove", f, flows[f], "remove", NoGraph)
    BY <1>2, <1>4, <2>4, BeginSticks
  <2>5. CASE BeginAdmin(a, "enable", f, [flows[f] EXCEPT !.enabled = TRUE], "conflicts",
                        flows[f].live)
    <3>1. PICK row : row = [flows[f] EXCEPT !.enabled = TRUE]
      OBVIOUS
    <3>2. row.version = flows[f].version /\ row.live = flows[f].live
      BY <1>2, <1>4, <3>1 DEF Row
    <3>3. BeginAdmin(a, "enable", f, row, "conflicts", flows[f].live)
      BY <2>5, <3>1
    <3> QED BY <1>2, <1>4, <3>2, <3>3, BeginSticks
  <2>6. CASE BeginAdmin(a, "disable", f, [flows[f] EXCEPT !.enabled = FALSE], "save", NoGraph)
    <3>1. PICK row : row = [flows[f] EXCEPT !.enabled = FALSE]
      OBVIOUS
    <3>2. row.version = flows[f].version /\ row.live = flows[f].live
      BY <1>2, <1>4, <3>1 DEF Row
    <3>3. BeginAdmin(a, "disable", f, row, "save", NoGraph)
      BY <2>6, <3>1
    <3> QED BY <1>2, <1>4, <3>2, <3>3, BeginSticks
  <2> QED BY <1>1, <1>4, <2>3, <2>4, <2>5, <2>6
<1> QED BY <1>1, <1>3, <1>4

\* The call has checked what it wants to save.
LEMMA CheckSticks ==
  ASSUME IInv, StickInv, NEW a \in Admins, NEW job, GoodJob(call[a]),
         \/ /\ call[a].at = "lint" /\ job.kind = "publish" /\ job.at = "save"
            /\ job.row.version = call[a].row.version + 1
         \/ /\ call[a].at = "conflicts" /\ job.kind = call[a].kind /\ job.at = "save"
            /\ job.row = call[a].row,
         job.flow = call[a].flow, UNCHANGED <<flows, published, used, calm>>,
         call' = [call EXCEPT ![a] = job]
  PROVE  StickInv'
<1>1. call'[a] = job /\ \A b \in Admins : b # a => call'[b] = call[b]
  BY DEF IInv, GoodCalls, Callers
<1>2. IdsUsed'
  BY <1>1 DEF StickInv, IdsUsed
<1>3. ASSUME calm' PROVE OneWorks' /\ Sticks' /\ \A b \in Admins : Agrees(call[b])'
  <2>1. calm /\ OneWorks /\ Sticks /\ \A b \in Admins : Agrees(call[b])
    BY <1>3 DEF StickInv, CalmInv
  <2>2. OneWorks' /\ Sticks'
    BY <1>1, <2>1 DEF OneWorks, Working, Sticks
  <2>3. \A b \in Admins : b # a => Agrees(call[b])'
    BY <1>1, <2>1 DEF Agrees, SameRow
  <2>4. Agrees(call[a])'
    BY <1>1, <2>1 DEF Agrees, SameRow, GoodJob
  <2> QED BY <2>2, <2>3, <2>4
<1> QED BY <1>2, <1>3 DEF StickInv, CalmInv

\* One saved row, when no other call is in progress.
LEMMA SaveSticks ==
  ASSUME IInv, StickInv, NEW a \in Admins, SaveFlow(a)
  PROVE  StickInv'
<1> DEFINE f == call[a].flow
           row == call[a].row
<1>1. call[a].at = "save" /\ f \in Flows /\ row \in Row /\ a \in Callers
  BY JobTyped DEF SaveFlow, At, GoodJob, Callers
<1>2. UNCHANGED <<used, calm>> /\ flows' = [flows EXCEPT ![f] = row]
  BY DEF SaveFlow, admin
<1>3. published' = IF call[a].kind # "publish" THEN published
                   ELSE published \cup {AsServed(f, row)}
  BY DEF SaveFlow
<1>4. /\ call'[a].at \notin {"idle", "lint", "conflicts", "save"}
      /\ \A b \in Admins : b # a => call'[b] = call[b]
  <2>1. call[a] \in Job
    BY <1>1, JobTyped
  <2>2. PICK place : place = CASE call[a].kind = "disable" -> "clear"
                               [] call[a].kind = "create" -> "get"
                               [] OTHER -> "invalidate"
    OBVIOUS
  <2>3. call' = [call EXCEPT ![a] = [call[a] EXCEPT !.row = NoRow, !.kind = "none", !.at = place]]
    BY <2>2 DEF SaveFlow, IInv, GoodCalls
  <2>4. place \notin {"idle", "lint", "conflicts", "save"}
    BY <2>2
  <2> HIDE DEF f, row
  <2>5. call'[a] = [call[a] EXCEPT !.row = NoRow, !.kind = "none", !.at = place]
    BY <1>1, <2>3 DEF IInv, GoodCalls
  <2>6. call'[a].at = place
    BY <2>1, <2>5 DEF Job
  <2> QED BY <1>1, <2>3, <2>4, <2>6 DEF IInv, GoodCalls, Callers
<1>5. DOMAIN flows = Flows /\ \A g \in Flows : flows'[g] = IF g = f THEN row ELSE flows[g]
  BY <1>1, <1>2 DEF IInv, GoodFlows
<1>6. IdsUsed'
  <2>1. f \in used
    BY <1>1 DEF StickInv, IdsUsed
  <2>2. AsServed(f, row).flow = f
    BY DEF AsServed
  <2>3. \A s \in published' : s.flow \in used
    BY <1>3, <2>1, <2>2 DEF StickInv, IdsUsed
  <2>4. \A g \in Flows : flows'[g] # NoRow => g \in used
    BY <1>5, <2>1 DEF StickInv, IdsUsed
  <2>5. \A b \in Admins : call'[b].at \in {"lint", "conflicts", "save"} => call'[b].flow \in used
    BY <1>4 DEF StickInv, IdsUsed
  <2> QED BY <1>2, <2>3, <2>4, <2>5 DEF IdsUsed
<1>7. ASSUME calm' PROVE OneWorks' /\ Sticks' /\ \A b \in Admins : Agrees(call[b])'
  <2>1. OneWorks /\ Sticks /\ Agrees(call[a])
    BY <1>2, <1>7 DEF StickInv, CalmInv
  <2>2. \A b \in Admins : b # a => call[b].at = "idle" /\ call'[b].at = "idle"
    BY <1>1, <1>4, <2>1 DEF OneWorks, Working
  <2>3. OneWorks'
    BY <2>2 DEF OneWorks, Working
  <2>4. \A b \in Admins : Agrees(call[b])'
    BY <1>4, <2>2 DEF Agrees
  <2>5. Sticks'
    <3>1. SUFFICES ASSUME NEW s \in published', s.flow = f
                   PROVE  s.version <= row.version /\ (s.version = row.version => s.graph = row.live)
      BY <1>3, <1>5, <2>1 DEF Sticks, AsServed
    <3>2. row.version \in Nat /\ \A t \in published : t.version \in Nat
      BY <1>1 DEF Row, IInv, GoodPublished, Served
    <3>3. CASE call[a].kind = "create"
      BY <1>1, <1>3, <2>1, <3>1, <3>3 DEF Agrees
    <3>4. CASE call[a].kind = "publish"
      <4>1. flows[f] # NoRow /\ row.version = flows[f].version + 1 /\ flows[f].version \in Nat
        BY <1>1, <2>1, <3>4 DEF Agrees, IInv, GoodFlows, GoodRow, Row
      <4>2. CASE s = AsServed(f, row)
        BY <3>2, <4>2 DEF AsServed
      <4>3. CASE s \in published
        <5>1. s.version <= flows[f].version
          BY <1>1, <2>1, <3>1, <4>1, <4>3 DEF Sticks
        <5> QED BY <3>2, <4>1, <4>3, <5>1
      <4> QED BY <1>3, <3>1, <3>4, <4>2, <4>3
    <3>5. CASE call[a].kind \notin {"create", "publish"}
      BY <1>1, <1>3, <2>1, <3>1, <3>5 DEF Agrees, SameRow, Sticks
    <3> QED BY <3>3, <3>4, <3>5
  <2> QED BY <2>3, <2>4, <2>5
<1> QED BY <1>6, <1>7 DEF StickInv, CalmInv

LEMMA WorkSticks ==
  ASSUME IInv, StickInv, NEW a \in Admins, AdminStep(a)
  PROVE  StickInv'
<1>1. a \in Callers /\ call[a] \in Job /\ GoodJob(call[a]) /\ DOMAIN flows = Flows
  BY JobTyped DEF Callers, IInv, GoodFlows
<1>2. call \in [Callers -> Job] /\ \A b \in Admins : b \in Callers
  BY DEF IInv, GoodCalls, Callers
<1>3. ASSUME NEW job, call' = [call EXCEPT ![a] = job]
      PROVE  call'[a] = job /\ \A b \in Admins : b # a => call'[b] = call[b]
  BY <1>1, <1>2, <1>3
<1>4. ASSUME NEW place, Goes(a, place)
      PROVE  call'[a].at = place /\ \A b \in Admins : b # a => call'[b] = call[b]
  <2>1. call' = [call EXCEPT ![a] = [call[a] EXCEPT !.at = place]]
    BY <1>2, <1>4 DEF Goes
  <2> QED BY <1>1, <1>3, <2>1 DEF Job
<1>5. ASSUME Ends(a)
      PROVE  call'[a].at = "idle" /\ \A b \in Admins : b # a => call'[b] = call[b]
  BY <1>3, <1>5 DEF Ends, Idle
<1>6. CASE CheckPublish(a)
  <2>1. UNCHANGED <<flows, published, used, calm>> /\ call[a].at = "lint"
    BY <1>6 DEF CheckPublish, At, tables, admin
  <2>2. CASE Ends(a)
    BY <1>5, <2>1, <2>2, WorkerMoves, <1>1 DEF Working
  <2>3. CASE call' = [call EXCEPT ![a].row = Launched(@), ![a].at = "save"]
    <3>1. PICK job : job = [call[a] EXCEPT !.row = Launched(call[a].row), !.at = "save"]
      OBVIOUS
    <3>2. call' = [call EXCEPT ![a] = job]
      BY <1>2, <2>3, <3>1
    <3>3. call[a].kind = "publish" /\ call[a].row \in Row
      BY <1>1, <2>1 DEF GoodJob, GoodRow
    <3>4. Launched(call[a].row).version = call[a].row.version + 1
      BY <3>3 DEF Launched, LaunchedSame, Row
    <3>5. /\ job.kind = "publish" /\ job.at = "save" /\ job.flow = call[a].flow
          /\ job.row = Launched(call[a].row)
      BY <1>1, <3>1, <3>3 DEF Job
    <3> QED BY <1>1, <2>1, <3>2, <3>4, <3>5, CheckSticks
  <2> QED BY <1>6, <2>2, <2>3 DEF CheckPublish
<1>7. CASE CheckEnable(a)
  <2>1. UNCHANGED <<flows, published, used, calm>> /\ call[a].at = "conflicts"
    BY <1>7 DEF CheckEnable, At, tables, admin
  <2>2. CASE Ends(a)
    BY <1>5, <2>1, <2>2, WorkerMoves, <1>1 DEF Working
  <2>3. CASE Goes(a, "save")
    <3>1. PICK job : job = [call[a] EXCEPT !.at = "save"]
      OBVIOUS
    <3>2. call' = [call EXCEPT ![a] = job]
      BY <1>2, <2>3, <3>1 DEF Goes
    <3>3. /\ job.kind = call[a].kind /\ job.at = "save" /\ job.flow = call[a].flow
          /\ job.row = call[a].row
      BY <1>1, <3>1 DEF Job
    <3> QED BY <1>1, <2>1, <3>2, <3>3, CheckSticks
  <2> QED BY <1>7, <2>2, <2>3 DEF CheckEnable
<1>8. CASE SaveFlow(a)
  BY <1>8, SaveSticks
<1>9. CASE ClearCursors(a)
  BY <1>1, <1>4, <1>9, WorkerMoves DEF ClearCursors, At, Working, admin
<1>13. CASE ClearFails(a)
  <2>1. UNCHANGED <<flows, published, used>> /\ ~calm'
    BY <1>13 DEF ClearFails, tables
  <2>2. IdsUsed'
    BY <1>5, <1>13, <2>1 DEF ClearFails, StickInv, IdsUsed
  <2> QED BY <2>1, <2>2 DEF StickInv, CalmInv
<1>10. CASE RemoveFlow(a)
  <2>1. \A f : [flows EXCEPT ![f] = NoRow] = flows \/ f \in Flows
    BY <1>1 DEF IInv, GoodFlows
  <2>2. flows' = [flows EXCEPT ![call[a].flow] = NoRow] /\ UNCHANGED <<published, used, calm>>
    BY <1>10 DEF RemoveFlow, admin
  <2>3. Goes(a, "invalidate") /\ Working(a)
    BY <1>10 DEF RemoveFlow, At, Working
  <2>4. flows' = flows \/ \E f \in Flows : flows' = [flows EXCEPT ![f] = NoRow]
    BY <2>1, <2>2
  <2>5. call'[a].at = "invalidate" /\ \A b \in Admins : b # a => call'[b] = call[b]
    BY <1>4, <2>3
  <2> QED BY <1>1, <2>2, <2>3, <2>4, <2>5, WorkerMoves
<1>11. CASE Invalidate(a)
  BY <1>1, <1>4, <1>5, <1>11, WorkerMoves DEF Invalidate, At, Working, tables, admin
<1>12. CASE GetFlow(a)
  <2>1. Ends(a) \/ call' = [call EXCEPT ![a] = Idle]
    BY <1>12 DEF GetFlow
  <2>2. call'[a].at = "idle" /\ \A b \in Admins : b # a => call'[b] = call[b]
    BY <1>3, <1>5, <2>1 DEF Idle
  <2> QED BY <1>1, <1>12, <2>2, WorkerMoves DEF GetFlow, At, Working, tables, admin
<1> QED BY <1>6, <1>7, <1>8, <1>9, <1>10, <1>11, <1>12, <1>13 DEF AdminStep

LEMMA StickStarts == Init => StickInv
<1> SUFFICES ASSUME Init PROVE StickInv
  OBVIOUS
<1>1. IdsUsed
  BY DEF Init, IdsUsed, AsServed, Idle, Callers
<1>2. OneWorks /\ \A a \in Admins : Agrees(call[a])
  BY DEF Init, OneWorks, Working, Agrees, Idle, Callers
<1>3. Sticks
  <2>1. SUFFICES ASSUME NEW f \in Flows, NEW g \in Flows, Flows0[f] # NoRow, Flows0[g] # NoRow,
                        AsServed(g, Flows0[g]).flow = f
                 PROVE  LET s == AsServed(g, Flows0[g])
                        IN /\ s.version <= Flows0[f].version
                           /\ s.version = Flows0[f].version => s.graph = Flows0[f].live
    BY DEF Init, Sticks
  <2>2. g = f
    BY <2>1 DEF AsServed
  <2>3. Flows0[f].version \in Nat
    BY <2>1, FlowsAssumption DEF Row
  <2> QED BY <2>2, <2>3 DEF AsServed
<1> QED BY <1>1, <1>2, <1>3 DEF StickInv, CalmInv

LEMMA StickStep == IInv /\ StickInv /\ [Next]_vars => StickInv'
<1> SUFFICES ASSUME IInv, StickInv, [Next]_vars PROVE StickInv'
  OBVIOUS
<1>1. ASSUME NEW a \in Admins, AdminCall(a) \/ AdminStep(a) PROVE StickInv'
  BY <1>1, CalledSticks, WorkSticks
<1>2. ASSUME NEW c \in Customers, CustomerCall(c) \/ CustomerStep(c) PROVE StickInv'
  <2>1. UNCHANGED <<flows, published, used, calm>> /\ \A a \in Admins : call'[a] = call[a]
    BY <1>2, CustomersApart
  <2> QED BY <2>1, OthersAgree
<1>3. ASSUME NEW c \in Callers, ReadStep(c) PROVE StickInv'
  <2>1. UNCHANGED <<flows, published, used, call>>
    BY <1>3 DEF ReadStep, AskFlows, QueryFlows, FillCache, tables
  <2>2. calm' = calm \/ calm' = (calm /\ reading[c].found = PublishedRows)
    BY <1>3 DEF ReadStep, AskFlows, QueryFlows, FillCache, admin
  <2>3. calm' => calm
    BY <2>2, Zenon
  <2> QED BY <2>1, <2>3, OthersAgree
<1>4. ASSUME NEW v \in Convs, ClearState(v) PROVE StickInv'
  BY <1>4, OthersAgree DEF ClearState, admin
<1>5. CASE Age
  BY <1>5, OthersAgree DEF Age, tables, admin
<1>6. CASE UNCHANGED vars
  BY <1>6, OthersAgree DEF vars
<1> QED BY <1>1, <1>2, <1>3, <1>4, <1>5, <1>6 DEF Next

\* While administrators work one by one, a row is at the last version ever published and a
\* version names one graph, whatever customers and caches do meanwhile (publish, update, remove).
THEOREM PublishesStick == Spec => []PublishSticks
<1>1. IInv /\ StickInv => PublishSticks
  BY DEF StickInv, CalmInv, Sticks, PublishSticks
<1>2. IInv /\ StickInv /\ [Next]_vars => StickInv'
  BY StickStep
<1> QED BY <1>1, <1>2, StickStarts, InvHolds, PTL DEF Spec
-----------------------------------------------------------------------------
(***************************************************************************)
(* What the cache of published flows is good for, while administrators     *)
(* work one by one: it holds what is published but for the moment between  *)
(* a save and the end of the call's work on the cache, so a call that      *)
(* checks a graph compares its start buttons with what is published, and   *)
(* no two enabled flows ever share one.                                    *)
(***************************************************************************)


IsServed(row) == row # NoRow /\ row.enabled /\ row.live # NoGraph /\ row.version > 0

\* The call has saved and not yet emptied the cache.
Saved(a) == call[a].at \in {"clear", "invalidate"}

\* The call has a graph with start buttons to compare with what is published.
Wants(job) ==
  \/ job.at = "lint" /\ job.row.draft.actions # {}
  \/ job.at = "conflicts" /\ job.row.live # NoGraph /\ job.row.live.actions # {}

\* It compares it with what is published now.
ReadsNow(job, read) ==
  Wants(job) => \/ read.at \in {"wanted", "query"}
                \/ read.at \in {"fill", "done"} /\ read.found = PublishedRows

\* A graph has start buttons that no other published flow has.
Alone(f, g) == \A s \in PublishedRows : s.flow # f => g.actions \cap s.graph.actions = {}
Fits(job) == job.at = "save" /\ IsServed(job.row) => Alone(job.flow, job.row.live)

CacheInv == cache # NoCache => cache = PublishedRows \/ \E a \in Admins : Saved(a)
ApartInv == \A s, t \in PublishedRows : s.flow # t.flow => s.graph.actions \cap t.graph.actions = {}
ReadInv == \A a \in Admins : ReadsNow(call[a], reading[a]) /\ Fits(call[a])
ServeInv == calm => CacheInv /\ ApartInv /\ ReadInv

-----------------------------------------------------------------------------

LEMMA RowsServed ==
  \A s : s \in PublishedRows <=>
    \E f \in Flows : IsServed(flows[f]) /\ s = AsServed(f, flows[f])
BY DEF PublishedRows, IsServed

LEMMA SameRows == ASSUME UNCHANGED flows PROVE PublishedRows' = PublishedRows
BY DEF PublishedRows, AsServed

\* Steps that touch nothing of the administrators', and at most empty the cache.
LEMMA OthersServe ==
  ASSUME ServeInv, UNCHANGED flows, calm' => calm, cache' \in {cache, NoCache},
         \A a \in Admins : call'[a] = call[a] /\ reading'[a] = reading[a]
  PROVE  ServeInv'
<1>1. PublishedRows' = PublishedRows
  BY SameRows
<1>2. ASSUME calm' PROVE CacheInv' /\ ApartInv' /\ ReadInv'
  <2>1. CacheInv /\ ApartInv /\ ReadInv
    BY <1>2 DEF ServeInv
  <2>2. CacheInv'
    BY <1>1, <2>1 DEF CacheInv, Saved
  <2>3. ApartInv'
    BY <1>1, <2>1 DEF ApartInv
  <2>4. ReadInv'
    BY <1>1, <2>1 DEF ReadInv, ReadsNow, Wants, Fits, IsServed, Alone
  <2> QED BY <2>2, <2>3, <2>4
<1> QED BY <1>2 DEF ServeInv

LEMMA CustomersReadApart ==
  ASSUME IInv, NEW c \in Customers, CustomerCall(c) \/ CustomerStep(c)
  PROVE  UNCHANGED cache /\ \A a \in Admins : reading'[a] = reading[a]
<1>1. \A a \in Admins : a # c
  BY CallersAssumption
<1>2. DOMAIN reading = Callers /\ Admins \subseteq Callers
  BY DEF IInv, GoodReads, Callers
<1>3. CASE CustomerCall(c)
  BY <1>1, <1>2, <1>3 DEF CustomerCall
<1>4. CASE LookUp(c)
  BY <1>1, <1>2, <1>4 DEF LookUp, ByKeyword, Walks, Ends
<1>5. CASE LeaveFlow(c)
  BY <1>1, <1>2, <1>5 DEF LeaveFlow, ByKeyword, Walks, Ends
<1>6. CASE StartFlow(c)
  BY <1>1, <1>2, <1>6 DEF StartFlow, Walks
<1>7. CASE WalkStep(c) \/ WalkEnd(c)
  BY <1>1, <1>2, <1>7 DEF WalkStep, WalkEnd, Ends
<1>8. CASE CommitReply(c) \/ DropReply(c)
  BY <1>1, <1>2, <1>8 DEF CommitReply, DropReply, Ends
<1> QED BY <1>3, <1>4, <1>5, <1>6, <1>7, <1>8 DEF CustomerStep

\* Whoever reads the flows, an administrator that checks a graph gets what is published: nobody
\* else has saved and left the cache as it was.
LEMMA ReadServes ==
  ASSUME IInv, StickInv, ServeInv, NEW c \in Callers, ReadStep(c)
  PROVE  ServeInv'
<1>1. UNCHANGED <<flows, call>> /\ PublishedRows' = PublishedRows
  BY SameRows DEF ReadStep, AskFlows, QueryFlows, FillCache, tables
<1>2. SUFFICES ASSUME calm' PROVE CacheInv' /\ ApartInv' /\ ReadInv'
  BY DEF ServeInv
<1>3. calm' = calm \/ calm' = (calm /\ reading[c].found = PublishedRows)
  BY DEF ReadStep, AskFlows, QueryFlows, FillCache, admin
<1>4. calm
  BY <1>2, <1>3, Zenon
<1>5. CacheInv /\ ApartInv /\ ReadInv /\ OneWorks
  BY <1>4 DEF ServeInv, StickInv, CalmInv
<1>6. CacheInv'
  <2>1. CASE FillCache(c)
    <3>1. calm' = (calm /\ reading[c].found = PublishedRows) /\ cache' = reading[c].found
      BY <2>1 DEF FillCache
    <3>2. reading[c].found = PublishedRows
      BY <1>2, <3>1, Zenon
    <3> QED BY <1>1, <3>1, <3>2 DEF CacheInv
  <2>2. CASE AskFlows(c) \/ QueryFlows(c)
    BY <1>1, <1>5, <2>2 DEF AskFlows, QueryFlows, CacheInv, Saved
  <2> QED BY <2>1, <2>2 DEF ReadStep
<1>7. ApartInv'
  BY <1>1, <1>5 DEF ApartInv
<1>8. \A a \in Admins : Fits(call[a])'
  BY <1>1, <1>5 DEF ReadInv, Fits, IsServed, Alone
<1>9. ASSUME NEW a \in Admins, a # c PROVE ReadsNow(call[a], reading[a])'
  <2>1. ASSUME NEW r, reading' = [reading EXCEPT ![c] = r] PROVE reading'[a] = reading[a]
    BY <1>9, <2>1 DEF IInv, GoodReads, Callers
  <2>2. \E r : reading' = [reading EXCEPT ![c] = r]
    <3>1. CASE AskFlows(c)
      BY <3>1 DEF AskFlows, Answered, IInv, GoodReads
    <3>2. CASE QueryFlows(c) \/ FillCache(c)
      BY <3>2 DEF QueryFlows, FillCache, Answered
    <3> QED BY <3>1, <3>2 DEF ReadStep
  <2> QED BY <1>1, <1>5, <2>1, <2>2 DEF ReadInv, ReadsNow, Wants
<1>10. ASSUME c \in Admins, Wants(call[c]) PROVE ReadsNow(call[c], reading[c])'
  <2>1. ReadsNow(call[c], reading[c]) /\ call[c].at \in {"lint", "conflicts"}
    BY <1>5, <1>10 DEF ReadInv, Wants
  <2>2. ASSUME NEW found, Answered(c, found)
        PROVE  reading'[c].at = "done" /\ reading'[c].found = found
    BY <2>1, <2>2 DEF Answered, At, IInv, GoodReads
  <2>3. CASE AskFlows(c)
    <3>1. CASE cache = NoCache
      <4>1. reading' = [reading EXCEPT ![c].at = "query"]
        BY <2>3, <3>1 DEF AskFlows
      <4>2. reading'[c].at = "query"
        BY <4>1 DEF IInv, GoodReads, Answer
      <4> QED BY <4>2 DEF ReadsNow
    <3>2. CASE cache # NoCache
      <4>1. \A a \in Admins : ~Saved(a)
        BY <1>5, <1>10, <2>1 DEF OneWorks, Working, Saved
      <4>2. cache = PublishedRows
        BY <1>5, <3>2, <4>1 DEF CacheInv
      <4>3. reading'[c].at = "done" /\ reading'[c].found = cache
        BY <2>2, <2>3, <3>2 DEF AskFlows
      <4> QED BY <1>1, <4>2, <4>3 DEF ReadsNow
    <3> QED BY <3>1, <3>2
  <2>4. CASE QueryFlows(c)
    <3>1. reading'[c] = [at |-> "fill", found |-> PublishedRows]
      BY <2>4 DEF QueryFlows, IInv, GoodReads
    <3> QED BY <1>1, <3>1 DEF ReadsNow
  <2>5. CASE FillCache(c)
    <3>1. reading[c].at = "fill" /\ Answered(c, reading[c].found)
      BY <2>5 DEF FillCache
    <3>2. reading[c].found = PublishedRows
      BY <1>10, <2>1, <3>1 DEF ReadsNow
    <3> QED BY <1>1, <2>2, <3>1, <3>2 DEF ReadsNow
  <2> QED BY <2>3, <2>4, <2>5 DEF ReadStep
<1>11. ReadInv'
  <2>1. ASSUME NEW a \in Admins PROVE ReadsNow(call[a], reading[a])'
    <3>1. CASE a # c
      BY <1>9, <3>1
    <3>2. CASE a = c /\ Wants(call[c])
      BY <1>10, <3>2
    <3>3. CASE a = c /\ ~Wants(call[c])
      BY <1>1, <3>3 DEF ReadsNow, Wants
    <3> QED BY <3>1, <3>2, <3>3
  <2> QED BY <1>8, <2>1 DEF ReadInv
<1> QED BY <1>6, <1>7, <1>11

-----------------------------------------------------------------------------
(* Administrators *)

LEMMA BeginServes ==
  ASSUME IInv, StickInv, ServeInv, NEW a \in Admins, NEW kind, NEW f \in Flows, NEW row,
         NEW place \in {"save", "lint", "conflicts", "remove"}, NEW g,
         BeginAdmin(a, kind, f, row, place, g),
         place = "save" /\ IsServed(row) => IsServed(flows[f]) /\ row.live = flows[f].live,
         place = "lint" => g # NoGraph /\ (row.draft.actions # {} => g.actions # {}),
         place = "conflicts" => row.live = g
  PROVE  ServeInv'
<1>1. UNCHANGED <<flows, cache>> /\ PublishedRows' = PublishedRows
  BY SameRows DEF BeginAdmin
<1>2. SUFFICES ASSUME calm' PROVE CacheInv' /\ ApartInv' /\ ReadInv'
  BY DEF ServeInv
<1>3. calm /\ \A b \in Admins : call[b].at = "idle"
  BY <1>2 DEF BeginAdmin, At
<1>4. CacheInv /\ ApartInv /\ ReadInv
  BY <1>3 DEF ServeInv
<1>5. PICK job : job = [Idle EXCEPT !.kind = kind, !.at = place, !.flow = f, !.row = row]
  OBVIOUS
<1>6. job.at = place /\ job.flow = f /\ job.row = row
  BY <1>5 DEF Idle
<1>7. call'[a] = job /\ \A b \in Admins : b # a => call'[b] = call[b]
  BY <1>5 DEF BeginAdmin, IInv, GoodCalls, Callers
<1>8. reading'[a] = IF g = NoGraph \/ g.actions = {} THEN [at |-> "done", found |-> {}] ELSE Wanted
  BY DEF BeginAdmin, IInv, GoodReads, Callers
<1>9. CacheInv'
  BY <1>1, <1>3, <1>4 DEF CacheInv, Saved
<1>10. ApartInv'
  BY <1>1, <1>4 DEF ApartInv
<1>11. ASSUME NEW b \in Admins, b # a
       PROVE  ReadsNow(call[b], reading[b])' /\ Fits(call[b])'
  BY <1>3, <1>7, <1>11 DEF ReadsNow, Wants, Fits
<1>12. ReadsNow(call[a], reading[a])'
  BY <1>6, <1>7, <1>8 DEF ReadsNow, Wants, Wanted
<1>13. Fits(call[a])'
  <2>1. SUFFICES ASSUME place = "save", IsServed(row) PROVE Alone(f, row.live)
    BY <1>1, <1>6, <1>7 DEF Fits, IsServed, Alone
  <2>2. AsServed(f, flows[f]) \in PublishedRows
    BY <2>1, RowsServed
  <2> QED BY <1>4, <2>1, <2>2 DEF ApartInv, Alone, AsServed
<1> QED BY <1>9, <1>10, <1>11, <1>12, <1>13 DEF ReadInv

LEMMA CalledServes ==
  ASSUME IInv, StickInv, ServeInv, NEW a \in Admins, AdminCall(a)
  PROVE  ServeInv'
<1>1. PICK f \in Flows :
        \/ \E g \in Bodies : BeginAdmin(a, "create", f, NewRow(g), "save", NoGraph)
        \/ /\ flows[f] # NoRow
           /\ \/ \E g \in Bodies \cup {flows[f].draft} :
                   BeginAdmin(a, "update", f, Drafted(flows[f], g), "save", NoGraph)
              \/ BeginAdmin(a, "publish", f, flows[f], "lint", Clean(flows[f].draft))
              \/ BeginAdmin(a, "enable", f, [flows[f] EXCEPT !.enabled = TRUE], "conflicts",
                            flows[f].live)
              \/ BeginAdmin(a, "disable", f, [flows[f] EXCEPT !.enabled = FALSE], "save", NoGraph)
              \/ BeginAdmin(a, "remove", f, flows[f], "remove", NoGraph)
  BY DEF AdminCall
<1>2. flows[f] # NoRow => flows[f] \in Row
  BY DEF IInv, GoodFlows, GoodRow
<1>3. CASE \E g \in Bodies : BeginAdmin(a, "create", f, NewRow(g), "save", NoGraph)
  <2>1. \A g : ~IsServed(NewRow(g))
    BY DEF IsServed, NewRow
  <2> QED BY <1>3, <2>1, BeginServes
<1>4. CASE flows[f] # NoRow
  <2>1. CASE \E g \in Bodies \cup {flows[f].draft} :
               BeginAdmin(a, "update", f, Drafted(flows[f], g), "save", NoGraph)
    <3>1. PICK g : BeginAdmin(a, "update", f, Drafted(flows[f], g), "save", NoGraph)
      BY <2>1
    <3>2. PICK row : row = Drafted(flows[f], g)
      OBVIOUS
    <3>3. /\ row.live = flows[f].live /\ row.enabled = flows[f].enabled
          /\ row.version = flows[f].version
      BY <1>2, <1>4, <3>2 DEF Drafted, Row
    <3> QED BY <1>4, <3>1, <3>2, <3>3, BeginServes DEF IsServed
  <2>2. CASE BeginAdmin(a, "publish", f, flows[f], "lint", Clean(flows[f].draft))
    <3>1. flows[f].draft \in Graph
      BY <1>2, <1>4 DEF Row
    <3>2. Clean(flows[f].draft) # NoGraph
      BY <3>1, CleanIsWalkable, NullAssumption
    <3>3. Clean(flows[f].draft).actions = flows[f].draft.actions
      BY <3>1 DEF Clean, Graph
    <3> QED BY <2>2, <3>2, <3>3, BeginServes
  <2>3. CASE BeginAdmin(a, "enable", f, [flows[f] EXCEPT !.enabled = TRUE], "conflicts",
                        flows[f].live)
    <3>1. PICK row : row = [flows[f] EXCEPT !.enabled = TRUE]
      OBVIOUS
    <3>2. row.live = flows[f].live
      BY <1>2, <1>4, <3>1 DEF Row
    <3> QED BY <2>3, <3>1, <3>2, BeginServes
  <2>4. CASE BeginAdmin(a, "disable", f, [flows[f] EXCEPT !.enabled = FALSE], "save", NoGraph)
    <3>1. PICK row : row = [flows[f] EXCEPT !.enabled = FALSE]
      OBVIOUS
    <3>2. row.enabled = FALSE
      BY <1>2, <1>4, <3>1 DEF Row
    <3> QED BY <2>4, <3>1, <3>2, BeginServes DEF IsServed
  <2>5. CASE BeginAdmin(a, "remove", f, flows[f], "remove", NoGraph)
    BY <2>5, BeginServes
  <2> QED BY <1>1, <1>3, <2>1, <2>2, <2>3, <2>4, <2>5
<1> QED BY <1>1, <1>3, <1>4

\* A step of a call that leaves the rows alone.
LEMMA StepServes ==
  ASSUME IInv, StickInv, ServeInv, NEW a \in Admins, UNCHANGED <<flows, calm>>,
         cache' \in {cache, NoCache},
         \A b \in Admins : b # a => call'[b] = call[b] /\ reading'[b] = reading[b],
         cache' = NoCache \/ ~Saved(a) \/ Saved(a)',
         ~Wants(call[a])', calm => Fits(call'[a])
  PROVE  ServeInv'
<1>1. PublishedRows' = PublishedRows
  BY SameRows
<1>2. SUFFICES ASSUME calm' PROVE CacheInv' /\ ApartInv' /\ ReadInv'
  BY DEF ServeInv
<1>3. CacheInv /\ ApartInv /\ ReadInv
  BY <1>2 DEF ServeInv
<1>4. CacheInv'
  BY <1>1, <1>3 DEF CacheInv, Saved
<1>5. ApartInv'
  BY <1>1, <1>3 DEF ApartInv
<1>6. ASSUME NEW b \in Admins, b # a
      PROVE  ReadsNow(call[b], reading[b])' /\ Fits(call[b])'
  BY <1>1, <1>3, <1>6 DEF ReadInv, ReadsNow, Wants, Fits, IsServed, Alone
<1>7. ReadsNow(call[a], reading[a])' /\ Fits(call[a])'
  BY <1>1, <1>2 DEF ReadsNow, Wants, Fits, IsServed, Alone
<1> QED BY <1>4, <1>5, <1>6, <1>7 DEF ReadInv

\* A graph that was found to share nothing with what the call has read is alone.
LEMMA CheckedIsAlone ==
  ASSUME ServeInv, calm, NEW a \in Admins, HasRead(a), NEW f, NEW g,
         g.actions # {} => Wants(call[a]), ~Taken(g, f, reading[a].found)
  PROVE  Alone(f, g)
<1>1. CASE g.actions = {}
  BY <1>1 DEF Alone
<1>2. CASE g.actions # {}
  <2>1. reading[a].found = PublishedRows
    BY <1>2 DEF ServeInv, ReadInv, ReadsNow, HasRead
  <2> QED BY <2>1 DEF Taken, Alone
<1> QED BY <1>1, <1>2

LEMMA CallsApart ==
  ASSUME IInv, NEW a \in Admins
  PROVE  /\ \A job : call' = [call EXCEPT ![a] = job] =>
              call'[a] = job /\ \A b \in Admins : b # a => call'[b] = call[b]
         /\ \A read : reading' = [reading EXCEPT ![a] = read] =>
              \A b \in Admins : b # a => reading'[b] = reading[b]
BY DEF IInv, GoodCalls, GoodReads, Callers

LEMMA EndServes ==
  ASSUME IInv, StickInv, ServeInv, NEW a \in Admins, UNCHANGED <<flows, calm>>,
         cache' \in {cache, NoCache}, cache' = NoCache \/ ~Saved(a),
         call' = [call EXCEPT ![a] = Idle], \E read : reading' = [reading EXCEPT ![a] = read]
  PROVE  ServeInv'
<1>1. /\ call'[a] = Idle
      /\ \A b \in Admins : b # a => call'[b] = call[b] /\ reading'[b] = reading[b]
  BY CallsApart
<1>2. ~Wants(call[a])' /\ Fits(call'[a])
  BY <1>1 DEF Wants, Fits, Idle
<1> QED BY <1>1, <1>2, StepServes

LEMMA GoesOnServes ==
  ASSUME IInv, StickInv, ServeInv, NEW a \in Admins, UNCHANGED <<flows, calm, reading>>,
         cache' \in {cache, NoCache}, NEW place \in {"invalidate", "get"}, Goes(a, place),
         cache' = NoCache \/ place = "invalidate"
  PROVE  ServeInv'
<1>1. call[a] \in Job
  BY JobTyped DEF Callers
<1>2. call' = [call EXCEPT ![a] = [call[a] EXCEPT !.at = place]]
  BY DEF Goes, IInv, GoodCalls
<1>3. call'[a] = [call[a] EXCEPT !.at = place] /\ \A b \in Admins : b # a => call'[b] = call[b]
  BY <1>2, CallsApart
<1>4. call'[a].at = place
  BY <1>1, <1>3 DEF Job
<1>5. ~Wants(call[a])' /\ Fits(call'[a])
  BY <1>4 DEF Wants, Fits
<1>6. cache' = NoCache \/ Saved(a)'
  BY <1>4 DEF Saved
<1> QED BY <1>3, <1>5, <1>6, StepServes

LEMMA PublishServes ==
  ASSUME IInv, StickInv, ServeInv, NEW a \in Admins, CheckPublish(a)
  PROVE  ServeInv'
<1>1. UNCHANGED <<flows, cache, calm>> /\ call[a].at = "lint" /\ HasRead(a) /\ ~Saved(a)
  BY DEF CheckPublish, tables, admin, At, Saved
<1>2. CASE Ends(a)
  BY <1>1, <1>2, EndServes DEF Ends
<1>3. ASSUME NEW approved,
             ~HasErrors(call[a].row.draft, approved),
             ~Taken(call[a].row.draft, call[a].flow, reading[a].found),
             call' = [call EXCEPT ![a].row = Launched(@), ![a].at = "save"],
             UNCHANGED reading
      PROVE  ServeInv'
  <2>1. call[a] \in Job /\ call[a].row \in Row
    BY <1>1, JobTyped DEF Callers, GoodJob, GoodRow
  <2>2. PICK row : row = Launched(call[a].row)
    OBVIOUS
  <2>3. row.live = call[a].row.draft
    BY <1>3, <2>1, <2>2 DEF Launched, LaunchedSame, Row, HasErrors
  <2>4. PICK job : job = [call[a] EXCEPT !.row = row, !.at = "save"]
    OBVIOUS
  <2>5. job.at = "save" /\ job.row = row /\ job.flow = call[a].flow
    BY <2>1, <2>4 DEF Job
  <2>6. call' = [call EXCEPT ![a] = job]
    BY <1>3, <2>2, <2>4 DEF IInv, GoodCalls
  <2>7. call'[a] = job /\ \A b \in Admins : b # a => call'[b] = call[b]
    BY <2>6, CallsApart
  <2>8. calm => Alone(call[a].flow, call[a].row.draft)
    BY <1>1, <1>3, CheckedIsAlone DEF Wants
  <2>9. ~Wants(call[a])' /\ (calm => Fits(call'[a]))
    BY <2>3, <2>5, <2>7, <2>8 DEF Wants, Fits
  <2> QED BY <1>1, <1>3, <2>7, <2>9, StepServes
<1> QED BY <1>2, <1>3 DEF CheckPublish

LEMMA EnableServes ==
  ASSUME IInv, StickInv, ServeInv, NEW a \in Admins, CheckEnable(a)
  PROVE  ServeInv'
<1>1. UNCHANGED <<flows, cache, calm>> /\ call[a].at = "conflicts" /\ HasRead(a) /\ ~Saved(a)
  BY DEF CheckEnable, tables, admin, At, Saved
<1>2. CASE Ends(a)
  BY <1>1, <1>2, EndServes DEF Ends
<1>3. ASSUME call[a].row.live = NoGraph \/ ~Taken(call[a].row.live, call[a].flow, reading[a].found),
             Goes(a, "save"), UNCHANGED reading
      PROVE  ServeInv'
  <2>1. call[a] \in Job
    BY JobTyped DEF Callers
  <2>2. PICK job : job = [call[a] EXCEPT !.at = "save"]
    OBVIOUS
  <2>3. job.at = "save" /\ job.row = call[a].row /\ job.flow = call[a].flow
    BY <2>1, <2>2 DEF Job
  <2>4. call' = [call EXCEPT ![a] = job]
    BY <1>3, <2>2 DEF Goes, IInv, GoodCalls
  <2>5. call'[a] = job /\ \A b \in Admins : b # a => call'[b] = call[b]
    BY <2>4, CallsApart
  <2>6. ASSUME calm, call[a].row.live # NoGraph PROVE Alone(call[a].flow, call[a].row.live)
    BY <1>1, <1>3, <2>6, CheckedIsAlone DEF Wants
  <2>7. ~Wants(call[a])' /\ (calm => Fits(call'[a]))
    BY <2>3, <2>5, <2>6 DEF Wants, Fits, IsServed
  <2> QED BY <1>1, <1>3, <2>5, <2>7, StepServes
<1> QED BY <1>2, <1>3 DEF CheckEnable

\* One row of the table changes, when no other call is in progress.
LEMMA RowServes ==
  ASSUME IInv, StickInv, ServeInv, NEW a \in Admins, Working(a), UNCHANGED <<cache, calm>>,
         NEW f \in Flows, NEW row, flows' = [flows EXCEPT ![f] = row],
         calm /\ IsServed(row) => Alone(f, row.live),
         \A b \in Admins : b # a => call'[b] = call[b],
         call'[a].at \notin {"lint", "conflicts", "save"},
         calm => Saved(a)' \/ (~Saved(a) /\ PublishedRows' = PublishedRows)
  PROVE  ServeInv'
<1>1. SUFFICES ASSUME calm' PROVE CacheInv' /\ ApartInv' /\ ReadInv'
  BY DEF ServeInv
<1>2. calm /\ CacheInv /\ ApartInv /\ ReadInv /\ OneWorks
  BY <1>1 DEF ServeInv, StickInv, CalmInv
<1>3. \A b \in Admins : b # a => call[b].at = "idle" /\ call'[b].at = "idle"
  BY <1>2 DEF OneWorks, Working
<1>4. CacheInv'
  BY <1>2, <1>3 DEF CacheInv, Saved
<1>5. ReadInv'
  BY <1>3 DEF ReadInv, ReadsNow, Wants, Fits
<1>6. DOMAIN flows = Flows /\ \A g \in Flows : flows'[g] = IF g = f THEN row ELSE flows[g]
  BY DEF IInv, GoodFlows
<1>7. ASSUME NEW s \in PublishedRows'
      PROVE  \/ s.flow # f /\ s \in PublishedRows
             \/ s.flow = f /\ IsServed(row) /\ s.graph = row.live
  <2>1. PICK g \in Flows : IsServed(flows'[g]) /\ s = AsServed(g, flows'[g])
    BY <1>7 DEF PublishedRows, IsServed, AsServed
  <2>2. CASE g = f
    BY <1>6, <2>1, <2>2 DEF AsServed
  <2>3. CASE g # f
    BY <1>6, <2>1, <2>3, RowsServed DEF AsServed
  <2> QED BY <2>2, <2>3
<1>8. ApartInv'
  <2>1. SUFFICES ASSUME NEW s \in PublishedRows', NEW t \in PublishedRows', s.flow # t.flow
                 PROVE  s.graph.actions \cap t.graph.actions = {}
    BY DEF ApartInv
  <2>2. CASE s.flow # f /\ t.flow # f
    BY <1>2, <1>7, <2>1, <2>2 DEF ApartInv
  <2>3. CASE s.flow = f
    BY <1>2, <1>7, <2>1, <2>3 DEF Alone
  <2>4. CASE t.flow = f
    BY <1>2, <1>7, <2>1, <2>4 DEF Alone
  <2> QED BY <2>2, <2>3, <2>4
<1> QED BY <1>4, <1>5, <1>8

\* A new flow has nothing published, and its id is that of no flow that was.
LEMMA NewRowIsUnserved ==
  ASSUME IInv, NEW f \in Flows, NEW row, GoodRow(f, row), \A s \in published : s.flow # f,
         flows' = [flows EXCEPT ![f] = row]
  PROVE  ~IsServed(row) /\ PublishedRows' = PublishedRows
<1>1. DOMAIN flows = Flows /\ \A g \in Flows : flows'[g] = IF g = f THEN row ELSE flows[g]
  BY DEF IInv, GoodFlows
<1>2. ~IsServed(row) /\ ~IsServed(flows[f])
  BY DEF IsServed, GoodRow, AsServed, IInv, GoodFlows
<1>3. \A g \in Flows : IsServed(flows'[g]) <=> IsServed(flows[g])
  BY <1>1, <1>2
<1>4. {g \in Flows : IsServed(flows'[g])} = {g \in Flows : IsServed(flows[g])}
  BY <1>3
<1>5. \A g \in Flows : IsServed(flows[g]) => AsServed(g, flows'[g]) = AsServed(g, flows[g])
  BY <1>1, <1>2
<1>6. \A s : s \in PublishedRows' <=> s \in PublishedRows
  <2>1. \A s : s \in PublishedRows' <=>
          \E g \in Flows : IsServed(flows'[g]) /\ s = AsServed(g, flows'[g])
    BY DEF PublishedRows, IsServed, AsServed
  <2> QED BY <1>3, <1>5, <2>1, RowsServed
<1> QED BY <1>2, <1>6

LEMMA SaveServes ==
  ASSUME IInv, StickInv, ServeInv, NEW a \in Admins, SaveFlow(a)
  PROVE  ServeInv'
<1>1. PICK f : f = call[a].flow
  OBVIOUS
<1>2. PICK row : row = call[a].row
  OBVIOUS
<1>3. /\ call[a].at = "save" /\ f \in Flows /\ call[a] \in Job /\ a \in Callers
      /\ call[a].kind # "publish" => GoodRow(f, row)
  BY <1>1, <1>2, JobTyped DEF SaveFlow, At, GoodJob, Callers
<1>4. UNCHANGED <<cache, calm>> /\ flows' = [flows EXCEPT ![f] = row] /\ Working(a) /\ ~Saved(a)
  BY <1>1, <1>2, <1>3 DEF SaveFlow, admin, Working, Saved
<1>5. PICK place : place = CASE call[a].kind = "disable" -> "clear"
                             [] call[a].kind = "create" -> "get"
                             [] OTHER -> "invalidate"
  OBVIOUS
<1>6. PICK job : job = [call[a] EXCEPT !.row = NoRow, !.kind = "none", !.at = place]
  OBVIOUS
<1>7. job.at = place
  BY <1>3, <1>6 DEF Job
<1>8. call' = [call EXCEPT ![a] = job]
  BY <1>5, <1>6 DEF SaveFlow, IInv, GoodCalls
<1>9. call'[a] = job /\ \A b \in Admins : b # a => call'[b] = call[b]
  BY <1>8, CallsApart
<1>10. calm /\ IsServed(row) => Alone(f, row.live)
  BY <1>1, <1>2, <1>3 DEF ServeInv, ReadInv, Fits
<1>11. ASSUME calm PROVE Saved(a)' \/ (~Saved(a) /\ PublishedRows' = PublishedRows)
  <2>1. CASE call[a].kind = "create"
    <3>1. \A s \in published : s.flow # f
      BY <1>1, <1>3, <1>11, <2>1 DEF StickInv, CalmInv, Agrees
    <3> QED BY <1>3, <1>4, <2>1, <3>1, NewRowIsUnserved
  <2>2. CASE call[a].kind # "create"
    BY <1>5, <1>7, <1>9, <2>2 DEF Saved
  <2> QED BY <2>1, <2>2
<1>12. call'[a].at \notin {"lint", "conflicts", "save"}
  BY <1>5, <1>7, <1>9
<1> QED BY <1>3, <1>4, <1>9, <1>10, <1>11, <1>12, RowServes

LEMMA RemoveServes ==
  ASSUME IInv, StickInv, ServeInv, NEW a \in Admins, RemoveFlow(a)
  PROVE  ServeInv'
<1>1. /\ UNCHANGED <<cache, calm, reading>> /\ Goes(a, "invalidate") /\ Working(a)
      /\ flows' = [flows EXCEPT ![call[a].flow] = NoRow]
  BY DEF RemoveFlow, admin, At, Working
<1>2. CASE call[a].flow \in Flows
  <2>1. call[a] \in Job
    BY JobTyped DEF Callers
  <2>2. call' = [call EXCEPT ![a] = [call[a] EXCEPT !.at = "invalidate"]]
    BY <1>1 DEF Goes, IInv, GoodCalls
  <2>3. /\ call'[a] = [call[a] EXCEPT !.at = "invalidate"]
        /\ \A b \in Admins : b # a => call'[b] = call[b]
    BY <2>2, CallsApart
  <2>4. call'[a].at = "invalidate"
    BY <2>1, <2>3 DEF Job
  <2>5. ~IsServed(NoRow) /\ Saved(a)'
    BY <2>4 DEF IsServed, Saved
  <2> QED BY <1>1, <1>2, <2>3, <2>4, <2>5, RowServes
<1>3. CASE call[a].flow \notin Flows
  <2>1. UNCHANGED flows
    BY <1>1, <1>3 DEF IInv, GoodFlows
  <2> QED BY <1>1, <2>1, GoesOnServes
<1> QED BY <1>2, <1>3

LEMMA WorkServes ==
  ASSUME IInv, StickInv, ServeInv, NEW a \in Admins, AdminStep(a)
  PROVE  ServeInv'
<1>1. CASE ClearCursors(a)
  BY <1>1, GoesOnServes DEF ClearCursors, admin
<1>2. CASE Invalidate(a)
  <2>1. UNCHANGED <<flows, calm>> /\ cache' = NoCache
    BY <1>2 DEF Invalidate, tables, admin
  <2>2. CASE Ends(a)
    BY <2>1, <2>2, EndServes DEF Ends
  <2>3. CASE Goes(a, "get") /\ UNCHANGED reading
    BY <2>1, <2>3, GoesOnServes
  <2> QED BY <1>2, <2>2, <2>3 DEF Invalidate
<1>3. CASE GetFlow(a)
  <2>1. UNCHANGED <<flows, calm, cache>> /\ ~Saved(a)
    BY <1>3 DEF GetFlow, tables, admin, At, Saved
  <2>2. call' = [call EXCEPT ![a] = Idle] /\ \E read : reading' = [reading EXCEPT ![a] = read]
    BY <1>3 DEF GetFlow, Ends
  <2> QED BY <2>1, <2>2, EndServes
<1>4. CASE ClearFails(a)
  BY <1>4 DEF ClearFails, ServeInv
<1> QED BY <1>1, <1>2, <1>3, <1>4, PublishServes, EnableServes, SaveServes, RemoveServes DEF AdminStep

-----------------------------------------------------------------------------
(* The whole *)

LEMMA ServeStarts == Init => ServeInv
<1> SUFFICES ASSUME Init PROVE ServeInv
  OBVIOUS
<1>1. CacheInv
  BY DEF Init, CacheInv
<1>2. ReadInv
  BY DEF Init, ReadInv, ReadsNow, Wants, Fits, Idle, Callers
<1>3. ApartInv
  <2>1. SUFFICES ASSUME NEW f \in Flows, NEW g \in Flows, f # g,
                        IsServed(Flows0[f]), IsServed(Flows0[g])
                 PROVE  Flows0[f].live.actions \cap Flows0[g].live.actions = {}
    BY RowsServed DEF Init, ApartInv, AsServed
  <2> QED BY <2>1, TriggersAssumption DEF IsServed
<1> QED BY <1>1, <1>2, <1>3 DEF ServeInv

LEMMA ServeStep == IInv /\ StickInv /\ ServeInv /\ [Next]_vars => ServeInv'
<1> SUFFICES ASSUME IInv, StickInv, ServeInv, [Next]_vars PROVE ServeInv'
  OBVIOUS
<1>1. ASSUME NEW a \in Admins, AdminCall(a) \/ AdminStep(a) PROVE ServeInv'
  BY <1>1, CalledServes, WorkServes
<1>2. ASSUME NEW c \in Customers, CustomerCall(c) \/ CustomerStep(c) PROVE ServeInv'
  BY <1>2, CustomersApart, CustomersReadApart, OthersServe
<1>3. ASSUME NEW c \in Callers, ReadStep(c) PROVE ServeInv'
  BY <1>3, ReadServes
<1>4. ASSUME NEW v \in Convs, ClearState(v) PROVE ServeInv'
  BY <1>4, OthersServe DEF ClearState, admin
<1>5. CASE Age
  BY <1>5, OthersServe DEF Age, tables, admin
<1>6. CASE UNCHANGED vars
  BY <1>6, OthersServe DEF vars
<1> QED BY <1>1, <1>2, <1>3, <1>4, <1>5, <1>6 DEF Next

LEMMA ServeHolds == Spec => []ServeInv
BY InvHolds, StartsGood, StickStarts, ServeStarts, StepKeeps, StickStep, ServeStep, PTL DEF Spec

\* While administrators work one by one and no answer that was overtaken fills the cache, no two
\* enabled flows share a start button (lint, startActionConflicts, setEnabled).
THEOREM TriggersStayUnique == Spec => []TriggersUnique
<1>1. ServeInv => TriggersUnique
  BY DEF ServeInv, ApartInv, TriggersUnique
<1> QED BY <1>1, ServeHolds, PTL
=============================================================================
