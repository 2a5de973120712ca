------------------------ MODULE CanvasSessionsProofs ------------------------
(***************************************************************************)
(* The types, CurrentETagMeansCurrentGraph and CompiledGraphNotOlder,      *)
(* extended to loads on their way, are inductive together; that no save    *)
(* overwrites a graph its tab did not show follows from them.              *)
(*                                                                         *)
(* A step is of one tab.  What the invariant says of a tab is TabOK, an    *)
(* operator on the tab's values and the canvas, so that the tabs that do   *)
(* not move keep it without looking inside; a save is the one step that    *)
(* moves the canvas under the others.                                      *)
(***************************************************************************)
EXTENDS CanvasSessionsProps, TLAPS

Calls == [Slots -> [at : Stages, for : {"load"} \cup Clicks]]
Messages == [rev : Nat, edges : SUBSET Edges, base : SUBSET Edges]
Reads == [Slots -> Snapshot]

Shape == /\ revision \in Nat
         /\ edges \subseteq Edges
         /\ etag \in [Tabs -> Nat \cup {Nothing}]
         /\ shown \in [Tabs -> SUBSET Edges]
         /\ draft \in [Tabs -> SUBSET Edges]
         /\ previewed \subseteq Tabs
         /\ call \in [Tabs -> Calls]
         /\ sent \in [Tabs -> Messages]
         /\ read \in [Tabs -> Reads]
         /\ history \in Seq(SUBSET Edges)

(* Stands of a canvas with revision now and edges graph. *)
StandsIn(rev, seen, now, graph) == rev <= now /\ (rev = now => seen = graph)

(* graph was the canvas of revision rev or a later one. *)
NotOlder(rev, graph, now, past) == \E later \in rev..now : graph = past[later + 1]

(* The invariant of one tab: its etag, shown, call, sent and read. *)
TabOK(tag, seen, calls, message, reads, now, graph, past) ==
  /\ calls["reload"].for = "load"
  /\ tag = Nothing => calls["click"].at = "idle"
  /\ tag # Nothing => StandsIn(tag, seen, now, graph)
  /\ calls["click"].at = "transaction" => StandsIn(message.rev, message.base, now, graph)
  /\ \A k \in Slots :
       /\ calls[k].at = "second" => reads[k].rev <= now
       /\ calls[k].at \in {"loaded", "compiled"} =>
            /\ StandsIn(reads[k].rev, reads[k].edges, now, graph)
            /\ NotOlder(reads[k].rev, reads[k].edges, now, past)

Fine(t) == TabOK(etag[t], shown[t], call[t], sent[t], read[t], revision, edges, history)

(* The last graph of the history is the canvas. *)
Recent == Len(history) = revision + 1 /\ history[revision + 1] = edges

IInv == Shape /\ Recent /\ \A t \in Tabs : Fine(t)

LEMMA InvImplies ==
  ASSUME IInv
  PROVE  TypeOK /\ CurrentETagMeansCurrentGraph /\ CompiledGraphNotOlder
<1>1. Shape /\ \A t \in Tabs : Fine(t)
  BY DEF IInv
<1>2. TypeOK
  BY <1>1 DEF Shape, TypeOK, Calls, Messages, Reads, Fine, TabOK
<1>3. CurrentETagMeansCurrentGraph
  BY <1>1 DEF Fine, TabOK, StandsIn, CurrentETagMeansCurrentGraph, Stands, At, Slots
<1>4. CompiledGraphNotOlder
  BY <1>1 DEF Fine, TabOK, NotOlder, CompiledGraphNotOlder, At, Slots
<1> QED BY <1>2, <1>3, <1>4

LEMMA InitIInv == Init => IInv
<1> SUFFICES ASSUME Init PROVE IInv OBVIOUS
<1>1. Shape
  BY DEF Init, Shape, Calls, Messages, Reads, Snapshot, Blank, Unsent, Slots, Stages
<1>2. ASSUME NEW t \in Tabs PROVE Fine(t)
  BY DEF Init, Fine, TabOK, Slots
<1>3. Recent
  BY DEF Init, Recent
<1> QED BY <1>1, <1>2, <1>3 DEF IInv

(* A step that leaves the canvas and the other tabs alone. *)
Others(t) == \A u \in Tabs : u # t =>
  /\ etag'[u] = etag[u] /\ shown'[u] = shown[u] /\ call'[u] = call[u]
  /\ sent'[u] = sent[u] /\ read'[u] = read[u]

LEMMA OneTabMoves ==
  ASSUME IInv, NEW t \in Tabs, UNCHANGED canvas, Shape', Others(t),
         TabOK(etag'[t], shown'[t], call'[t], sent'[t], read'[t], revision, edges, history)
  PROVE  IInv'
<1>1. ASSUME NEW u \in Tabs PROVE Fine(u)'
  <2>1. CASE u = t
    BY <2>1 DEF Fine, canvas
  <2>2. CASE u # t
    BY <2>2 DEF Fine, Others, IInv, canvas
  <2> QED BY <2>1, <2>2
<1> QED BY <1>1 DEF IInv, Recent, canvas

(* A new revision makes every older one a former one. *)
LEMMA NewRevision ==
  ASSUME NEW now \in Nat, NEW graph, NEW newer,
         NEW tag \in Nat \cup {Nothing}, NEW seen, NEW calls \in Calls,
         NEW message \in Messages, NEW reads \in Reads,
         NEW past \in Seq(SUBSET Edges), Len(past) = now + 1, newer \in SUBSET Edges,
         TabOK(tag, seen, calls, message, reads, now, graph, past)
  PROVE  TabOK(tag, seen, calls, message, reads, now + 1, newer, Append(past, newer))
<1>1. tag # Nothing => tag \in Nat
  OBVIOUS
<1>2. message.rev \in Nat
  BY DEF Messages
<1>3. \A k \in Slots : reads[k].rev \in Nat
  BY DEF Reads, Snapshot
<1>4. \A k \in Slots : reads[k].rev <= now => StandsIn(reads[k].rev, reads[k].edges, now + 1, newer) /\ reads[k].rev <= now + 1
  BY <1>3 DEF StandsIn
<1>5. message.rev <= now => StandsIn(message.rev, message.base, now + 1, newer)
  BY <1>2 DEF StandsIn
<1>6. tag # Nothing /\ tag <= now => StandsIn(tag, seen, now + 1, newer)
  BY <1>1 DEF StandsIn
<1>7. \A r, s : StandsIn(r, s, now, graph) => r <= now
  BY DEF StandsIn
<1>8. ASSUME NEW r \in Nat, NEW old, NotOlder(r, old, now, past)
      PROVE  NotOlder(r, old, now + 1, Append(past, newer))
  <2>1. PICK later \in r..now : old = past[later + 1]
    BY <1>8 DEF NotOlder
  <2>2. Append(past, newer)[later + 1] = past[later + 1]
    BY <2>1
  <2>3. later \in r..(now + 1)
    BY <2>1
  <2> QED BY <2>1, <2>2, <2>3 DEF NotOlder
<1> QED BY <1>3, <1>4, <1>5, <1>6, <1>7, <1>8 DEF TabOK

LEMMA CallTypes ==
  ASSUME Shape, NEW t \in Tabs
  PROVE  /\ "click" \in Slots /\ "reload" \in Slots
         /\ \A k \in Slots : call[t][k].for \in {"load"} \cup Clicks
         /\ \A k \in Slots : read[t][k] \in Snapshot
         /\ sent[t] \in Messages /\ Unsent \in Messages
BY DEF Shape, Calls, Reads, Slots, Messages, Unsent

(* What the updates of one request do, and what they leave alone. *)
LEMMA MoveEffect ==
  ASSUME Shape, NEW t \in Tabs, NEW k \in Slots, NEW where \in Stages,
         NEW what \in {"load"} \cup Clicks, Move(t, k, where, what)
  PROVE  /\ call' \in [Tabs -> Calls]
         /\ call'[t][k] = [at |-> where, for |-> what]
         /\ \A j \in Slots : j # k => call'[t][j] = call[t][j]
         /\ \A u \in Tabs : u # t => call'[u] = call[u]
<1> DEFINE new == [call[t] EXCEPT ![k] = [at |-> where, for |-> what]]
<1>1. new \in Calls
  BY DEF Shape, Calls
<1>2. call' = [call EXCEPT ![t] = new]
  BY DEF Move
<1> HIDE DEF new
<1>3. /\ call' \in [Tabs -> Calls]
      /\ call'[t] = new
      /\ \A u \in Tabs : u # t => call'[u] = call[u]
  BY <1>1, <1>2 DEF Shape
<1>4. new[k] = [at |-> where, for |-> what] /\ \A j \in Slots : j # k => new[j] = call[t][j]
  BY DEF new, Shape, Calls
<1> QED BY <1>3, <1>4

Put(t, k, value) == read' = [read EXCEPT ![t] = [read[t] EXCEPT ![k] = value]]

LEMMA ReadEffect ==
  ASSUME Shape, NEW t \in Tabs, NEW k \in Slots, NEW value \in Snapshot, Put(t, k, value)
  PROVE  /\ read' \in [Tabs -> Reads]
         /\ read'[t][k] = value
         /\ \A j \in Slots : j # k => read'[t][j] = read[t][j]
         /\ \A u \in Tabs : u # t => read'[u] = read[u]
<1> DEFINE new == [read[t] EXCEPT ![k] = value]
<1>1. new \in Reads
  BY DEF Shape, Reads
<1>2. new[k] = value /\ \A j \in Slots : j # k => new[j] = read[t][j]
  BY DEF Shape, Reads
<1> HIDE DEF new
<1>3. /\ read' \in [Tabs -> Reads]
      /\ read'[t] = new
      /\ \A u \in Tabs : u # t => read'[u] = read[u]
  BY <1>1 DEF Shape, new, Put
<1> QED BY <1>2, <1>3

LEMMA ForgetEffect ==
  ASSUME Shape, NEW t \in Tabs, NEW k \in Slots, Forget(t, k)
  PROVE  /\ read' \in [Tabs -> Reads]
         /\ \A j \in Slots : j # k => read'[t][j] = read[t][j]
         /\ \A u \in Tabs : u # t => read'[u] = read[u]
<1>1. Blank \in Snapshot
  BY DEF Blank, Snapshot
<1>2. Put(t, k, Blank)
  BY DEF Forget, Put
<1> QED BY <1>1, <1>2, ReadEffect

(* A statement of a load reads the revision, or the edges. *)
LEMMA LoadEffect ==
  ASSUME Shape, NEW t \in Tabs, NEW k \in Slots
  PROVE  /\ Load(t, k, "revision") =>
              /\ read' \in [Tabs -> Reads]
              /\ read'[t][k].rev = revision
              /\ \A j \in Slots : j # k => read'[t][j] = read[t][j]
              /\ \A u \in Tabs : u # t => read'[u] = read[u]
         /\ Load(t, k, "edges") =>
              /\ read' \in [Tabs -> Reads]
              /\ read'[t][k].rev = read[t][k].rev
              /\ read'[t][k].edges = edges
              /\ \A j \in Slots : j # k => read'[t][j] = read[t][j]
              /\ \A u \in Tabs : u # t => read'[u] = read[u]
<1>0. read[t][k] \in Snapshot
  BY DEF Shape, Reads
<1>1. ASSUME Load(t, k, "revision")
      PROVE  /\ read' \in [Tabs -> Reads]
             /\ read'[t][k].rev = revision
             /\ \A j \in Slots : j # k => read'[t][j] = read[t][j]
             /\ \A u \in Tabs : u # t => read'[u] = read[u]
  <2> DEFINE value == [read[t][k] EXCEPT !.rev = revision]
  <2>1. value \in Snapshot /\ value.rev = revision
    BY <1>0 DEF Snapshot, Shape
  <2>2. Put(t, k, value)
    BY <1>1 DEF Load, Put
  <2> HIDE DEF value
  <2> QED BY <2>1, <2>2, ReadEffect
<1>2. ASSUME Load(t, k, "edges")
      PROVE  /\ read' \in [Tabs -> Reads]
             /\ read'[t][k].rev = read[t][k].rev
             /\ read'[t][k].edges = edges
             /\ \A j \in Slots : j # k => read'[t][j] = read[t][j]
             /\ \A u \in Tabs : u # t => read'[u] = read[u]
  <2> DEFINE value == [read[t][k] EXCEPT !.edges = edges]
  <2>1. value \in Snapshot /\ value.rev = read[t][k].rev /\ value.edges = edges
    BY <1>0 DEF Snapshot, Shape
  <2>2. Put(t, k, value)
    BY <1>2 DEF Load, Put
  <2> HIDE DEF value
  <2> QED BY <2>1, <2>2, ReadEffect
<1> QED BY <1>1, <1>2

(* A call of a tab moved, and the rest of its calls did not. *)
CallMoved(t, k, where, what) ==
  /\ call' \in [Tabs -> Calls]
  /\ call'[t][k] = [at |-> where, for |-> what]
  /\ \A j \in Slots : j # k => call'[t][j] = call[t][j]
  /\ \A u \in Tabs : u # t => call'[u] = call[u]

ReadMoved(t, k) ==
  /\ read' \in [Tabs -> Reads]
  /\ \A j \in Slots : j # k => read'[t][j] = read[t][j]
  /\ \A u \in Tabs : u # t => read'[u] = read[u]

(* The revision and the edges of a save come from a tab that knew the      *)
(* current canvas, or the save is a conflict. *)
LEMMA SaveKeepsIInv ==
  ASSUME IInv, NEW t \in Tabs, SaveDefaultGraph(t)
  PROVE  IInv'
<1> USE NothingAssumption, MaxAssumption
<1>0. Shape /\ Recent /\ Fine(t) /\ (\A u \in Tabs : Fine(u))
  BY DEF IInv
<1>1. /\ sent' \in [Tabs -> Messages]
      /\ \A u \in Tabs : u # t => sent'[u] = sent[u]
  BY <1>0, CallTypes DEF SaveDefaultGraph, Received, Shape
<1>2. CASE sent[t].rev # revision
  <2>1. CallMoved(t, "click", "first", "load")
    BY <1>0, <1>2, CallTypes, MoveEffect DEF SaveDefaultGraph, ReloadAfterConflict, Stages, CallMoved
  <2>2. UNCHANGED <<revision, edges, history, etag, shown, draft, previewed, read>>
    BY <1>2 DEF SaveDefaultGraph, canvas, client
  <2>3. Shape' /\ Others(t)
    BY <1>0, <1>1, <2>1, <2>2 DEF Shape, Others, CallMoved
  <2>4. TabOK(etag'[t], shown'[t], call'[t], sent'[t], read'[t], revision, edges, history)
    BY <1>0, <2>1, <2>2 DEF Fine, TabOK, CallMoved, Slots, SaveDefaultGraph, At
  <2> QED BY <2>2, <2>3, <2>4, OneTabMoves DEF canvas
<1>3. CASE sent[t].rev = revision
  <2>1. CallMoved(t, "click", "first", call[t]["click"].for)
    BY <1>0, <1>3, CallTypes, MoveEffect DEF SaveDefaultGraph, Proceed, For, Stages, CallMoved
  <2>2. UNCHANGED <<etag, shown, draft, previewed, read>> /\ revision' = revision + 1 /\ edges' = sent[t].edges
    BY <1>3 DEF SaveDefaultGraph, client
  <2>3. edges' \in SUBSET Edges /\ history' \in Seq(SUBSET Edges) /\ history' = Append(history, edges')
    <3>1. edges' \in SUBSET Edges
      BY <1>0, <2>2, CallTypes DEF Messages
    <3>2. history' = Append(history, edges')
      BY <1>3 DEF SaveDefaultGraph
    <3> QED BY <1>0, <3>1, <3>2 DEF Shape
  <2>4. Shape'
    BY <1>0, <1>1, <2>1, <2>2, <2>3 DEF Shape, CallMoved
  <2>5. \A u \in Tabs : TabOK(etag[u], shown[u], call[u], sent[u], read[u], revision', edges', history')
    BY <1>0, <2>2, <2>3, NewRevision DEF Shape, Fine, Recent
  <2>6. ASSUME NEW u \in Tabs PROVE Fine(u)'
    <3>1. CASE u # t
      BY <1>1, <2>1, <2>2, <2>5, <3>1 DEF Fine, CallMoved
    <3>2. CASE u = t
      BY <1>1, <2>1, <2>2, <2>5, <3>2, <1>0 DEF Fine, CallMoved, TabOK, Slots, SaveDefaultGraph, At
    <3> QED BY <3>1, <3>2
  <2>7. Recent'
    BY <1>0, <2>2, <2>3 DEF Recent, Shape
  <2> QED BY <2>4, <2>6, <2>7 DEF IInv
<1> QED BY <1>2, <1>3

(* The server's other steps. *)
LEMMA ServerKeepsIInv ==
  ASSUME IInv, NEW t \in Tabs, NEW k \in Slots,
         ReadFirst(t, k) \/ ReadSecond(t, k) \/ Fail(t, k) \/ Compile(t)
  PROVE  IInv'
<1> USE NothingAssumption
<1>0. Shape /\ Recent /\ Fine(t)
  BY DEF IInv
<1>1. CASE ReadFirst(t, k)
  <2>1. CallMoved(t, k, "second", call[t][k].for)
    BY <1>0, <1>1, CallTypes, MoveEffect DEF ReadFirst, Proceed, For, Stages, CallMoved
  <2>2. ReadMoved(t, k) /\ read'[t][k].rev = revision
    BY <1>0, <1>1, LoadEffect DEF ReadFirst, LoadOrder, ReadMoved
  <2>3. UNCHANGED <<revision, edges, history, etag, shown, draft, previewed, sent>>
    BY <1>1 DEF ReadFirst, canvas, client
  <2>4. Shape' /\ Others(t)
    BY <1>0, <2>1, <2>2, <2>3 DEF Shape, Others, CallMoved, ReadMoved
  <2>5. TabOK(etag'[t], shown'[t], call'[t], sent'[t], read'[t], revision, edges, history)
    BY <1>0, <1>1, <2>1, <2>2, <2>3 DEF Fine, TabOK, CallMoved, ReadMoved, Slots, ReadFirst, At, Shape
  <2> QED BY <2>3, <2>4, <2>5, OneTabMoves DEF canvas
<1>2. CASE ReadSecond(t, k)
  <2>1. CallMoved(t, k, "loaded", call[t][k].for)
    BY <1>0, <1>2, CallTypes, MoveEffect DEF ReadSecond, Proceed, For, Stages, CallMoved
  <2>2. ReadMoved(t, k) /\ read'[t][k].rev = read[t][k].rev /\ read'[t][k].edges = edges
    BY <1>0, <1>2, LoadEffect DEF ReadSecond, LoadOrder, ReadMoved
  <2>3. UNCHANGED <<revision, edges, history, etag, shown, draft, previewed, sent>>
    BY <1>2 DEF ReadSecond, canvas, client
  <2>4. Shape' /\ Others(t)
    BY <1>0, <2>1, <2>2, <2>3 DEF Shape, Others, CallMoved, ReadMoved
  <2>5. /\ StandsIn(read'[t][k].rev, read'[t][k].edges, revision, edges)
        /\ NotOlder(read'[t][k].rev, read'[t][k].edges, revision, history)
    <3>1. read[t][k].rev \in Nat /\ read[t][k].rev <= revision
      BY <1>0, <1>2, CallTypes DEF Fine, TabOK, ReadSecond, At, Snapshot
    <3>2. revision \in read[t][k].rev..revision
      BY <1>0, <3>1 DEF Shape
    <3> QED BY <1>0, <2>2, <3>1, <3>2 DEF StandsIn, NotOlder, Recent
  <2>6. TabOK(etag'[t], shown'[t], call'[t], sent'[t], read'[t], revision, edges, history)
    BY <1>0, <1>2, <2>1, <2>2, <2>3, <2>5 DEF Fine, TabOK, CallMoved, ReadMoved, Slots, ReadSecond, At
  <2> QED BY <2>3, <2>4, <2>6, OneTabMoves DEF canvas
<1>3. CASE Fail(t, k)
  <2>1. CallMoved(t, k, "idle", "load")
    BY <1>0, <1>3, MoveEffect DEF Fail, Stages, CallMoved
  <2>2. ReadMoved(t, k)
    BY <1>0, <1>3, ForgetEffect DEF Fail, ReadMoved
  <2>3. UNCHANGED <<revision, edges, history, etag, shown, draft, previewed>>
    BY <1>3 DEF Fail, canvas, client
  <2>4. /\ sent' \in [Tabs -> Messages]
        /\ \A u \in Tabs : u # t => sent'[u] = sent[u]
        /\ k # "click" => sent' = sent
    BY <1>0, <1>3, CallTypes DEF Fail, Received, Shape
  <2>5. Shape' /\ Others(t)
    BY <1>0, <2>1, <2>2, <2>3, <2>4 DEF Shape, Others, CallMoved, ReadMoved
  <2>6. TabOK(etag'[t], shown'[t], call'[t], sent'[t], read'[t], revision, edges, history)
    BY <1>0, <2>1, <2>2, <2>3, <2>4 DEF Fine, TabOK, CallMoved, ReadMoved, Slots
  <2> QED BY <2>3, <2>5, <2>6, OneTabMoves DEF canvas
<1>4. CASE Compile(t)
  <2>1. \/ CallMoved(t, "click", "first", "load")
        \/ CallMoved(t, "click", "compiled", call[t]["click"].for)
    BY <1>0, <1>4, CallTypes, MoveEffect
       DEF Compile, ReloadAfterConflict, Proceed, For, Stages, CallMoved
  <2>2. /\ sent' \in [Tabs -> Messages]
        /\ \A u \in Tabs : u # t => sent'[u] = sent[u]
    BY <1>0, <1>4, CallTypes DEF Compile, Received, Shape
  <2>3. UNCHANGED <<revision, edges, history, etag, shown, draft, previewed, read>>
    BY <1>4 DEF Compile, canvas, client
  <2>4. Shape' /\ Others(t)
    BY <1>0, <2>1, <2>2, <2>3 DEF Shape, Others, CallMoved
  <2>5. TabOK(etag'[t], shown'[t], call'[t], sent'[t], read'[t], revision, edges, history)
    BY <1>0, <1>4, <2>1, <2>3 DEF Fine, TabOK, CallMoved, Slots, Compile, At
  <2> QED BY <2>3, <2>4, <2>5, OneTabMoves DEF canvas
<1> QED BY <1>1, <1>2, <1>3, <1>4

(* The steps of the page. *)
LEMMA TabKeepsIInv ==
  ASSUME IInv, NEW t \in Tabs,
         \/ Reload(t) \/ \E e \in Edges : Edit(t, e)
         \/ \E what \in Clicks : Click(t, what)
         \/ \E k \in Slots : Arrive(t, k)
         \/ ArriveCompiled(t)
  PROVE  IInv'
<1> USE NothingAssumption
<1>0. Shape /\ Recent /\ Fine(t)
  BY DEF IInv
<1>1. CASE Reload(t)
  <2>1. CallMoved(t, "reload", "second", "load")
    BY <1>0, <1>1, CallTypes, MoveEffect DEF Reload, Stages, CallMoved
  <2>2. ReadMoved(t, "reload") /\ read'[t]["reload"].rev = revision
    BY <1>0, <1>1, CallTypes, LoadEffect DEF Reload, LoadOrder, ReadMoved
  <2>3. UNCHANGED <<revision, edges, history, etag, shown, draft, previewed, sent>>
    BY <1>1 DEF Reload, canvas, client
  <2>4. Shape' /\ Others(t)
    BY <1>0, <2>1, <2>2, <2>3 DEF Shape, Others, CallMoved, ReadMoved
  <2>5. TabOK(etag'[t], shown'[t], call'[t], sent'[t], read'[t], revision, edges, history)
    BY <1>0, <2>1, <2>2, <2>3 DEF Fine, TabOK, CallMoved, ReadMoved, Slots, Shape
  <2> QED BY <2>3, <2>4, <2>5, OneTabMoves DEF canvas
<1>2. ASSUME NEW e \in Edges, Edit(t, e) PROVE IInv'
  <2>1. UNCHANGED <<revision, edges, history, etag, shown, previewed, call, sent, read>>
    BY <1>2 DEF Edit, canvas
  <2>2. Shape' /\ Others(t)
    BY <1>0, <1>2, <2>1 DEF Shape, Others, Edit
  <2>3. TabOK(etag'[t], shown'[t], call'[t], sent'[t], read'[t], revision, edges, history)
    BY <1>0, <2>1 DEF Fine
  <2> QED BY <2>1, <2>2, <2>3, OneTabMoves DEF canvas
<1>3. ASSUME NEW what \in Clicks, Click(t, what) PROVE IInv'
  <2> DEFINE where == IF what = "save" THEN "transaction" ELSE "first"
  <2>0. Move(t, "click", where, what) /\ where \in Stages
    BY <1>3 DEF Click, Stages
  <2> HIDE DEF where
  <2>1. CallMoved(t, "click", where, what)
    BY <1>0, <2>0, CallTypes, MoveEffect DEF CallMoved
  <2>2. UNCHANGED <<revision, edges, history, etag, shown, draft, previewed, read>>
    BY <1>3 DEF Click, canvas, client
  <2>3. etag[t] \in Nat /\ shown[t] \subseteq Edges /\ draft[t] \subseteq Edges
    BY <1>0, <1>3 DEF Click, Shape
  <2>4. /\ Sent(t, what) \in Messages
        /\ what = "save" => Sent(t, what).rev = etag[t] /\ Sent(t, what).base = shown[t]
    BY <2>3 DEF Sent, Messages, Unsent, Clicks
  <2>5. /\ sent' \in [Tabs -> Messages]
        /\ sent'[t] = Sent(t, what)
        /\ \A u \in Tabs : u # t => sent'[u] = sent[u]
    BY <1>0, <1>3, <2>4 DEF Click, Shape
  <2>6. Shape' /\ Others(t)
    BY <1>0, <2>1, <2>2, <2>5 DEF Shape, Others, CallMoved
  <2>7. TabOK(etag'[t], shown'[t], call'[t], sent'[t], read'[t], revision, edges, history)
    BY <1>0, <1>3, <2>1, <2>2, <2>3, <2>4, <2>5 DEF Fine, TabOK, CallMoved, Slots, Click, where
  <2> QED BY <2>2, <2>6, <2>7, OneTabMoves DEF canvas
<1>4. ASSUME NEW k \in Slots, Arrive(t, k) PROVE IInv'
  <2>1. CallMoved(t, k, "idle", "load")
    BY <1>0, <1>4, MoveEffect DEF Arrive, Stages, CallMoved
  <2>2. ReadMoved(t, k)
    BY <1>0, <1>4, ForgetEffect DEF Arrive, ReadMoved
  <2>3. UNCHANGED <<revision, edges, history, previewed, sent>>
    BY <1>4 DEF Arrive, canvas
  <2>4. read[t][k].rev \in Nat /\ read[t][k].edges \subseteq Edges
    BY <1>0, CallTypes DEF Snapshot
  <2>5. /\ etag' \in [Tabs -> Nat \cup {Nothing}] /\ etag'[t] = read[t][k].rev
        /\ shown' \in [Tabs -> SUBSET Edges] /\ shown'[t] = read[t][k].edges
        /\ draft' \in [Tabs -> SUBSET Edges]
        /\ \A u \in Tabs : u # t => etag'[u] = etag[u] /\ shown'[u] = shown[u]
    BY <1>0, <1>4, <2>4 DEF Arrive, ApplySnapshot, Shape
  <2>6. Shape' /\ Others(t)
    BY <1>0, <2>1, <2>2, <2>3, <2>5 DEF Shape, Others, CallMoved, ReadMoved
  <2>7. StandsIn(read[t][k].rev, read[t][k].edges, revision, edges)
    BY <1>0, <1>4 DEF Fine, TabOK, Arrive, At
  <2>8. TabOK(etag'[t], shown'[t], call'[t], sent'[t], read'[t], revision, edges, history)
    BY <1>0, <2>1, <2>2, <2>3, <2>4, <2>5, <2>7 DEF Fine, TabOK, CallMoved, ReadMoved, Slots
  <2> QED BY <2>3, <2>6, <2>8, OneTabMoves DEF canvas
<1>5. CASE ArriveCompiled(t)
  <2>1. CallMoved(t, "click", "first", "load") \/ CallMoved(t, "click", "idle", "load")
    BY <1>0, <1>5, CallTypes, MoveEffect DEF ArriveCompiled, Stages, CallMoved
  <2>2. ReadMoved(t, "click")
    BY <1>0, <1>5, CallTypes, ForgetEffect DEF ArriveCompiled, ReadMoved
  <2>3. UNCHANGED <<revision, edges, history, etag, shown, draft, sent>> /\ previewed' \subseteq Tabs
    BY <1>0, <1>5 DEF ArriveCompiled, canvas, Shape
  <2>4. Shape' /\ Others(t)
    BY <1>0, <2>1, <2>2, <2>3 DEF Shape, Others, CallMoved, ReadMoved
  <2>5. TabOK(etag'[t], shown'[t], call'[t], sent'[t], read'[t], revision, edges, history)
    BY <1>0, <1>5, <2>1, <2>2, <2>3 DEF Fine, TabOK, CallMoved, ReadMoved, Slots, ArriveCompiled, At
  <2> QED BY <2>3, <2>4, <2>5, OneTabMoves DEF canvas
<1> QED BY <1>1, <1>2, <1>3, <1>4, <1>5

LEMMA NextKeepsIInv == IInv /\ [Next]_vars => IInv'
<1> SUFFICES ASSUME IInv, [Next]_vars PROVE IInv' OBVIOUS
<1>1. CASE UNCHANGED vars
  BY <1>1 DEF vars, IInv, Shape, Fine, Recent
<1>2. ASSUME NEW t \in Tabs, SaveDefaultGraph(t) PROVE IInv'
  BY <1>2, SaveKeepsIInv
<1>3. ASSUME NEW t \in Tabs, NEW k \in Slots,
             ReadFirst(t, k) \/ ReadSecond(t, k) \/ Fail(t, k) \/ Compile(t)
      PROVE  IInv'
  BY <1>3, ServerKeepsIInv
<1>4. ASSUME NEW t \in Tabs,
             \/ Reload(t) \/ \E e \in Edges : Edit(t, e)
             \/ \E what \in Clicks : Click(t, what)
             \/ \E k \in Slots : Arrive(t, k)
             \/ ArriveCompiled(t)
      PROVE  IInv'
  BY <1>4, TabKeepsIInv
<1>5. Slots # {}
  BY DEF Slots
<1> QED BY <1>1, <1>2, <1>3, <1>4, <1>5 DEF Next, Serve, Answer

THEOREM Invariance == Spec => []IInv
BY InitIInv, NextKeepsIInv, PTL DEF Spec

(* The variables of the canvas and the tabs have their types, and a click  *)
(* is under way only in a tab that has a snapshot (FlowCanvas.tsx:205-215). *)
THEOREM TypeCorrect == Spec => []TypeOK
BY Invariance, InvImplies, PTL

(* A revision that is still the current one stands for the current graph,  *)
(* whatever saves come between the statements of a load (store.go:156-205).*)
THEOREM ETagCorrect == Spec => []CurrentETagMeansCurrentGraph
BY Invariance, InvImplies, PTL

(* No compilation works on an older graph than its record says             *)
(* (store.go:156-205, server.go:203-251). *)
THEOREM CompilationsCorrect == Spec => []CompiledGraphNotOlder
BY Invariance, InvImplies, PTL

(* The revision moves only in a save, whose revision was the current one. *)
LEMMA SaveSawTheGraph ==
  ASSUME IInv, Next, NEW u \in Tabs, revision' # revision, call'[u] # call[u]
  PROVE  sent[u].base = edges
<1>1. PICK t \in Tabs : SaveDefaultGraph(t)
  BY DEF Next, Answer, Serve, Reload, Edit, Click, ReadFirst, ReadSecond, Fail, Compile, Arrive,
     ArriveCompiled, canvas
<1>2. At(t, "click", "transaction") /\ sent[t].rev = revision
  BY <1>1 DEF SaveDefaultGraph, canvas
<1>3. sent[t].base = edges
  BY <1>2 DEF IInv, Fine, TabOK, StandsIn, At
<1>4. t = u
  BY <1>1 DEF SaveDefaultGraph, Proceed, ReloadAfterConflict, Move, IInv, Shape
<1> QED BY <1>3, <1>4

(* No tab silently overwrites what another one saved                       *)
(* (docs/architecture.md:308). *)
THEOREM NothingOverwritten == Spec => NoSilentOverwrite
<1>1. IInv /\ [Next]_vars =>
        [\A t \in Tabs : revision' # revision /\ call'[t] # call[t] => sent[t].base = edges]_vars
  BY SaveSawTheGraph DEF vars
<1> QED BY <1>1, Invariance, PTL DEF Spec, NoSilentOverwrite
=============================================================================
