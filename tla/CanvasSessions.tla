--------------------------- MODULE CanvasSessions ---------------------------
(***************************************************************************)
(* The canvas and the browser tabs that edit it: LoadDefaultCanvas and     *)
(* SaveDefaultGraph (backend/internal/store/store.go), the canvas and      *)
(* compilation handlers (backend/internal/api/server.go), and the page     *)
(* (frontend/src/components/FlowCanvas.tsx, frontend/src/api/client.ts).   *)
(*                                                                         *)
(* A load is several statements outside any transaction, so a save of      *)
(* another tab may come between them; a save is one transaction followed   *)
(* by a load for the answer.  A tab reloads on its own (a resync event, or *)
(* every ten seconds under LuCI) while the user edits, saves, previews or  *)
(* applies, and the answer of the reload replaces whatever the tab shows.  *)
(*                                                                         *)
(* A canvas is its set of edges; node positions travel with them.          *)
(***************************************************************************)
EXTENDS Naturals, Sequences

CONSTANTS Tabs, Edges,
          Nothing,      \* no snapshot
          Compilers,    \* the tabs that preview and apply (none in demo mode)
          MayFail,      \* a statement or a connection may fail
          MaxRevision   \* bound on saves

ASSUME NothingAssumption == Nothing \notin Nat
ASSUME MayFailAssumption == MayFail \in BOOLEAN
ASSUME CompilersAssumption == Compilers \subseteq Tabs
ASSUME MaxAssumption == MaxRevision \in Nat

VARIABLES
  revision,  \* canvases.revision
  edges,     \* canvas_edges
  etag,      \* snapshot.canvas.etag of a tab, Nothing before the first load
  shown,     \* snapshot.edges of a tab
  draft,     \* the edges on the tab's canvas, edited by the user
  previewed, \* the tabs that show a compilation
  call,      \* where a tab's two requests are
  sent,      \* what a click sent: the tab's etag and draft at that time;
             \* base (history): the edges the tab showed then
  read,      \* what a request's load has read so far
  history    \* history: the graph of every revision so far

client == <<etag, shown, draft, previewed>>
canvas == <<revision, edges, history>>
vars == <<revision, edges, etag, shown, draft, previewed, call, sent, read, history>>

(* A tab's own reload, and the click that disables the buttons. *)
Slots == {"reload", "click"}
Clicks == {"save", "preview", "apply"}
Blank == [rev |-> 0, edges |-> {}]
Unsent == [rev |-> 0, edges |-> {}, base |-> {}]

Init == /\ revision = 0
        /\ edges = {}
        /\ etag = [t \in Tabs |-> Nothing]
        /\ shown = [t \in Tabs |-> {}]
        /\ draft = [t \in Tabs |-> {}]
        /\ previewed = {}
        /\ call = [t \in Tabs |-> [k \in Slots |-> [at |-> "idle", for |-> "load"]]]
        /\ sent = [t \in Tabs |-> Unsent]
        /\ read = [t \in Tabs |-> [k \in Slots |-> Blank]]
        /\ history = <<{}>>

At(t, k, where) == call[t][k].at = where
For(t, k) == call[t][k].for
Move(t, k, where, what) == call' = [call EXCEPT ![t][k] = [at |-> where, for |-> what]]
Proceed(t, k, where) == Move(t, k, where, For(t, k))

(* Mutant: the edges are read before the revision. *)
EdgesFirst == [first |-> "edges", second |-> "revision"]

(* LoadDefaultCanvas reads the revision, then the rows. *)
LoadOrder == [first |-> "revision", second |-> "edges"]

Load(t, k, statement) ==
  read' = IF statement = "revision" THEN [read EXCEPT ![t][k].rev = revision]
                                    ELSE [read EXCEPT ![t][k].edges = edges]

(* -------------------------------- the tab ------------------------------ *)

(* refresh: at start, on a resync event or by the timer; never held back.  *)
(* Its first statement sees the canvas of any time since it was sent, so   *)
(* sending it is not a step of its own. *)
Reload(t) ==
  /\ At(t, "reload", "idle")
  /\ Load(t, "reload", LoadOrder.first)
  /\ Move(t, "reload", "second", "load")
  /\ UNCHANGED <<canvas, client, sent>>

(* onConnect, and the removal of an edge; neither waits for anything. *)
Edit(t, e) ==
  /\ etag[t] # Nothing
  /\ draft' = [draft EXCEPT ![t] = IF e \in @ THEN @ \ {e} ELSE @ \cup {e}]
  /\ UNCHANGED <<canvas, etag, shown, previewed, call, sent, read>>

(* A save sends the etag and the draft, an apply only the etag.            *)
Sent(t, what) == CASE what = "save" -> [rev |-> etag[t], edges |-> draft[t], base |-> shown[t]]
                   [] what = "apply" -> [Unsent EXCEPT !.rev = etag[t]]
                   [] OTHER -> Unsent

(* Mutant: the buttons are enabled before the first load. *)
ClickEarly(t, what) ==
  /\ At(t, "click", "idle")
  /\ sent' = [sent EXCEPT ![t] = Sent(t, what)]
  /\ Move(t, "click", IF what = "save" THEN "transaction" ELSE "first", what)
  /\ UNCHANGED <<canvas, client, read>>

(* A button, disabled before the first load and while another click is     *)
(* under way.  It is disabled during a reload too, but reloads may overlap *)
(* and the first that ends enables it again. *)
Click(t, what) ==
  /\ etag[t] # Nothing
  /\ At(t, "click", "idle")
  /\ what = "apply" => t \in previewed
  /\ what = "preview" => t \in Compilers
  /\ sent' = [sent EXCEPT ![t] = Sent(t, what)]
  /\ Move(t, "click", IF what = "save" THEN "transaction" ELSE "first", what)
  /\ UNCHANGED <<canvas, client, read>>

(* ------------------------------- the server ---------------------------- *)

ReadFirst(t, k) ==
  /\ At(t, k, "first")
  /\ Load(t, k, LoadOrder.first)
  /\ Proceed(t, k, "second")
  /\ UNCHANGED <<canvas, client, sent>>

ReadSecond(t, k) ==
  /\ At(t, k, "second")
  /\ Load(t, k, LoadOrder.second)
  /\ Proceed(t, k, "loaded")
  /\ UNCHANGED <<canvas, client, sent>>

(* What a click sent has been used. *)
Received(t) == sent' = [sent EXCEPT ![t] = Unsent]

(* Mutant: the last writer wins. *)
SaveUnchecked(t) ==
  /\ At(t, "click", "transaction")
  /\ revision < MaxRevision
  /\ revision' = revision + 1
  /\ edges' = sent[t].edges
  /\ history' = Append(history, edges')
  /\ Proceed(t, "click", "first")
  /\ Received(t)
  /\ UNCHANGED <<client, read>>

(* A conflict is answered with an error, and the tab reloads. *)
ReloadAfterConflict(t) == Move(t, "click", "first", "load")

(* SaveDefaultGraph: the revision is compared, the graph replaced and the  *)
(* revision advanced in one transaction; the load that follows makes the   *)
(* answer. *)
SaveDefaultGraph(t) ==
  /\ At(t, "click", "transaction")
  /\ IF sent[t].rev # revision
     THEN ReloadAfterConflict(t) /\ UNCHANGED canvas
     ELSE /\ revision < MaxRevision
          /\ revision' = revision + 1
          /\ edges' = sent[t].edges
          /\ history' = Append(history, edges')
          /\ Proceed(t, "click", "first")
  /\ Received(t)
  /\ UNCHANGED <<client, read>>

(* handleValidateCompilation and handleApplyCompilation compile what the   *)
(* load read and record it under the revision that was read; an apply of   *)
(* another revision than the tab's is a conflict. *)
Compile(t) ==
  /\ At(t, "click", "loaded")
  /\ For(t, "click") \in {"preview", "apply"}
  /\ IF For(t, "click") = "apply" /\ sent[t].rev # read[t]["click"].rev
     THEN ReloadAfterConflict(t)
     ELSE Proceed(t, "click", "compiled")
  /\ Received(t)
  /\ UNCHANGED <<canvas, client, read>>

(* ------------------------- answers reach the tab ----------------------- *)

(* Mutant: a snapshot leaves the edges on the canvas alone. *)
KeepDraft(t, snapshot) ==
  /\ etag' = [etag EXCEPT ![t] = snapshot.rev]
  /\ UNCHANGED <<shown, draft>>

(* applySnapshot replaces everything the tab shows. *)
ApplySnapshot(t, snapshot) ==
  /\ etag' = [etag EXCEPT ![t] = snapshot.rev]
  /\ shown' = [shown EXCEPT ![t] = snapshot.edges]
  /\ draft' = [draft EXCEPT ![t] = snapshot.edges]

Forget(t, k) == read' = [read EXCEPT ![t][k] = Blank]

(* The answer of a reload or of a save. *)
Arrive(t, k) ==
  /\ At(t, k, "loaded")
  /\ For(t, k) \in {"load", "save"}
  /\ ApplySnapshot(t, read[t][k])
  /\ Move(t, k, "idle", "load")
  /\ Forget(t, k)
  /\ UNCHANGED <<canvas, previewed, sent>>

(* The answer of a preview or an apply: the compilation is shown, and      *)
(* after an apply the click goes on with a reload. *)
ArriveCompiled(t) ==
  /\ At(t, "click", "compiled")
  /\ previewed' = previewed \cup {t}
  /\ IF For(t, "click") = "apply" THEN Move(t, "click", "first", "load")
                                  ELSE Move(t, "click", "idle", "load")
  /\ Forget(t, "click")
  /\ UNCHANGED <<canvas, etag, shown, draft, sent>>

(* The graph is refused, a statement fails or the connection breaks; a     *)
(* save may have been committed by then.  The tab only shows a message.    *)
Fail(t, k) ==
  /\ MayFail \/ (At(t, k, "transaction") /\ revision = MaxRevision)
  /\ ~At(t, k, "idle")
  /\ Move(t, k, "idle", "load")
  /\ Forget(t, k)
  /\ IF k = "click" THEN Received(t) ELSE UNCHANGED sent
  /\ UNCHANGED <<canvas, client>>

Serve(t, k) == ReadFirst(t, k) \/ ReadSecond(t, k) \/ Arrive(t, k)
Answer(t) == SaveDefaultGraph(t) \/ Compile(t) \/ ArriveCompiled(t)

Next == \E t \in Tabs :
          \/ Reload(t) \/ Answer(t)
          \/ \E e \in Edges : Edit(t, e)
          \/ \E what \in Clicks : Click(t, what)
          \/ \E k \in Slots : Serve(t, k) \/ Fail(t, k)

Spec == Init /\ [][Next]_vars

(* A tab reloads every ten seconds, requests are served and answered.      *)
(* Nothing makes a user edit or click. *)
Fairness == \A t \in Tabs : /\ WF_vars(Reload(t)) /\ WF_vars(Answer(t))
                            /\ \A k \in Slots : WF_vars(Serve(t, k))
FairSpec == Spec /\ Fairness
=============================================================================
