------------------------- MODULE CanvasSessionsProps -------------------------
(***************************************************************************)
(* What the optimistic lock of the canvas must give the tabs, and a    *)
(* statement of the page that does not hold.                               *)
(***************************************************************************)
EXTENDS CanvasSessions

Stages == {"idle", "first", "second", "loaded", "transaction", "compiled"}
Snapshot == [rev : Nat, edges : SUBSET Edges]

(* The types; a click is under way only in a tab that has a snapshot. *)
TypeOK == /\ revision \in Nat
          /\ edges \subseteq Edges
          /\ etag \in [Tabs -> Nat \cup {Nothing}]
          /\ shown \in [Tabs -> SUBSET Edges]
          /\ draft \in [Tabs -> SUBSET Edges]
          /\ previewed \subseteq Tabs
          /\ call \in [Tabs -> [Slots -> [at : Stages, for : {"load"} \cup Clicks]]]
          /\ sent \in [Tabs -> [rev : Nat, edges : SUBSET Edges, base : SUBSET Edges]]
          /\ read \in [Tabs -> [Slots -> Snapshot]]
          /\ history \in Seq(SUBSET Edges)
          /\ \A t \in Tabs : call[t]["reload"].for = "load"
          /\ \A t \in Tabs : etag[t] = Nothing => call[t]["click"].at = "idle"

(* A revision that is still the current one stands for the current graph,  *)
(* however the statements of a load and the saves of other tabs interleave *)
(* (store.go:156-205): in a tab, in what a save was based on, in a load on *)
(* its way to a tab or the compiler, and in one that has only read the     *)
(* revision so far. *)
Stands(rev, graph) == rev <= revision /\ (rev = revision => graph = edges)
CurrentETagMeansCurrentGraph ==
  \A t \in Tabs :
    /\ etag[t] # Nothing => Stands(etag[t], shown[t])
    /\ At(t, "click", "transaction") => Stands(sent[t].rev, sent[t].base)
    /\ \A k \in Slots :
         /\ At(t, k, "second") => read[t][k].rev <= revision
         /\ call[t][k].at \in {"loaded", "compiled"} => Stands(read[t][k].rev, read[t][k].edges)

(* No tab overwrites what another tab saved without having seen it         *)
(* (docs/architecture.md:308, README.md:94): the graph that a save         *)
(* replaces is the one the tab showed. *)
NoSilentOverwrite ==
  [][\A t \in Tabs : revision' # revision /\ call'[t] # call[t] => sent[t].base = edges]_vars

(* A compilation never works on an older graph than the revision in its    *)
(* record says (store.go:156-205, server.go:203-251). *)
CompiledGraphNotOlder ==
  \A t \in Tabs : At(t, "click", "compiled") =>
    \E later \in read[t]["click"].rev..revision : read[t]["click"].edges = history[later + 1]

(* What every tab shows follows the saves: once they stop, every tab that  *)
(* nobody edits ends up with the current graph, also when answers arrive   *)
(* out of order (client.ts:94-110, FlowCanvas.tsx:56-72). *)
TabsConverge ==
  \A t \in Tabs : \A r \in 0..MaxRevision :
    <>[](revision = r) => <>[](etag[t] = revision /\ shown[t] = edges)

(* FlowCanvas.tsx:113: an edge that was drawn is in the draft until "save"  *)
(* writes it.  The tab's own reload does not take it away. *)
DraftSurvives ==
  [][\A t \in Tabs : At(t, "reload", "loaded") /\ call'[t]["reload"].at = "idle" /\ draft[t] # shown[t]
       => draft'[t] = draft[t]]_vars
=============================================================================
