------------------------------- MODULE LiveSync -------------------------------
(***************************************************************************)
(* How a change reaches the browsers: Mihomo's proxies are fetched by the  *)
(* periodic and by manual refreshes (telemetry/proxy_refresher.go, started *)
(* in cmd/flowcanvasd/main.go), stored in the catalogue                    *)
(* (telemetry/live_catalog.go) and announced through the hub; a tab that   *)
(* receives an event loads the canvas again (frontend/src/api/client.ts,   *)
(* components/FlowCanvas.tsx).                                             *)
(*                                                                         *)
(* Two refreshes run concurrently, so the older answer may be stored last; *)
(* two loads of a tab may be answered in either order; a stream breaks,    *)
(* and what is announced until the browser has reconnected is lost, for    *)
(* nothing is loaded when the stream resumes.                              *)
(***************************************************************************)
EXTENDS EventHub

CONSTANTS Tabs,
          Periodic,    \* the publisher that is driven by the ticker
          MaxLoads,    \* bound on the loads under way that read the same
          MaxVersion,  \* bound on the changes of Mihomo's proxies
          MaxMishaps   \* bound on broken streams and failed requests

ASSUME PeriodicAssumption == Periodic \in Publishers
ASSUME BoundsAssumption == MaxLoads \in Nat /\ MaxVersion \in Nat /\ MaxMishaps \in Nat

(* There are streams enough for every tab. *)
ASSUME StreamsAssumption ==
  \E f \in [Tabs -> Streams] : \A t, u \in Tabs : f[t] = f[u] => t = u

VARIABLES
  upstream,   \* Mihomo's proxies, counted by their changes
  catalogue,  \* LiveCatalog.targets, by the same count
  fetched,    \* the answers a publisher's refresh holds, one at most
  line,       \* the stream a tab listens to
  answers,    \* the loads of a tab under way, counted by what they read
  shown,      \* the catalogue a tab shows
  behind,     \* history: the subscribed streams whose tabs have not read
              \* the catalogue since it was last stored
  mishaps

tabs == <<line, answers, shown>>
vars == <<hub, upstream, catalogue, fetched, tabs, behind, mishaps>>

Versions == 0..MaxVersion

(* A page loads the canvas and opens its stream at the same time.  Streams *)
(* are interchangeable, so one choice of the first ones is enough. *)
Init ==
  /\ line = CHOOSE f \in [Tabs -> Streams] : \A t, u \in Tabs : f[t] = f[u] => t = u
  /\ stage = [s \in Streams |-> IF \E t \in Tabs : line[t] = s THEN "connecting" ELSE "unused"]
  /\ queue = [s \in Streams |-> 0]
  /\ call = [p \in Publishers |-> Idle]
  /\ upstream = 0
  /\ catalogue = 0
  /\ fetched = [p \in Publishers |-> {}]
  /\ answers = [t \in Tabs |-> [v \in Versions |-> 0]]
  /\ shown = [t \in Tabs |-> 0]
  /\ behind = {}
  /\ mishaps = 0

Mishap == mishaps < MaxMishaps /\ mishaps' = mishaps + 1
Free(p) == call[p].at = "idle" /\ fetched[p] = {}

(* ----------------------------- the refreshes --------------------------- *)

(* Mihomo's proxies change (external). *)
Change ==
  /\ upstream < MaxVersion
  /\ upstream' = upstream + 1
  /\ UNCHANGED <<hub, catalogue, fetched, tabs, behind, mishaps>>

(* A refresh asks Mihomo. *)
Fetch(p) ==
  /\ Free(p)
  /\ fetched' = [fetched EXCEPT ![p] = {upstream}]
  /\ UNCHANGED <<hub, upstream, catalogue, tabs, behind, mishaps>>

(* An error ends the refresh; the catalogue keeps what it has. *)
FetchFails(p) ==
  /\ fetched[p] # {}
  /\ Mishap
  /\ fetched' = [fetched EXCEPT ![p] = {}]
  /\ UNCHANGED <<hub, upstream, catalogue, tabs, behind>>

(* Mutant: only a change of the catalogue is announced. *)
ReplaceQuietly(p) ==
  /\ catalogue' \in fetched[p]
  /\ behind' = behind \cup Subscribers
  /\ fetched' = [fetched EXCEPT ![p] = {}]
  /\ call' = IF catalogue' = catalogue THEN call ELSE [call EXCEPT ![p] = Called]
  /\ UNCHANGED <<stage, queue, upstream, tabs, mishaps>>

(* ReplaceTargets, and the call of Publish. *)
ReplaceTargets(p) ==
  /\ catalogue' \in fetched[p]
  /\ behind' = behind \cup Subscribers
  /\ fetched' = [fetched EXCEPT ![p] = {}]
  /\ call' = [call EXCEPT ![p] = Called]
  /\ UNCHANGED <<stage, queue, upstream, tabs, mishaps>>

(* An announcement of anything else: handleRefreshDiscovery announces the  *)
(* manual refresh once more, and saves, applies, batches and the topology  *)
(* are announced without a change of the catalogue. *)
Announce(p) ==
  /\ p # Periodic
  /\ Free(p)
  /\ call' = [call EXCEPT ![p] = Called]
  /\ UNCHANGED <<stage, queue, upstream, catalogue, fetched, tabs, behind, mishaps>>

(* ------------------------------- the tabs ------------------------------ *)

(* The event reaches the page, which answers with a load, whatever the     *)
(* event says and whatever else is under way; handleCanvas reads the       *)
(* catalogue.  The way of the request counts as the way of the event. *)
OnEvent(t) ==
  /\ Move(line[t], "writing", "open")
  /\ answers[t][catalogue] < MaxLoads
  /\ answers' = [answers EXCEPT ![t][catalogue] = @ + 1]
  /\ behind' = behind \ {line[t]}
  /\ UNCHANGED <<queue, call, upstream, catalogue, fetched, line, shown, mishaps>>

(* applySnapshot, in the order of the answers. *)
ApplySnapshot(t, v) ==
  /\ answers[t][v] > 0
  /\ shown' = [shown EXCEPT ![t] = v]
  /\ answers' = [answers EXCEPT ![t][v] = @ - 1]
  /\ UNCHANGED <<hub, upstream, catalogue, fetched, line, behind, mishaps>>

(* A load fails: the tab shows the error, and does not try again. *)
LoadFails(t, v) ==
  /\ answers[t][v] > 0
  /\ Mishap
  /\ answers' = [answers EXCEPT ![t][v] = @ - 1]
  /\ UNCHANGED <<hub, upstream, catalogue, fetched, line, shown, behind>>

(* An open stream breaks; the browser opens another one by itself, and     *)
(* loads nothing. *)
Break(t, s) ==
  /\ stage[line[t]] \in {"open", "writing"}
  /\ stage[s] = "unused"
  /\ Mishap
  /\ line' = [line EXCEPT ![t] = s]
  /\ stage' = [stage EXCEPT ![s] = "connecting"]
  /\ UNCHANGED <<queue, call, upstream, catalogue, fetched, answers, shown, behind>>

(* The handler of a broken stream notices, sooner or later; what it wrote  *)
(* is lost. *)
Broken(s) == \A t \in Tabs : line[t] # s

(* ------------------------------ all of it ------------------------------ *)

Rest == UNCHANGED <<upstream, catalogue, fetched, tabs, behind, mishaps>>

Publish(p) == (RLock(p) \/ \E s \in Streams : Send(p, s) \/ Drop(p, s) \/ Resync(p, s)) /\ Rest
Serve(s) == (Accept(s) \/ Subscribe(s) \/ Unsubscribe(s)) /\ Rest
Receive(s) == Take(s) /\ Rest
Notice(s) == Broken(s) /\ Leave(s) /\ Rest

Next == \/ Change
        \/ \E p \in Publishers :
             Fetch(p) \/ FetchFails(p) \/ ReplaceTargets(p) \/ Announce(p) \/ Publish(p)
        \/ \E s \in Streams : Serve(s) \/ Receive(s) \/ Notice(s)
        \/ \E t \in Tabs : \/ OnEvent(t)
                           \/ \E v \in Versions : ApplySnapshot(t, v) \/ LoadFails(t, v)
                           \/ \E s \in Streams : Break(t, s)

Spec == Init /\ [][Next]_vars

(* The ticker, the requests under way, the handlers and the browser all go *)
(* on; nothing makes a user ask for a refresh.  A handler that waits for   *)
(* its queue is given the next event by the send itself, before any        *)
(* publisher can throw it away: it receives though the queue may be empty  *)
(* again and again. *)
Fairness ==
  /\ WF_vars(Fetch(Periodic))
  /\ \A p \in Publishers : WF_vars(ReplaceTargets(p)) /\ WF_vars(Publish(p))
  /\ \A s \in Streams : WF_vars(Serve(s)) /\ SF_vars(Receive(s)) /\ WF_vars(Notice(s))
  /\ \A t \in Tabs : /\ WF_vars(OnEvent(t))
                     /\ \A v \in Versions : WF_vars(ApplySnapshot(t, v))
FairSpec == Spec /\ Fairness
=============================================================================
