---------------------------- MODULE FeatureStore ----------------------------
(***************************************************************************)
(* The counters derived from connection_samples                            *)
(* (backend/internal/store/runtime.go) and the device states that the      *)
(* topology refresh derives from them (backend/internal/store/topology.go).*)
(*                                                                         *)
(* A device application is a device, an application (host) and a network.  *)
(* Its active_connections and state, and the state of its application, are *)
(* recomputed in the transaction that changes the samples; a transaction   *)
(* works on a copy of the tables that readers see only when it commits.    *)
(* Store.ApplyFeatureEvents is called by one goroutine; SQLite has one     *)
(* writer at a time and aborts a transaction that lost the race, so the    *)
(* topology transaction is one step between the others.                    *)
(***************************************************************************)
EXTENDS Naturals, FiniteSets

CONSTANTS Conns, Devices, Apps, Networks,
          NoRow       \* the connection has no sample

ASSUME ConnsAssumption == IsFiniteSet(Conns)
ASSUME NoRowAssumption == NoRow \notin [device : Devices, app : Apps, network : Networks]

VARIABLES
  db,       \* the committed tables
  work,     \* the tables as the open transaction sees them
  phase,    \* "idle", or what the open transaction is doing
  batch,    \* the argument of ApplyFeatureEvents while it runs, coalesced
  pending,  \* the events of the batch not yet applied
  staleFlows, \* affectedDeviceApplications
  staleApps,  \* affectedApplications
  up        \* startup cleanup is done and the workers run

vars == <<db, work, phase, batch, pending, staleFlows, staleApps, up>>

Flow == [device : Devices, app : Apps, network : Networks]
Kinds == {"observed", "closed"}

(* connection_samples (whose flow, closed_at IS NULL), device_applications *)
(* (active_connections, state = 'active'), applications and devices        *)
(* (state = 'active').  History: the flows that an open connection left    *)
(* and the applications that any connection left since the last recount.   *)
Tables == [at : [Conns -> Flow \cup {NoRow}], open : SUBSET Conns,
           count : [Flow -> Nat], flows : SUBSET Flow,
           apps : SUBSET Apps, devices : SUBSET Devices,
           leftFlows : SUBSET Flow, leftApps : SUBSET Apps]

Empty == [at |-> [c \in Conns |-> NoRow], open |-> {},
          count |-> [f \in Flow |-> 0], flows |-> {}, apps |-> {}, devices |-> {},
          leftFlows |-> {}, leftApps |-> {}]

Init == /\ db = Empty
        /\ work = Empty
        /\ phase = "idle"
        /\ batch = {}
        /\ pending = {}
        /\ staleFlows = {}
        /\ staleApps = {}
        /\ up = FALSE

OpenOn(t, f) == {c \in t.open : t.at[c] = f}

(* ------------------------- one batch of events ------------------------- *)

(* ApplyFeatureEvents on a coalesced batch: one event per connection. *)
BeginBatch(events) ==
  /\ phase = "idle" /\ up
  /\ work' = db
  /\ batch' = events
  /\ pending' = events
  /\ phase' = "events"
  /\ UNCHANGED <<db, staleFlows, staleApps, up>>

(* Mutant: the counter is kept by increments. *)
Increment(t, f) ==
  [t EXCEPT !.count[f] = @ + Cardinality(OpenOn(t, f)),
            !.flows = IF OpenOn(t, f) # {} THEN @ \cup {f} ELSE @ \ {f},
            !.leftFlows = @ \ {f}]

(* reconcileDeviceApplicationTx: recount the open samples of a flow. *)
Recount(t, f) ==
  [t EXCEPT !.count[f] = Cardinality(OpenOn(t, f)),
            !.flows = IF OpenOn(t, f) # {} THEN @ \cup {f} ELSE @ \ {f},
            !.leftFlows = @ \ {f}]

(* A sample that moves to another flow has its previous flow recounted,    *)
(* while it is still there. *)
RecountPrevious(t, c, f) ==
  IF t.at[c] \in {NoRow, f} THEN t
  ELSE [Recount(t, t.at[c]) EXCEPT !.leftFlows = IF c \in t.open THEN @ \cup {t.at[c]} ELSE @,
                                   !.leftApps = @ \cup {t.at[c].app}]

(* The upserts of the device, the application, the flow and the sample. *)
Upsert(t, c, f) ==
  [t EXCEPT !.at[c] = f, !.open = @ \cup {c}, !.flows = @ \cup {f},
            !.apps = @ \cup {f.app}, !.devices = @ \cup {f.device}]

(* A connection may be observed with any flow, another one than before     *)
(* when its protocol is sniffed late or its id is reused. *)
Observe(c, f) ==
  /\ phase = "events"
  /\ [id |-> c, kind |-> "observed"] \in pending
  /\ work' = Upsert(RecountPrevious(work, c, f), c, f)
  /\ staleFlows' = staleFlows \cup {f}
  /\ staleApps' = staleApps \cup {f.app}
  /\ pending' = pending \ {[id |-> c, kind |-> "observed"]}
  /\ UNCHANGED <<db, phase, batch, up>>

(* Mutant: a close leaves its flow out of the recount. *)
CloseQuietly(c) ==
  /\ phase = "events"
  /\ [id |-> c, kind |-> "closed"] \in pending
  /\ work' = [work EXCEPT !.open = @ \ {c}]
  /\ pending' = pending \ {[id |-> c, kind |-> "closed"]}
  /\ UNCHANGED <<db, phase, batch, staleFlows, staleApps, up>>

(* Mutant: the loop over the events stops at one that has no sample. *)
CloseOrStop(c) ==
  /\ phase = "events"
  /\ [id |-> c, kind |-> "closed"] \in pending
  /\ IF work.at[c] = NoRow
     THEN UNCHANGED <<work, staleFlows, staleApps>>
     ELSE /\ work' = [work EXCEPT !.open = @ \ {c}]
          /\ staleFlows' = staleFlows \cup {work.at[c]}
          /\ staleApps' = staleApps \cup {work.at[c].app}
  /\ pending' = IF work.at[c] = NoRow THEN {} ELSE pending \ {[id |-> c, kind |-> "closed"]}
  /\ UNCHANGED <<db, phase, batch, up>>

Close(c) ==
  /\ phase = "events"
  /\ [id |-> c, kind |-> "closed"] \in pending
  /\ IF work.at[c] = NoRow
     THEN UNCHANGED <<work, staleFlows, staleApps>>
     ELSE /\ work' = [work EXCEPT !.open = @ \ {c}]
          /\ staleFlows' = staleFlows \cup {work.at[c]}
          /\ staleApps' = staleApps \cup {work.at[c].app}
  /\ pending' = pending \ {[id |-> c, kind |-> "closed"]}
  /\ UNCHANGED <<db, phase, batch, up>>

EventsDone ==
  /\ phase = "events"
  /\ pending = {}
  /\ phase' = "recount"
  /\ UNCHANGED <<db, work, batch, pending, staleFlows, staleApps, up>>

(* ---------------------- the end of every transaction ------------------- *)

RecountFlow(f) ==
  /\ phase = "recount"
  /\ f \in staleFlows
  /\ work' = Recount(work, f)
  /\ staleFlows' = staleFlows \ {f}
  /\ UNCHANGED <<db, phase, batch, pending, staleApps, up>>

(* reconcileApplicationTx. *)
ReconcileApp(a) ==
  /\ phase = "recount"
  /\ staleFlows = {}
  /\ a \in staleApps
  /\ work' = [work EXCEPT !.apps = IF \E f \in work.flows : f.app = a
                                   THEN @ \cup {a} ELSE @ \ {a},
                          !.leftApps = @ \ {a}]
  /\ staleApps' = staleApps \ {a}
  /\ UNCHANGED <<db, phase, batch, pending, staleFlows, up>>

Commit ==
  /\ phase = "recount"
  /\ staleFlows = {} /\ staleApps = {}
  /\ db' = work
  /\ phase' = "idle"
  /\ up' = TRUE
  /\ batch' = {}
  /\ UNCHANGED <<work, pending, staleFlows, staleApps>>

(* A statement fails, or the daemon dies: the transaction is rolled back   *)
(* and the daemon starts anew (an error of the writer stops it). *)
GoDown ==
  /\ up \/ phase # "idle"
  /\ work' = db
  /\ phase' = "idle"
  /\ batch' = {}
  /\ pending' = {}
  /\ staleFlows' = {}
  /\ staleApps' = {}
  /\ up' = FALSE
  /\ UNCHANGED db

(* --------------------------- startup cleanup --------------------------- *)

(* Mutant: the flows of the samples that were closed, instead of the rows  *)
(* that claim to be active. *)
OpenedFlows(t) == {f \in Flow : OpenOn(t, f) # {}}

ClaimActive(t) == {f \in Flow : t.count[f] > 0 \/ f \in t.flows}

(* MarkOpenConnectionsInactive, before the workers start. *)
MarkOpenConnectionsInactive ==
  /\ phase = "idle" /\ ~up
  /\ work' = [db EXCEPT !.open = {}]
  /\ staleFlows' = ClaimActive(db)
  /\ staleApps' = {f.app : f \in ClaimActive(db)}
  /\ phase' = "recount"
  /\ UNCHANGED <<db, batch, pending, up>>

(* ---------------------------- topology refresh ------------------------- *)

(* Mutant: absence from ARP and DHCP is enough. *)
OnlyRecent(t, recent) == t.devices \cap recent

(* The devices that stay active without ARP or DHCP: seen in this second,  *)
(* or with active connections. *)
StillActive(t, recent) ==
  {d \in t.devices : d \in recent \/ \E f \in Flow : f.device = d /\ t.count[f] > 0}

UpsertTopologyDevices(seen, recent) ==
  /\ phase = "idle" /\ up
  /\ db' = [db EXCEPT !.devices = StillActive(db, recent) \cup seen]
  /\ UNCHANGED <<work, phase, batch, pending, staleFlows, staleApps, up>>

Batches == {[id : ids, kind : {"observed"}] \cup [id : gone, kind : {"closed"}] :
              ids \in SUBSET Conns, gone \in SUBSET Conns}
Coalesced(events) == \A e, g \in events : e.id = g.id => e = g

Next == \/ \E events \in Batches : events # {} /\ Coalesced(events) /\ BeginBatch(events)
        \/ \E c \in Conns : Close(c) \/ \E f \in Flow : Observe(c, f)
        \/ EventsDone
        \/ \E f \in Flow : RecountFlow(f)
        \/ \E a \in Apps : ReconcileApp(a)
        \/ Commit \/ GoDown \/ MarkOpenConnectionsInactive
        \/ \E seen, recent \in SUBSET Devices : UpsertTopologyDevices(seen, recent)

Spec == Init /\ [][Next]_vars
=============================================================================
