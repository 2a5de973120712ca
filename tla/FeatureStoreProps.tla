-------------------------- MODULE FeatureStoreProps --------------------------
(***************************************************************************)
(* What the derived columns owe to connection_samples, and the claim of a  *)
(* comment that they do not keep.                                          *)
(***************************************************************************)
EXTENDS FeatureStore

(* The types; a counter never exceeds the number of connections and an     *)
(* open transaction leaves no work behind. *)
TypeOK == /\ db \in Tables
          /\ work \in Tables
          /\ \A f \in Flow : db.count[f] <= Cardinality(Conns)
          /\ phase \in {"idle", "events", "recount"}
          /\ batch \subseteq [id : Conns, kind : Kinds]
          /\ pending \subseteq batch
          /\ staleFlows \subseteq Flow
          /\ staleApps \subseteq Apps
          /\ phase = "idle" => batch = {} /\ pending = {} /\ staleFlows = {} /\ staleApps = {}
          /\ up \in BOOLEAN

Exact(t, f) == /\ t.count[f] = Cardinality(OpenOn(t, f))
               /\ f \in t.flows <=> OpenOn(t, f) # {}

CountsAgree == \A f \in Flow : Exact(db, f)

AppExact(t, a) == a \in t.apps <=> \E f \in t.flows : f.app = a

(* What readers see is recomputed from the connection_samples truth table  *)
(* (runtime.go:26-29): the counter and state of a device application are   *)
(* what its open samples make them and an application is active exactly    *)
(* when one of its device applications is, across rollbacks and restarts.  *)
(* The only exceptions are a flow from the time an open connection left it *)
(* for another, and an application from the time any connection left it,   *)
(* to the next recount. *)
DerivedAgree == /\ \A f \in Flow \ db.leftFlows : Exact(db, f)
                /\ \A a \in Apps \ db.leftApps : AppExact(db, a)

(* A device with an open connection is shown as active, whatever the ARP   *)
(* table says and whatever flows its connections moved to                  *)
(* (topology.go:56-57). *)
DeviceActiveWhileOpen ==
  \A c \in db.open : db.at[c] \in Flow /\ db.at[c].device \in db.devices

(* The daemon's restart repairs the counters that moving connections left  *)
(* behind (runtime.go:90-141); the state of an application whose last flow *)
(* became inactive by such a move is not repaired, nothing reads it. *)
RestartRepairs == [][~up /\ up' => CountsAgree' /\ db'.open = {}]_vars

(* The transactions of the store implement SampleTable (runtime.go:30-88   *)
(* and 90-141): whatever the statements of a batch do on the way, in       *)
(* whatever order its events come and wherever it fails, readers see its   *)
(* effect on every connection at once or on none, and after a restart no   *)
(* sample is open before the first batch. *)
State(t, c) == IF t.at[c] = NoRow THEN "none" ELSE IF c \in t.open THEN "open" ELSE "closed"

Has(events, c, kind) == [id |-> c, kind |-> kind] \in events
Event(events, c) == IF Has(events, c, "observed") THEN "observed"
                    ELSE IF Has(events, c, "closed") THEN "closed" ELSE "none"

Table == INSTANCE SampleTable WITH
  sample <- [c \in Conns |-> State(db, c)],
  handed <- [c \in Conns |-> Event(batch, c)],
  serving <- up

BatchesAtomic == Table!Spec

(* runtime.go:274-275: keeping the previous flow of a connection in the    *)
(* affected set prevents stale active counts when ids are reused. *)
NoStaleCounts == CountsAgree
=============================================================================
