------------------------- MODULE FeatureStoreProofs -------------------------
(***************************************************************************)
(* The derived columns follow the open samples, for any numbers of         *)
(* connections, devices, applications and networks.                        *)
(*                                                                         *)
(* Agree says what a copy of the tables satisfies while the flows stale    *)
(* and the applications staleA still wait for their recount.  The          *)
(* committed tables satisfy it with nothing waiting, and the open          *)
(* transaction with the affected sets of the code.                         *)
(***************************************************************************)
EXTENDS FeatureStoreProps, FiniteSetTheorems, TLAPS

(* An open sample is counted, has a flow, and its device is active. *)
Held(t, stale) ==
  /\ \A f \in Flow \ stale : OpenOn(t, f) # {} => t.count[f] > 0
  /\ \A c \in t.open : t.at[c] \in Flow /\ t.at[c].device \in t.devices

Agree(t, stale, staleA) ==
  /\ \A f \in Flow \ (stale \cup t.leftFlows) : Exact(t, f)
  /\ \A a \in Apps \ (staleA \cup t.leftApps) : AppExact(t, a)
  /\ \A f \in Flow : t.count[f] <= Cardinality(Conns)
  /\ Held(t, stale)

(* Startup cleanup leaves no sample open and recounts whatever may be      *)
(* wrong, a flow that was left too. *)
Cleaned == /\ phase \in {"idle", "recount"}
           /\ phase = "recount" =>
                work.open = {} /\ \A f \in Flow \ staleFlows : Exact(work, f)

IInv == /\ TypeOK
        /\ Agree(db, {}, {})
        /\ Agree(work, staleFlows, staleApps)
        /\ \A f \in staleFlows : f.app \in staleApps
        /\ phase = "recount" => pending = {}
        /\ ~up => Cleaned

LEMMA FlowFields == \A f \in Flow : f.device \in Devices /\ f.app \in Apps
BY DEF Flow

LEMMA NoRowNoFlow == NoRow \notin Flow
BY NoRowAssumption DEF Flow

(* The counter is a number of connections. *)
LEMMA CountBound ==
  ASSUME NEW t \in Tables, NEW f
  PROVE  /\ Cardinality(OpenOn(t, f)) \in Nat
         /\ Cardinality(OpenOn(t, f)) <= Cardinality(Conns)
         /\ OpenOn(t, f) # {} <=> Cardinality(OpenOn(t, f)) > 0
<1>1. OpenOn(t, f) \subseteq Conns
  BY DEF OpenOn, Tables
<1>2. /\ IsFiniteSet(OpenOn(t, f))
      /\ Cardinality(OpenOn(t, f)) <= Cardinality(Conns)
  BY <1>1, ConnsAssumption, FS_Subset, FS_CardinalityType
<1>3. Cardinality(OpenOn(t, f)) \in Nat
  BY <1>2, FS_CardinalityType
<1>4. OpenOn(t, f) = {} <=> Cardinality(OpenOn(t, f)) = 0
  BY <1>2, FS_EmptySet
<1> QED BY <1>2, <1>3, <1>4

(* ------------------- the tables before and after a statement ----------- *)

LEMMA RecountEffect ==
  ASSUME NEW t \in Tables, NEW f \in Flow, NEW n, n = Recount(t, f)
  PROVE  /\ n \in Tables
         /\ n.at = t.at /\ n.open = t.open /\ n.apps = t.apps /\ n.devices = t.devices
         /\ n.leftApps = t.leftApps /\ n.leftFlows = t.leftFlows \ {f}
         /\ Exact(n, f)
         /\ \A g \in Flow : g # f => n.count[g] = t.count[g] /\ (g \in n.flows <=> g \in t.flows)
         /\ \A g : OpenOn(n, g) = OpenOn(t, g)
<1> DEFINE number == Cardinality(OpenOn(t, f))
<1> DEFINE rows == IF OpenOn(t, f) # {} THEN t.flows \cup {f} ELSE t.flows \ {f}
<1>1. number \in Nat
  BY CountBound
<1>2. rows \in SUBSET Flow /\ (f \in rows <=> OpenOn(t, f) # {})
      /\ \A g : g # f => (g \in rows <=> g \in t.flows)
  BY DEF Tables
<1>3. n = [t EXCEPT !.count = [t.count EXCEPT ![f] = number], !.flows = rows,
                    !.leftFlows = t.leftFlows \ {f}]
  BY DEF Recount, Tables
<1> HIDE DEF number, rows
<1> DEFINE counts == [t.count EXCEPT ![f] = number]
<1>4. counts \in [Flow -> Nat] /\ counts[f] = number /\ \A g \in Flow : g # f => counts[g] = t.count[g]
  BY <1>1 DEF Tables
<1> HIDE DEF counts
<1>5. n = [t EXCEPT !.count = counts, !.flows = rows, !.leftFlows = t.leftFlows \ {f}]
  BY <1>3 DEF counts
<1>6. /\ n.at = t.at /\ n.open = t.open /\ n.apps = t.apps /\ n.devices = t.devices
      /\ n.leftApps = t.leftApps /\ n.leftFlows = t.leftFlows \ {f}
      /\ n.count = counts /\ n.flows = rows
  BY <1>5 DEF Tables
<1>7. n \in Tables
  BY <1>2, <1>4, <1>5 DEF Tables
<1>8. \A g : OpenOn(n, g) = OpenOn(t, g)
  BY <1>6 DEF OpenOn
<1>9. Exact(n, f)
  BY <1>2, <1>4, <1>6, <1>8 DEF Exact, number
<1> QED BY <1>2, <1>4, <1>6, <1>7, <1>8, <1>9

(* A recount of one flow. *)
LEMMA RecountKeepsAgree ==
  ASSUME NEW t \in Tables, NEW f \in Flow, NEW stale, NEW staleA,
         Agree(t, stale, staleA), NEW n, n = Recount(t, f)
  PROVE  Agree(n, stale \ {f}, staleA \cup {f.app})
<1>1. /\ n \in Tables
      /\ n.at = t.at /\ n.open = t.open /\ n.apps = t.apps /\ n.devices = t.devices
      /\ n.leftApps = t.leftApps /\ n.leftFlows = t.leftFlows \ {f}
      /\ Exact(n, f)
      /\ \A g \in Flow : g # f => n.count[g] = t.count[g] /\ (g \in n.flows <=> g \in t.flows)
      /\ \A g : OpenOn(n, g) = OpenOn(t, g)
  BY RecountEffect
<1>2. \A g \in Flow \ ((stale \ {f}) \cup n.leftFlows) : Exact(n, g)
  BY <1>1 DEF Agree, Exact
<1>3. \A a \in Apps \ ((staleA \cup {f.app}) \cup n.leftApps) : AppExact(n, a)
  <2> SUFFICES ASSUME NEW a \in Apps, a \notin staleA, a # f.app, a \notin t.leftApps
               PROVE  AppExact(n, a)
    BY <1>1
  <2>1. AppExact(t, a)
    BY DEF Agree
  <2>2. \A g \in Flow : g.app = a => (g \in n.flows <=> g \in t.flows)
    BY <1>1
  <2>3. n.flows \subseteq Flow /\ t.flows \subseteq Flow
    BY <1>1 DEF Tables
  <2> QED BY <1>1, <2>1, <2>2, <2>3 DEF AppExact
<1>4. n.count[f] = Cardinality(OpenOn(n, f))
  BY <1>1 DEF Exact
<1>5. \A g \in Flow : n.count[g] <= Cardinality(Conns)
  BY <1>1, <1>4, CountBound DEF Agree
<1>6. Held(n, stale \ {f})
  BY <1>1, <1>4, CountBound DEF Agree, Held
<1> QED BY <1>2, <1>3, <1>5, <1>6 DEF Agree

(* The sample of c moves to flow f: the flow and the application it leaves *)
(* are the ones that are remembered. *)
LEMMA MoveKeepsAgree ==
  ASSUME NEW t \in Tables, NEW c \in Conns, NEW f \in Flow, NEW stale, NEW staleA,
         Agree(t, stale, staleA), NEW n, n = Upsert(RecountPrevious(t, c, f), c, f)
  PROVE  n \in Tables /\ Agree(n, stale \cup {f}, staleA \cup {f.app})
<1> DEFINE mid == RecountPrevious(t, c, f)
<1> DEFINE p == t.at[c]
<1>0. p \in Flow \cup {NoRow}
  BY DEF Tables
<1>1. /\ mid \in Tables /\ mid.at = t.at /\ mid.open = t.open
      /\ mid.apps = t.apps /\ mid.devices = t.devices
      /\ \A g : OpenOn(mid, g) = OpenOn(t, g)
      /\ \A g \in Flow \ (stale \cup mid.leftFlows) :
           Exact(mid, g) /\ (g = p => g = f \/ c \notin t.open)
      /\ \A a \in Apps \ (staleA \cup mid.leftApps) : AppExact(mid, a)
      /\ \A g \in Flow : mid.count[g] <= Cardinality(Conns)
      /\ Held(mid, stale)
  <2>1. CASE p \in {NoRow, f}
    <3>1. mid = t
      BY <2>1 DEF RecountPrevious
    <3>2. \A g \in Flow : g = p => g = f
      BY <2>1, NoRowNoFlow
    <3> QED BY <3>1, <3>2 DEF Agree
  <2>2. CASE p \notin {NoRow, f}
    <3> DEFINE r == Recount(t, p)
    <3>0. p \in Flow
      BY <1>0, <2>2
    <3>1. /\ r \in Tables
          /\ r.at = t.at /\ r.open = t.open /\ r.apps = t.apps /\ r.devices = t.devices
          /\ r.leftApps = t.leftApps
          /\ \A g : OpenOn(r, g) = OpenOn(t, g)
      BY <3>0, RecountEffect
    <3>2. Agree(r, stale \ {p}, staleA \cup {p.app})
      BY <3>0, RecountKeepsAgree
    <3> DEFINE gone == IF c \in t.open THEN r.leftFlows \cup {p} ELSE r.leftFlows
    <3> DEFINE goneApps == r.leftApps \cup {p.app}
    <3>3. mid = [r EXCEPT !.leftFlows = gone, !.leftApps = goneApps]
      BY <2>2 DEF RecountPrevious
    <3>4. gone \in SUBSET Flow /\ r.leftFlows \subseteq gone /\ (c \in t.open => p \in gone)
      BY <3>0, <3>1 DEF Tables
    <3>11. goneApps \in SUBSET Apps /\ r.leftApps \subseteq goneApps /\ p.app \in goneApps
      BY <3>0, <3>1, FlowFields DEF Tables
    <3>12. \A g : g \in stale \ {p} => g \in stale
      OBVIOUS
    <3> HIDE DEF r, gone, goneApps, mid, p
    <3>5. /\ mid.at = r.at /\ mid.open = r.open /\ mid.apps = r.apps /\ mid.devices = r.devices
          /\ mid.count = r.count /\ mid.flows = r.flows
          /\ mid.leftFlows = gone /\ mid.leftApps = goneApps
          /\ mid \in Tables
      BY <3>1, <3>3, <3>4, <3>11 DEF Tables
    <3>6. \A g : OpenOn(mid, g) = OpenOn(r, g)
      BY <3>5 DEF OpenOn
    <3>7. \A g \in Flow \ (stale \cup mid.leftFlows) : Exact(mid, g)
      BY <3>2, <3>4, <3>5, <3>6 DEF Agree, Exact
    <3>8. \A a \in Apps \ (staleA \cup mid.leftApps) : AppExact(mid, a)
      BY <3>2, <3>5, <3>11 DEF Agree, AppExact
    <3>9. Held(mid, stale) /\ \A g \in Flow : mid.count[g] <= Cardinality(Conns)
      BY <3>2, <3>5, <3>6 DEF Agree, Held
    <3>10. \A g \in Flow \ (stale \cup mid.leftFlows) : g = p => c \notin t.open
      BY <3>4, <3>5
    <3> QED BY <3>1, <3>5, <3>6, <3>7, <3>8, <3>9, <3>10
  <2> QED BY <2>1, <2>2
<1>2. n = Upsert(mid, c, f)
  OBVIOUS
<1> HIDE DEF mid
<1> DEFINE places == [t.at EXCEPT ![c] = f]
<1> DEFINE rows == mid.flows \cup {f}
<1> DEFINE names == t.apps \cup {f.app}
<1> DEFINE owners == t.devices \cup {f.device}
<1> DEFINE opened == t.open \cup {c}
<1>20. /\ places \in [Conns -> Flow \cup {NoRow}] /\ rows \in SUBSET Flow
       /\ names \in SUBSET Apps /\ owners \in SUBSET Devices /\ opened \in SUBSET Conns
  BY <1>1, FlowFields DEF Tables
<1>21. n = [mid EXCEPT !.at = places, !.open = opened, !.flows = rows,
                       !.apps = names, !.devices = owners]
  BY <1>1, <1>2 DEF Upsert, Tables
<1> HIDE DEF places, rows, names, owners, opened
<1>22. /\ n.at = places /\ n.open = opened /\ n.flows = rows /\ n.apps = names
       /\ n.devices = owners /\ n.count = mid.count
       /\ n.leftFlows = mid.leftFlows /\ n.leftApps = mid.leftApps
       /\ n \in Tables
  BY <1>1, <1>20, <1>21, ZenonT(60) DEF Tables
<1>3. /\ n.at = [t.at EXCEPT ![c] = f] /\ n.open = t.open \cup {c}
      /\ n.flows = mid.flows \cup {f} /\ n.apps = t.apps \cup {f.app}
      /\ n.devices = t.devices \cup {f.device} /\ n.count = mid.count
      /\ n.leftFlows = mid.leftFlows /\ n.leftApps = mid.leftApps
  BY <1>22 DEF places, rows, names, owners, opened
<1>4. n \in Tables
  BY <1>22
<1>5. t.at \in [Conns -> Flow \cup {NoRow}] /\ t.open \subseteq Conns
  BY DEF Tables
<1>6. n.at[c] = f /\ \A d \in Conns : d # c => n.at[d] = t.at[d]
  BY <1>3, <1>5
<1>7. ASSUME NEW g \in Flow, g # f, g = p => c \notin t.open
      PROVE  OpenOn(n, g) = OpenOn(t, g)
  BY <1>3, <1>5, <1>6, <1>7 DEF OpenOn
<1>8. \A g \in Flow \ ((stale \cup {f}) \cup n.leftFlows) : Exact(n, g)
  BY <1>1, <1>3, <1>7 DEF Exact
<1>9. \A a \in Apps \ ((staleA \cup {f.app}) \cup n.leftApps) : AppExact(n, a)
  BY <1>1, <1>3 DEF AppExact
<1>10. ASSUME NEW g \in Flow \ (stale \cup {f}), OpenOn(n, g) # {}
       PROVE  n.count[g] > 0
  <2>1. OpenOn(t, g) # {}
    BY <1>3, <1>5, <1>6, <1>10 DEF OpenOn
  <2> QED BY <1>1, <1>3, <2>1 DEF Held
<1>11. ASSUME NEW d \in n.open
       PROVE  n.at[d] \in Flow /\ n.at[d].device \in n.devices
  BY <1>1, <1>3, <1>5, <1>6 DEF Held
<1>12. \A g \in Flow : n.count[g] <= Cardinality(Conns)
  BY <1>1, <1>3
<1> QED BY <1>4, <1>8, <1>9, <1>10, <1>11, <1>12 DEF Agree, Held

(* The sample of c is closed. *)
LEMMA CloseKeepsAgree ==
  ASSUME NEW t \in Tables, NEW c \in Conns, t.at[c] \in Flow, NEW stale, NEW staleA,
         Agree(t, stale, staleA), NEW n, n = [t EXCEPT !.open = t.open \ {c}]
  PROVE  n \in Tables /\ Agree(n, stale \cup {t.at[c]}, staleA \cup {t.at[c].app})
<1>1. /\ n.at = t.at /\ n.open = t.open \ {c} /\ n.flows = t.flows /\ n.apps = t.apps
      /\ n.devices = t.devices /\ n.count = t.count
      /\ n.leftFlows = t.leftFlows /\ n.leftApps = t.leftApps /\ n \in Tables
  BY DEF Tables
<1>2. \A g : g # t.at[c] => OpenOn(n, g) = OpenOn(t, g)
  BY <1>1 DEF OpenOn
<1>3. \A g : OpenOn(n, g) \subseteq OpenOn(t, g)
  BY <1>1 DEF OpenOn
<1>4. \A g \in Flow \ ((stale \cup {t.at[c]}) \cup n.leftFlows) : Exact(n, g)
  BY <1>1, <1>2 DEF Agree, Exact
<1>5. \A a \in Apps \ ((staleA \cup {t.at[c].app}) \cup n.leftApps) : AppExact(n, a)
  BY <1>1 DEF Agree, AppExact
<1>6. Held(n, stale \cup {t.at[c]})
  BY <1>1, <1>2 DEF Agree, Held
<1>7. \A g \in Flow : n.count[g] <= Cardinality(Conns)
  BY <1>1 DEF Agree
<1> QED BY <1>1, <1>4, <1>5, <1>6, <1>7 DEF Agree

(* ------------------------------- the steps ----------------------------- *)

LEMMA InitIInv == Init => IInv
<1> SUFFICES ASSUME Init PROVE IInv OBVIOUS
<1>1. Cardinality({}) = 0 /\ Cardinality(Conns) \in Nat
  BY ConnsAssumption, FS_EmptySet, FS_CardinalityType
<1>2. Empty \in Tables
  BY DEF Empty, Tables
<1>3. /\ Empty.open = {} /\ Empty.flows = {} /\ Empty.apps = {}
      /\ \A f \in Flow : Empty.count[f] = 0
  BY DEF Empty
<1>4. \A f : OpenOn(Empty, f) = {}
  BY <1>3 DEF OpenOn
<1>5. Agree(Empty, {}, {})
  BY <1>1, <1>3, <1>4 DEF Agree, Held, Exact, AppExact
<1>6. db = Empty /\ work = Empty /\ phase = "idle" /\ batch = {} /\ pending = {} /\ staleFlows = {}
      /\ staleApps = {} /\ up = FALSE
  BY DEF Init
<1>7. \A f \in Flow : db.count[f] <= Cardinality(Conns)
  BY <1>1, <1>3, <1>6
<1>8. TypeOK
  BY <1>2, <1>6, <1>7 DEF TypeOK
<1>9. Cleaned
  BY <1>6 DEF Cleaned
<1> QED BY <1>5, <1>6, <1>8, <1>9 DEF IInv

(* TypeOK, as the step lemmas need it. *)
LEMMA Types ==
  ASSUME IInv
  PROVE  /\ db \in Tables /\ work \in Tables
         /\ staleFlows \subseteq Flow /\ staleApps \subseteq Apps
         /\ batch \subseteq [id : Conns, kind : Kinds] /\ pending \subseteq batch
         /\ phase \in {"idle", "events", "recount"} /\ up \in BOOLEAN
         /\ phase = "idle" => batch = {} /\ pending = {} /\ staleFlows = {} /\ staleApps = {}
         /\ phase = "recount" => pending = {}
         /\ \A f \in Flow : db.count[f] <= Cardinality(Conns)
         /\ ~up => phase \in {"idle", "recount"}
BY DEF IInv, TypeOK, Cleaned

LEMMA EventKeepsIInv ==
  ASSUME IInv, NEW c \in Conns, Close(c) \/ \E f \in Flow : Observe(c, f)
  PROVE  IInv'
<1>1. phase = "events" /\ up = TRUE /\ UNCHANGED <<db, phase, batch, up>> /\ pending' \subseteq pending
  BY Types DEF Close, Observe
<1>2. ASSUME NEW f \in Flow, Observe(c, f)
      PROVE  /\ work' \in Tables /\ Agree(work', staleFlows', staleApps')
             /\ staleFlows' \subseteq Flow /\ staleApps' \subseteq Apps
             /\ \A g \in staleFlows' : g.app \in staleApps'
  <2>1. work' = Upsert(RecountPrevious(work, c, f), c, f)
        /\ staleFlows' = staleFlows \cup {f} /\ staleApps' = staleApps \cup {f.app}
    BY <1>2 DEF Observe
  <2>2. Agree(work, staleFlows, staleApps) /\ \A g \in staleFlows : g.app \in staleApps
    BY DEF IInv
  <2> QED BY <2>1, <2>2, Types, MoveKeepsAgree, FlowFields
<1>3. ASSUME Close(c)
      PROVE  /\ work' \in Tables /\ Agree(work', staleFlows', staleApps')
             /\ staleFlows' \subseteq Flow /\ staleApps' \subseteq Apps
             /\ \A g \in staleFlows' : g.app \in staleApps'
  <2>1. Agree(work, staleFlows, staleApps) /\ \A g \in staleFlows : g.app \in staleApps
    BY DEF IInv
  <2>2. CASE work.at[c] = NoRow
    BY <1>3, <2>1, <2>2, Types DEF Close
  <2>3. CASE work.at[c] # NoRow
    <3>1. work.at[c] \in Flow
      BY <2>3, Types DEF Tables
    <3>2. /\ work' = [work EXCEPT !.open = work.open \ {c}]
          /\ staleFlows' = staleFlows \cup {work.at[c]}
          /\ staleApps' = staleApps \cup {work.at[c].app}
      BY <1>3, <2>3 DEF Close
    <3> QED BY <2>1, <3>1, <3>2, Types, CloseKeepsAgree, FlowFields
  <2> QED BY <2>2, <2>3
<1>4. /\ work' \in Tables /\ Agree(work', staleFlows', staleApps')
      /\ staleFlows' \subseteq Flow /\ staleApps' \subseteq Apps
      /\ \A g \in staleFlows' : g.app \in staleApps'
  BY <1>2, <1>3
<1>5. TypeOK'
  BY <1>1, <1>4, Types DEF TypeOK
<1> QED BY <1>1, <1>4, <1>5 DEF IInv

LEMMA RecountKeepsIInv ==
  ASSUME IInv, NEW f \in Flow, RecountFlow(f)
  PROVE  IInv'
<1>1. /\ phase = "recount" /\ f \in staleFlows /\ work' = Recount(work, f)
      /\ staleFlows' = staleFlows \ {f} /\ UNCHANGED <<db, phase, batch, pending, staleApps, up>>
  BY DEF RecountFlow
<1>2. f.app \in staleApps /\ Agree(work, staleFlows, staleApps)
  BY <1>1 DEF IInv
<1>3. staleApps \cup {f.app} = staleApps
  BY <1>2
<1>4. Agree(work', staleFlows', staleApps')
  BY <1>1, <1>2, <1>3, Types, RecountKeepsAgree
<1>5. /\ work' \in Tables /\ work'.open = work.open /\ Exact(work', f)
      /\ \A g \in Flow : g # f => work'.count[g] = work.count[g]
                               /\ (g \in work'.flows <=> g \in work.flows)
      /\ \A g : OpenOn(work', g) = OpenOn(work, g)
  BY <1>1, Types, RecountEffect
<1>6. ~up => Cleaned'
  BY <1>1, <1>5 DEF IInv, Cleaned, Exact
<1>7. TypeOK'
  BY <1>1, <1>5, Types DEF TypeOK
<1> QED BY <1>1, <1>4, <1>6, <1>7 DEF IInv

LEMMA ReconcileKeepsIInv ==
  ASSUME IInv, NEW a \in Apps, ReconcileApp(a)
  PROVE  IInv'
<1> DEFINE active == \E f \in work.flows : f.app = a
<1> DEFINE names == IF active THEN work.apps \cup {a} ELSE work.apps \ {a}
<1>1. /\ phase = "recount" /\ staleFlows = {} /\ staleApps' = staleApps \ {a}
      /\ UNCHANGED <<db, phase, batch, pending, staleFlows, up>>
      /\ work' = [work EXCEPT !.apps = names, !.leftApps = work.leftApps \ {a}]
  BY DEF ReconcileApp
<1>2. names \in SUBSET Apps /\ (a \in names <=> active) /\ \A b : b # a => (b \in names <=> b \in work.apps)
  BY Types DEF Tables
<1> HIDE DEF active, names
<1>3. /\ work'.at = work.at /\ work'.open = work.open /\ work'.count = work.count
      /\ work'.flows = work.flows /\ work'.apps = names /\ work'.devices = work.devices
      /\ work'.leftFlows = work.leftFlows /\ work'.leftApps = work.leftApps \ {a}
      /\ work' \in Tables
  BY <1>1, <1>2, Types DEF Tables
<1>4. \A f : OpenOn(work', f) = OpenOn(work, f)
  BY <1>3 DEF OpenOn
<1>5. Agree(work, staleFlows, staleApps)
  BY DEF IInv
<1>6. \A b \in Apps \ (staleApps' \cup work'.leftApps) : AppExact(work', b)
  BY <1>1, <1>2, <1>3, <1>5 DEF Agree, AppExact, active
<1>7. \A f \in Flow : Exact(work, f) <=> Exact(work', f)
  BY <1>3, <1>4 DEF Exact
<1>8. Agree(work', staleFlows', staleApps')
  BY <1>1, <1>3, <1>4, <1>5, <1>6, <1>7 DEF Agree, Held
<1>9. ~up => Cleaned'
  BY <1>1, <1>3, <1>7 DEF IInv, Cleaned
<1>10. TypeOK'
  BY <1>1, <1>3, Types DEF TypeOK
<1> QED BY <1>1, <1>8, <1>9, <1>10 DEF IInv

(* Beginning, ending and rolling back a transaction. *)
LEMMA TransactionKeepsIInv ==
  ASSUME IInv,
         \/ \E events \in Batches : BeginBatch(events)
         \/ EventsDone \/ Commit \/ GoDown
  PROVE  IInv'
<1>0. Agree(db, {}, {}) /\ Agree(work, staleFlows, staleApps) /\ \A g \in staleFlows : g.app \in staleApps
  BY DEF IInv
<1>1. ASSUME NEW events \in Batches, BeginBatch(events) PROVE IInv'
  <2>1. events \subseteq [id : Conns, kind : Kinds]
    BY DEF Batches, Kinds
  <2>2. /\ phase = "idle" /\ up /\ work' = db /\ batch' = events /\ pending' = events /\ phase' = "events"
        /\ UNCHANGED <<db, staleFlows, staleApps, up>>
    BY <1>1 DEF BeginBatch
  <2>3. TypeOK'
    BY <2>1, <2>2, Types DEF TypeOK
  <2> QED BY <1>0, <2>2, <2>3, Types DEF IInv
<1>2. CASE EventsDone
  <2>1. up = TRUE
    BY <1>2, Types DEF EventsDone
  <2>2. phase' = "recount" /\ pending = {} /\ UNCHANGED <<db, work, batch, pending, staleFlows, staleApps, up>>
    BY <1>2 DEF EventsDone
  <2>3. TypeOK'
    BY <2>2, Types DEF TypeOK
  <2> QED BY <1>0, <2>1, <2>2, <2>3 DEF IInv
<1>3. CASE Commit
  <2>1. /\ staleFlows = {} /\ staleApps = {} /\ db' = work /\ phase' = "idle" /\ up' = TRUE
        /\ batch' = {} /\ UNCHANGED <<work, pending, staleFlows, staleApps>>
    BY <1>3 DEF Commit
  <2>2. pending = {}
    BY <1>3 DEF Commit, IInv
  <2>3. TypeOK'
    BY <1>0, <2>1, <2>2, Types DEF TypeOK, Agree
  <2> QED BY <1>0, <2>1, <2>3 DEF IInv
<1>4. CASE GoDown
  <2>1. /\ work' = db /\ phase' = "idle" /\ batch' = {} /\ pending' = {} /\ staleFlows' = {} /\ staleApps' = {}
        /\ up' = FALSE /\ db' = db
    BY <1>4 DEF GoDown
  <2>2. TypeOK'
    BY <2>1, Types DEF TypeOK
  <2>3. Cleaned'
    BY <2>1 DEF Cleaned
  <2> QED BY <1>0, <2>1, <2>2, <2>3 DEF IInv
<1> QED BY <1>1, <1>2, <1>3, <1>4

(* Startup cleanup: what it does not recount was right already. *)
LEMMA CleanupKeepsIInv ==
  ASSUME IInv, MarkOpenConnectionsInactive
  PROVE  IInv'
<1>1. /\ phase = "idle" /\ up = FALSE /\ phase' = "recount"
      /\ work' = [db EXCEPT !.open = {}] /\ staleFlows' = ClaimActive(db)
      /\ staleApps' = {f.app : f \in ClaimActive(db)} /\ UNCHANGED <<db, batch, pending, up>>
  BY Types DEF MarkOpenConnectionsInactive
<1>2. /\ work'.at = db.at /\ work'.open = {} /\ work'.count = db.count
      /\ work'.flows = db.flows /\ work'.apps = db.apps /\ work'.devices = db.devices
      /\ work'.leftFlows = db.leftFlows /\ work'.leftApps = db.leftApps
      /\ work' \in Tables
  BY <1>1, Types DEF Tables
<1>3. \A f : OpenOn(work', f) = {}
  BY <1>2 DEF OpenOn
<1>4. \A f \in Flow \ staleFlows' : Exact(work', f)
  <2> SUFFICES ASSUME NEW f \in Flow, f \notin ClaimActive(db) PROVE Exact(work', f)
    BY <1>1
  <2>1. db.count[f] \in Nat
    BY Types DEF Tables
  <2>2. db.count[f] = 0 /\ f \notin db.flows
    BY <2>1 DEF ClaimActive
  <2> QED BY <1>2, <1>3, <2>2, FS_EmptySet DEF Exact
<1>5. Agree(db, {}, {})
  BY DEF IInv
<1>6. \A a \in Apps \ work'.leftApps : AppExact(work', a)
  BY <1>2, <1>5 DEF Agree, AppExact
<1>7. Agree(work', staleFlows', staleApps')
  BY <1>2, <1>3, <1>4, <1>5, <1>6 DEF Agree, Held
<1>8. staleFlows' \subseteq Flow /\ staleApps' \subseteq Apps /\ \A f \in staleFlows' : f.app \in staleApps'
  BY <1>1, FlowFields DEF ClaimActive
<1>9. TypeOK'
  BY <1>1, <1>2, <1>8, Types DEF TypeOK
<1>10. Cleaned'
  BY <1>1, <1>2, <1>4 DEF Cleaned
<1>11. pending' = {}
  BY <1>1, Types
<1> QED BY <1>1, <1>5, <1>7, <1>8, <1>9, <1>10, <1>11 DEF IInv

(* The topology refresh keeps every device that has a counted flow. *)
LEMMA TopologyKeepsIInv ==
  ASSUME IInv, NEW seen \in SUBSET Devices, NEW recent \in SUBSET Devices,
         UpsertTopologyDevices(seen, recent)
  PROVE  IInv'
<1> DEFINE kept == StillActive(db, recent) \cup seen
<1>1. /\ phase = "idle" /\ up = TRUE /\ db' = [db EXCEPT !.devices = kept]
      /\ UNCHANGED <<work, phase, batch, pending, staleFlows, staleApps, up>>
  BY Types DEF UpsertTopologyDevices
<1>2. kept \in SUBSET Devices
  BY Types DEF StillActive, Tables
<1>3. \A d \in db.devices : (\E f \in Flow : f.device = d /\ db.count[f] > 0) => d \in kept
  BY DEF StillActive
<1> HIDE DEF kept
<1>4. /\ db'.at = db.at /\ db'.open = db.open /\ db'.count = db.count
      /\ db'.flows = db.flows /\ db'.apps = db.apps /\ db'.devices = kept
      /\ db'.leftFlows = db.leftFlows /\ db'.leftApps = db.leftApps
      /\ db' \in Tables
  BY <1>1, <1>2, Types DEF Tables
<1>5. \A f : OpenOn(db', f) = OpenOn(db, f)
  BY <1>4 DEF OpenOn
<1>6. Agree(db, {}, {}) /\ Agree(work, staleFlows, staleApps) /\ \A g \in staleFlows : g.app \in staleApps
  BY DEF IInv
<1>7. ASSUME NEW c \in db.open
      PROVE  db.at[c] \in Flow /\ db.at[c].device \in kept
  <2>1. db.at[c] \in Flow /\ db.at[c].device \in db.devices
    BY <1>6 DEF Agree, Held
  <2>2. c \in OpenOn(db, db.at[c])
    BY DEF OpenOn
  <2>3. db.count[db.at[c]] > 0
    BY <1>6, <2>1, <2>2 DEF Agree, Held
  <2> QED BY <1>3, <2>1, <2>3
<1>8. Agree(db', {}, {})
  BY <1>4, <1>5, <1>6, <1>7 DEF Agree, Held, Exact, AppExact
<1>9. TypeOK'
  BY <1>1, <1>4, Types DEF TypeOK
<1> QED BY <1>1, <1>6, <1>8, <1>9 DEF IInv

LEMMA NextKeepsIInv == IInv /\ [Next]_vars => IInv'
<1> SUFFICES ASSUME IInv, [Next]_vars PROVE IInv' OBVIOUS
<1>1. CASE UNCHANGED vars
  BY <1>1 DEF vars, IInv, TypeOK, Cleaned, Agree, Held, Exact, AppExact, OpenOn
<1>2. CASE Next
  BY <1>2, EventKeepsIInv, RecountKeepsIInv, ReconcileKeepsIInv, TransactionKeepsIInv,
     CleanupKeepsIInv, TopologyKeepsIInv DEF Next
<1> QED BY <1>1, <1>2

THEOREM Invariance == Spec => []IInv
BY InitIInv, NextKeepsIInv, PTL DEF Spec

(* The tables have their types, and no counter exceeds the number of       *)
(* connections (runtime.go:395-415). *)
THEOREM TypeCorrect == Spec => []TypeOK
BY Invariance, PTL DEF IInv

(* What readers see of the counters and states is what the open samples    *)
(* make it, except for a flow or application that a connection left        *)
(* (runtime.go:26-29). *)
THEOREM DerivedCorrect == Spec => []DerivedAgree
<1>1. IInv => DerivedAgree
  BY DEF IInv, Agree, DerivedAgree
<1> QED BY <1>1, Invariance, PTL

(* A device with an open connection is active (topology.go:56-57). *)
THEOREM DevicesCorrect == Spec => []DeviceActiveWhileOpen
<1>1. IInv => DeviceActiveWhileOpen
  BY DEF IInv, Agree, Held, DeviceActiveWhileOpen
<1> QED BY <1>1, Invariance, PTL

(* The restart leaves every counter exact and no sample open               *)
(* (runtime.go:90-141). *)
THEOREM RestartCorrect == Spec => RestartRepairs
<1>1. IInv /\ [Next]_vars => [~up /\ up' => CountsAgree' /\ db'.open = {}]_vars
  <2> SUFFICES ASSUME IInv, Next, ~up, up' PROVE CountsAgree' /\ db'.open = {}
    OBVIOUS
  <2>1. Commit
    BY Types DEF Next, BeginBatch, Close, Observe, EventsDone, RecountFlow, ReconcileApp, GoDown,
       MarkOpenConnectionsInactive, UpsertTopologyDevices
  <2>2. db' = work /\ staleFlows = {} /\ phase = "recount"
    BY <2>1 DEF Commit
  <2> QED BY <2>2 DEF IInv, Cleaned, CountsAgree, Exact, OpenOn
<1> QED BY <1>1, Invariance, PTL DEF Spec, RestartRepairs

(* ------------------------ the abstract specification ------------------- *)

(* What the open transaction has made of a sample, from what readers see:  *)
(* nothing while the event of the connection waits, then what the event    *)
(* asks for; the startup cleanup closes everything. *)
Waits(c) == \E e \in pending : e.id = c
Asked(c) == IF up THEN Event(batch, c) ELSE "closed"
Due(c) == IF Waits(c) THEN State(db, c) ELSE Table!Effect(Asked(c), State(db, c))

Atomic == /\ Coalesced(batch)
          /\ ~up => batch = {}
          /\ phase # "idle" => \A c \in Conns : State(work, c) = Due(c)

(* A coalesced batch has one event per connection. *)
LEMMA OneEvent ==
  ASSUME NEW events, events \subseteq [id : Conns, kind : Kinds], Coalesced(events),
         NEW c \in Conns, NEW kind \in Kinds, Has(events, c, kind)
  PROVE  /\ Event(events, c) = kind
         /\ \A e \in events : e.id = c => e = [id |-> c, kind |-> kind]
<1>1. \A e \in events : e.id = c => e = [id |-> c, kind |-> kind]
  BY DEF Coalesced, Has
<1>2. \A other \in Kinds : Has(events, c, other) => other = kind
  BY <1>1 DEF Has
<1> QED BY <1>1, <1>2 DEF Event, Kinds

LEMMA NoEvent ==
  ASSUME NEW events, NEW c \in Conns, \A e \in events : e.id # c
  PROVE  Event(events, c) = "none"
BY DEF Event, Has

LEMMA SameState ==
  ASSUME NEW t, NEW n, NEW c, n.at = t.at, n.open = t.open
  PROVE  State(n, c) = State(t, c)
BY DEF State

(* The sample that moves is open, the others stay what they were. *)
LEMMA MoveOpens ==
  ASSUME NEW t \in Tables, NEW c \in Conns, NEW f \in Flow,
         NEW n, n = Upsert(RecountPrevious(t, c, f), c, f)
  PROVE  State(n, c) = "open" /\ \A d \in Conns : d # c => State(n, d) = State(t, d)
<1> DEFINE mid == RecountPrevious(t, c, f)
<1>1. mid \in Tables /\ mid.at = t.at /\ mid.open = t.open
  <2>1. CASE t.at[c] \in {NoRow, f}
    BY <2>1 DEF RecountPrevious
  <2>2. CASE t.at[c] \notin {NoRow, f}
    <3> DEFINE r == Recount(t, t.at[c])
    <3>1. t.at[c] \in Flow
      BY <2>2 DEF Tables
    <3>2. r \in Tables /\ r.at = t.at /\ r.open = t.open
      BY <3>1, RecountEffect
    <3> DEFINE gone == IF c \in t.open THEN r.leftFlows \cup {t.at[c]} ELSE r.leftFlows
    <3> DEFINE goneApps == r.leftApps \cup {t.at[c].app}
    <3>3. mid = [r EXCEPT !.leftFlows = gone, !.leftApps = goneApps]
      BY <2>2 DEF RecountPrevious
    <3>4. gone \in SUBSET Flow /\ goneApps \in SUBSET Apps
      BY <3>1, <3>2, FlowFields DEF Tables
    <3> HIDE DEF r, gone, goneApps, mid
    <3> QED BY <3>2, <3>3, <3>4 DEF Tables
  <2> QED BY <2>1, <2>2
<1>2. n = Upsert(mid, c, f)
  OBVIOUS
<1> HIDE DEF mid
<1>3. n.at = [t.at EXCEPT ![c] = f] /\ n.open = t.open \cup {c}
  BY <1>1, <1>2, ZenonT(60) DEF Upsert, Tables
<1>4. n.at[c] = f /\ \A d \in Conns : d # c => n.at[d] = t.at[d]
  BY <1>3 DEF Tables
<1> QED BY <1>3, <1>4, NoRowNoFlow DEF State

LEMMA EventKeepsAtomic ==
  ASSUME IInv, Atomic, NEW c \in Conns, Close(c) \/ \E f \in Flow : Observe(c, f)
  PROVE  Atomic'
<1>1. /\ phase = "events" /\ up = TRUE /\ UNCHANGED <<db, phase, batch, up>>
      /\ work \in Tables /\ pending \subseteq batch /\ batch \subseteq [id : Conns, kind : Kinds]
      /\ Coalesced(batch) /\ \A d \in Conns : State(work, d) = Due(d)
  BY Types DEF Close, Observe, Atomic
<1>2. ASSUME NEW kind \in Kinds, Has(pending, c, kind),
             pending' = pending \ {[id |-> c, kind |-> kind]},
             State(work', c) = Table!Effect(kind, State(work, c)),
             \A d \in Conns : d # c => State(work', d) = State(work, d)
      PROVE  Atomic'
  <2>1. Has(batch, c, kind)
    BY <1>1, <1>2 DEF Has
  <2>2. Event(batch, c) = kind /\ \A e \in batch : e.id = c => e = [id |-> c, kind |-> kind]
    BY <1>1, <2>1, OneEvent
  <2>3. Waits(c) /\ ~Waits(c)'
    BY <1>1, <1>2, <2>2 DEF Waits, Has
  <2>4. \A d \in Conns : d # c => (Waits(d)' <=> Waits(d))
    BY <1>2 DEF Waits
  <2>5. State(work, c) = State(db, c)
    BY <1>1, <2>3 DEF Due
  <2>6. State(work', c) = Due(c)'
    BY <1>1, <1>2, <2>2, <2>3, <2>5 DEF Due, Asked
  <2>7. \A d \in Conns : d # c => State(work', d) = Due(d)'
    BY <1>1, <1>2, <2>4 DEF Due, Asked
  <2> QED BY <1>1, <2>6, <2>7 DEF Atomic
<1>3. ASSUME NEW f \in Flow, Observe(c, f) PROVE Atomic'
  <2>1. /\ work' = Upsert(RecountPrevious(work, c, f), c, f) /\ Has(pending, c, "observed")
        /\ pending' = pending \ {[id |-> c, kind |-> "observed"]}
    BY <1>3 DEF Observe, Has
  <2>2. State(work', c) = "open" /\ \A d \in Conns : d # c => State(work', d) = State(work, d)
    BY <1>1, <2>1, MoveOpens
  <2>3. Table!Effect("observed", State(work, c)) = "open"
    BY DEF Table!Effect
  <2> QED BY <1>2, <2>1, <2>2, <2>3 DEF Kinds
<1>4. CASE Close(c)
  <2>1. Has(pending, c, "closed") /\ pending' = pending \ {[id |-> c, kind |-> "closed"]}
    BY <1>4 DEF Close, Has
  <2>2. CASE work.at[c] = NoRow
    <3>1. work' = work
      BY <1>4, <2>2 DEF Close
    <3>2. Table!Effect("closed", State(work, c)) = State(work, c)
      BY <2>2 DEF Table!Effect, State
    <3> QED BY <1>2, <2>1, <3>1, <3>2 DEF Kinds
  <2>3. CASE work.at[c] # NoRow
    <3>1. work' = [work EXCEPT !.open = work.open \ {c}]
      BY <1>4, <2>3 DEF Close
    <3>2. work'.at = work.at /\ work'.open = work.open \ {c}
      BY <1>1, <3>1 DEF Tables
    <3>3. State(work', c) = Table!Effect("closed", State(work, c))
      BY <2>3, <3>2 DEF Table!Effect, State
    <3>4. \A d \in Conns : d # c => State(work', d) = State(work, d)
      BY <3>2 DEF State
    <3> QED BY <1>2, <2>1, <3>3, <3>4 DEF Kinds
  <2> QED BY <2>2, <2>3
<1> QED BY <1>3, <1>4

(* The recounts and the topology refresh leave every sample alone. *)
LEMMA RecountsKeepSamples ==
  ASSUME IInv, \/ \E f \in Flow : RecountFlow(f)
               \/ \E a \in Apps : ReconcileApp(a)
  PROVE  \A c \in Conns : State(work', c) = State(work, c)
<1>1. work \in Tables
  BY Types
<1>2. ASSUME NEW f \in Flow, RecountFlow(f) PROVE work'.at = work.at /\ work'.open = work.open
  BY <1>1, <1>2, RecountEffect, SMTT(40) DEF RecountFlow
<1>3. ASSUME NEW a \in Apps, ReconcileApp(a) PROVE work'.at = work.at /\ work'.open = work.open
  BY <1>1, <1>3 DEF ReconcileApp, Tables
<1> QED BY <1>2, <1>3, SameState

LEMMA TopologyKeepsSamples ==
  ASSUME IInv, NEW seen, NEW recent, UpsertTopologyDevices(seen, recent)
  PROVE  \A c \in Conns : State(db', c) = State(db, c)
<1>1. db'.at = db.at /\ db'.open = db.open
  BY Types DEF UpsertTopologyDevices, Tables
<1> QED BY <1>1, SameState

LEMMA AtomicNext == IInv /\ Atomic /\ [Next]_vars => Atomic'
<1> SUFFICES ASSUME IInv, Atomic, [Next]_vars PROVE Atomic' OBVIOUS
<1>1. ASSUME NEW events \in Batches, Coalesced(events), BeginBatch(events) PROVE Atomic'
  <2>1. /\ up = TRUE /\ work' = db /\ batch' = events /\ pending' = events
        /\ UNCHANGED <<db, up>>
    BY <1>1, Types DEF BeginBatch
  <2>2. ASSUME NEW c \in Conns, ~Waits(c)' PROVE Table!Effect(Asked(c)', State(db, c)) = State(db, c)
    <3>1. Asked(c)' = "none"
      BY <2>1, <2>2, NoEvent DEF Waits, Asked
    <3> QED BY <3>1 DEF Table!Effect
  <2>3. \A c \in Conns : State(work', c) = Due(c)'
    BY <2>1, <2>2 DEF Due
  <2> QED BY <1>1, <2>1, <2>3 DEF Atomic
<1>2. CASE EventsDone
  BY <1>2 DEF EventsDone, Atomic, Due, Asked, Waits
<1>3. CASE \/ \E f \in Flow : RecountFlow(f)
           \/ \E a \in Apps : ReconcileApp(a)
  <2>1. \A c \in Conns : State(work', c) = State(work, c)
    BY <1>3, RecountsKeepSamples
  <2>2. phase = "recount" /\ UNCHANGED <<db, phase, batch, pending, up>>
    BY <1>3 DEF RecountFlow, ReconcileApp
  <2> QED BY <2>1, <2>2 DEF Atomic, Due, Asked, Waits
<1>4. CASE Commit \/ GoDown
  BY <1>4 DEF Commit, GoDown, Atomic, Coalesced
<1>5. CASE MarkOpenConnectionsInactive
  <2>1. /\ phase = "idle" /\ up = FALSE /\ pending = {} /\ db \in Tables
        /\ work' = [db EXCEPT !.open = {}] /\ UNCHANGED <<db, batch, pending, up>>
    BY <1>5, Types DEF MarkOpenConnectionsInactive
  <2>2. work'.at = db.at /\ work'.open = {}
    BY <2>1 DEF Tables
  <2>3. \A c \in Conns : State(work', c) = Table!Effect("closed", State(db, c))
    BY <2>2 DEF State, Table!Effect
  <2>4. \A c \in Conns : Due(c)' = Table!Effect("closed", State(db, c))
    BY <2>1 DEF Due, Asked, Waits
  <2> QED BY <2>1, <2>3, <2>4 DEF Atomic
<1>6. ASSUME NEW seen \in SUBSET Devices, NEW recent \in SUBSET Devices,
             UpsertTopologyDevices(seen, recent)
      PROVE  Atomic'
  BY <1>6 DEF UpsertTopologyDevices, Atomic
<1>7. CASE UNCHANGED vars
  BY <1>7 DEF vars, Atomic, Due, Asked, Waits
<1> QED BY <1>1, <1>2, <1>3, <1>4, <1>5, <1>6, <1>7, EventKeepsAtomic DEF Next

(* ----------------------------- its steps ------------------------------- *)

LEMMA TableInit == Init => Table!Init
<1> SUFFICES ASSUME Init PROVE Table!Init OBVIOUS
<1>1. batch = {} /\ up \in BOOLEAN /\ \A c \in Conns : db.at[c] = NoRow
  BY DEF Init, Empty
<1>2. \A c \in Conns : State(db, c) = "none" /\ Event(batch, c) = "none"
  BY <1>1, NoEvent DEF State
<1> QED BY <1>1, <1>2 DEF Table!Init, Table!Nothing

LEMMA TableStep == IInv /\ Atomic /\ [Next]_vars => [Table!Next]_(Table!vars)
<1> SUFFICES ASSUME IInv, Atomic, [Next]_vars PROVE [Table!Next]_(Table!vars) OBVIOUS
<1> DEFINE Abstract == [Table!Next]_(Table!vars)
<1>0. \A c \in Conns : Event({}, c) = "none"
  BY NoEvent
<1>1. CASE UNCHANGED <<db, batch, up>>
  BY <1>1 DEF Table!vars
<1>2. ASSUME NEW events \in Batches, BeginBatch(events) PROVE Abstract
  <2>1. up = TRUE /\ batch = {} /\ batch' = events /\ UNCHANGED <<db, up>>
    BY <1>2, Types DEF BeginBatch
  <2>2. \A c \in Conns : Event(batch, c) = "none" /\ Event(batch', c) \in {"none", "observed", "closed"}
    BY <1>0, <2>1 DEF Event
  <2>3. Table!HandOver
    BY <2>1, <2>2 DEF Table!HandOver, Table!Nothing
  <2> QED BY <2>3 DEF Table!Next
<1>3. CASE Commit
  <2>1. phase = "recount" /\ db' = work /\ batch' = {} /\ up' = TRUE /\ pending = {} /\ up \in BOOLEAN
    BY <1>3, Types DEF Commit
  <2>2. \A c \in Conns : State(db', c) = Table!Effect(Asked(c), State(db, c))
    BY <2>1 DEF Atomic, Due, Waits
  <2>3. [c \in Conns |-> Event(batch', c)] = Table!Nothing
    BY <1>0, <2>1 DEF Table!Nothing
  <2>4. CASE up
    <3>1. Table!ApplyBatch
      BY <2>1, <2>2, <2>3, <2>4 DEF Table!ApplyBatch, Asked
    <3> QED BY <3>1 DEF Table!Next
  <2>5. CASE ~up
    <3>1. batch = {}
      BY <2>5 DEF Atomic
    <3>2. Table!StartServing
      BY <2>1, <2>2, <2>5, <3>1 DEF Table!StartServing, Asked
    <3> QED BY <3>2 DEF Table!Next
  <2> QED BY <2>1, <2>4, <2>5
<1>4. CASE GoDown
  <2>1. batch' = {} /\ up' = FALSE /\ db' = db
    BY <1>4 DEF GoDown
  <2>2. Table!StopServing
    BY <1>0, <2>1 DEF Table!StopServing, Table!Nothing
  <2> QED BY <2>2 DEF Table!Next
<1>5. ASSUME NEW seen, NEW recent, UpsertTopologyDevices(seen, recent) PROVE Abstract
  <2>1. UNCHANGED <<batch, up>> /\ \A c \in Conns : State(db', c) = State(db, c)
    BY <1>5, TopologyKeepsSamples DEF UpsertTopologyDevices
  <2> QED BY <2>1 DEF Table!vars
<1>6. CASE Next
  BY <1>1, <1>2, <1>3, <1>4, <1>5, <1>6
     DEF Next, Close, Observe, EventsDone, RecountFlow, ReconcileApp, MarkOpenConnectionsInactive
<1>7. CASE UNCHANGED vars
  BY <1>1, <1>7 DEF vars
<1> QED BY <1>6, <1>7

(* The transactions of the store, statement by statement, implement one    *)
(* step on the samples: a batch is applied to all its connections or, when *)
(* the service ends, to none, and the service starts with no open sample   *)
(* (runtime.go:30-88, 90-141). *)
THEOREM BatchesAtomicHolds == Spec => BatchesAtomic
<1>1. Init => Atomic
  BY DEF Init, Atomic, Coalesced
<1>2. Spec => []Atomic
  BY <1>1, Invariance, AtomicNext, PTL DEF Spec
<1> QED BY <1>2, Invariance, TableInit, TableStep, PTL DEF Spec, BatchesAtomic, Table!Spec
=============================================================================
