------------------------- MODULE FeatureWriterProofs -------------------------
(***************************************************************************)
(* Proofs about FeatureWriter for every set of connections, queue capacity *)
(* and batch size: its types and bounds, and DirectPathInOrder.            *)
(*                                                                         *)
(* The inductive invariant adds to DirectPathInOrder that only spilled     *)
(* connections have an overflow entry (so that draining the overflow       *)
(* leaves the batch of the others alone), that every event the watcher     *)
(* still holds carries its last report (so that a spilled connection is in *)
(* order again when one is queued) and that a daemon that is down has no   *)
(* memory (so that the restart, which closes every open sample, starts     *)
(* from an agreement).                                                     *)
(***************************************************************************)
EXTENDS FeatureWriterProps, SequenceTheorems, TLAPS

OutboxReports == \A e \in outbox : e.kind = Report(e.id)

OverflowSpilled == \A c \in Conns : overflow[c] # "none" => c \in spilled

DownIsEmpty == daemon = "down" => /\ active = {}
                                  /\ outbox = {}
                                  /\ queue = <<>>
                                  /\ latest = Nothing
                                  /\ batched = 0
                                  /\ writer = "returned"
                                  /\ ~watching

IInv == TypeOK /\ OutboxReports /\ OverflowSpilled /\ DownIsEmpty /\ DirectPathInOrder

LEMMA IInvInit == Init => IInv
  BY CapacityAssumption, FailureAssumption
     DEF Init, IInv, TypeOK, Event, Kinds, Nothing, OutboxReports, OverflowSpilled,
         DownIsEmpty, DirectPathInOrder, UpToDate, InOutbox, InQueue

(* Going down leaves well-typed, empty memory. *)
LEMMA DownTypes == TypeOK /\ GoDown => TypeOK'
<1> SUFFICES ASSUME TypeOK, GoDown PROVE TypeOK'
  OBVIOUS
<1>1. queue' \in Seq(Event) /\ Len(queue') = 0
  BY DEF GoDown
<1>2. overflow' \in [Conns -> Kinds \cup {"none"}] /\ latest' \in [Conns -> Kinds \cup {"none"}]
  BY DEF GoDown, Nothing
<1>3. batched' = 0 /\ restarts' \in Nat
  BY DEF GoDown, TypeOK
<1>4. active' \subseteq Conns /\ outbox' \subseteq Event /\ spilled' \subseteq Conns
  BY DEF GoDown
<1>5. Len(queue') <= QueueCapacity /\ batched' \in 0..(BatchSize + QueueCapacity)
  BY <1>1, <1>3, CapacityAssumption
<1>6. /\ sample' \in [Conns -> {"none", "open", "closed"}]
      /\ writer' = "returned" /\ watching' = FALSE /\ daemon' = "down"
  BY DEF GoDown, TypeOK
<1>7. QED
  BY <1>1, <1>2, <1>3, <1>4, <1>5, <1>6 DEF TypeOK

LEMMA TypeNext == TypeOK /\ DownIsEmpty /\ [Next]_vars => TypeOK'
<1> SUFFICES ASSUME TypeOK, DownIsEmpty, [Next]_vars PROVE TypeOK'
  OBVIOUS
<1> USE CapacityAssumption, FailureAssumption DEF TypeOK, Event, Kinds, Nothing, memory
<1>1. ASSUME NEW current \in SUBSET Conns, Snapshot(current) PROVE TypeOK'
  BY <1>1 DEF Snapshot, Events
<1>2. ASSUME NEW e \in Event, Enqueue(e) PROVE TypeOK'
  BY <1>2 DEF Enqueue, NextEvent
<1>3. ASSUME NEW e \in Event, Spill(e) PROVE TypeOK'
  BY <1>3 DEF Spill, NextEvent
<1>4. CASE StopWatching
  BY <1>4 DEF StopWatching
<1>5. CASE Receive
  <2>1. Head(queue) \in Event /\ Tail(queue) \in Seq(Event) /\ Len(Tail(queue)) = Len(queue) - 1
    <3>1. queue \in Seq(Event) /\ queue # <<>>
      BY <1>5 DEF Receive
    <3>2. QED
      BY <3>1, HeadTailProperties
  <2>2. latest' \in [Conns -> Kinds \cup {"none"}]
    BY <1>5, <2>1 DEF Receive, Coalesce
  <2>3. batched' \in 0..(BatchSize + QueueCapacity) /\ (writer' = "select" => batched' < BatchSize)
    BY <1>5 DEF Receive
  <2>4. QED
    BY <1>5, <2>1, <2>2, <2>3 DEF Receive
<1>6. CASE Tick
  BY <1>6 DEF Tick
<1>7. CASE Drain
  BY <1>7 DEF Drain, WithOverflow
<1>8. CASE Apply
  BY <1>8 DEF Apply, Commit, Applied
<1>9. CASE ApplyFails
  BY <1>9 DEF ApplyFails
<1>10. CASE FinalDrain
  BY <1>10 DEF FinalDrain
<1>11. CASE FinalOverflow
  BY <1>11 DEF FinalOverflow, WithOverflow
<1>12. CASE FinalApply
  BY <1>12 DEF FinalApply, Commit, Applied
<1>13. CASE Stop
  BY <1>13 DEF Stop
<1>14. CASE Exit
  BY <1>14, DownTypes DEF Exit
<1>15. CASE Crash
  BY <1>15, DownTypes DEF Crash
<1>16. CASE Restart
  BY <1>16 DEF Restart, DownIsEmpty, MarkOpenConnectionsInactive
<1>17. CASE UNCHANGED vars
  BY <1>17 DEF vars
<1>18. QED
  BY <1>1, <1>2, <1>3, <1>4, <1>5, <1>6, <1>7, <1>8, <1>9, <1>10, <1>11,
     <1>12, <1>13, <1>14, <1>15, <1>16, <1>17 DEF Next, Put, Write

LEMMA MemoryNext ==
  OverflowSpilled /\ DownIsEmpty /\ TypeOK /\ [Next]_vars => OverflowSpilled' /\ DownIsEmpty'
<1> SUFFICES ASSUME OverflowSpilled, DownIsEmpty, TypeOK, [Next]_vars
             PROVE  OverflowSpilled' /\ DownIsEmpty'
  OBVIOUS
<1> USE DEF OverflowSpilled, DownIsEmpty, TypeOK, memory
<1>1. ASSUME NEW current \in SUBSET Conns, Snapshot(current) PROVE OverflowSpilled' /\ DownIsEmpty'
  BY <1>1 DEF Snapshot
<1>2. ASSUME NEW e \in Event, Enqueue(e) PROVE OverflowSpilled' /\ DownIsEmpty'
  BY <1>2 DEF Enqueue, NextEvent
<1>3. ASSUME NEW e \in Event, Spill(e) PROVE OverflowSpilled' /\ DownIsEmpty'
  BY <1>3 DEF Spill, NextEvent
<1>4. CASE StopWatching \/ Stop \/ Tick \/ ApplyFails
  BY <1>4 DEF StopWatching, Stop, Tick, ApplyFails
<1>5. CASE Receive \/ Apply \/ FinalApply
  BY <1>5 DEF Receive, Apply, FinalApply, Commit
<1>6. CASE Drain \/ FinalDrain \/ FinalOverflow
  BY <1>6 DEF Drain, FinalDrain, FinalOverflow, Nothing
<1>7. CASE Exit \/ Crash
  BY <1>7 DEF Exit, Crash, GoDown, Nothing
<1>8. CASE Restart
  BY <1>8 DEF Restart
<1>9. CASE UNCHANGED vars
  BY <1>9 DEF vars
<1>10. QED
  BY <1>1, <1>2, <1>3, <1>4, <1>5, <1>6, <1>7, <1>8, <1>9 DEF Next, Put, Write

(* The watcher reports every connection once per snapshot, and hands over  *)
(* all it reported before the next one. *)
LEMMA ReportsNext == OutboxReports /\ [Next]_vars => OutboxReports'
<1> SUFFICES ASSUME OutboxReports, [Next]_vars PROVE OutboxReports'
  OBVIOUS
<1> USE DEF OutboxReports, Report, memory
<1>1. ASSUME NEW current \in SUBSET Conns, Snapshot(current) PROVE OutboxReports'
  BY <1>1 DEF Snapshot, Events
<1>2. ASSUME NEW e \in Event, Enqueue(e) \/ Spill(e) PROVE OutboxReports'
  BY <1>2 DEF Enqueue, Spill
<1>3. CASE StopWatching \/ Stop \/ Tick \/ ApplyFails
  BY <1>3 DEF StopWatching, Stop, Tick, ApplyFails
<1>4. CASE Receive \/ Drain \/ Apply
  BY <1>4 DEF Receive, Drain, Apply
<1>5. CASE FinalDrain \/ FinalOverflow \/ FinalApply
  BY <1>5 DEF FinalDrain, FinalOverflow, FinalApply
<1>6. CASE Exit \/ Crash
  BY <1>6 DEF Exit, Crash, GoDown
<1>7. CASE Restart
  BY <1>7 DEF Restart
<1>8. CASE UNCHANGED vars
  BY <1>8 DEF vars
<1>9. QED
  BY <1>1, <1>2, <1>3, <1>4, <1>5, <1>6, <1>7, <1>8 DEF Next, Put, Write

(* Putting an event of c at the end of the queue makes it the last of c,   *)
(* also when c had spilled; an event of another connection changes nothing *)
(* for c. *)
LEMMA EnqueueOrder ==
  ASSUME TypeOK, OutboxReports, NEW e \in Event, Enqueue(e),
         NEW c \in Conns, e.id = c \/ UpToDate(c)
  PROVE  UpToDate(c)'
<1> USE DEF OutboxReports, UpToDate, InOutbox, InQueue, LastQueued, Report
<1>1. /\ queue \in Seq(Event) /\ e \in outbox
      /\ outbox' = outbox \ {e} /\ active' = active /\ latest' = latest /\ sample' = sample
  BY DEF Enqueue, NextEvent, TypeOK
<1>2. /\ Len(queue') = Len(queue) + 1
      /\ queue'[Len(queue) + 1] = e
      /\ \A i \in 1..Len(queue) : queue'[i] = queue[i]
      /\ Len(queue) \in Nat
  BY <1>1 DEF Enqueue
<1>3. CASE e.id = c
  <2>1. e = [id |-> c, kind |-> Report(c)]
    BY <1>1, <1>3 DEF Event
  <2>2. InQueue(c)' /\ LastQueued(c, Report(c))'
    BY <1>1, <1>2, <2>1
  <2>3. ~InOutbox(c)'
    BY <1>1, <1>3, <2>1 DEF TypeOK, Event
  <2>4. QED
    BY <1>1, <2>2, <2>3
<1>4. CASE e.id # c
  <2>1. InOutbox(c)' <=> InOutbox(c)
    BY <1>1, <1>4
  <2>2. InQueue(c)' <=> InQueue(c)
    BY <1>2, <1>4
  <2>3. ASSUME LastQueued(c, Report(c)) PROVE LastQueued(c, Report(c))'
    <3>1. PICK i \in 1..Len(queue) : /\ queue[i] = [id |-> c, kind |-> Report(c)]
                                     /\ \A j \in (i + 1)..Len(queue) : queue[j].id # c
      BY <2>3
    <3>2. i \in 1..Len(queue') /\ queue'[i] = [id |-> c, kind |-> Report(c)']
      BY <1>1, <1>2, <3>1
    <3>3. ASSUME NEW j \in (i + 1)..Len(queue') PROVE queue'[j].id # c
      BY <1>2, <1>4, <3>1
    <3>4. QED
      BY <3>2, <3>3
  <2>4. QED
    BY <1>1, <2>1, <2>2, <2>3
<1>5. QED
  BY <1>3, <1>4

(* Receiving the head of the queue moves it into the batch, where it       *)
(* replaces an older event of the same connection. *)
LEMMA ReceiveOrder ==
  ASSUME TypeOK, Receive, NEW c \in Conns, UpToDate(c)
  PROVE  UpToDate(c)'
<1> USE DEF UpToDate, InOutbox, InQueue, LastQueued, Report
<1> DEFINE h == Head(queue)
<1>1. /\ queue \in Seq(Event) /\ queue # <<>>
      /\ queue' = Tail(queue) /\ latest' = [latest EXCEPT ![h.id] = h.kind]
      /\ outbox' = outbox /\ active' = active /\ sample' = sample
      /\ latest \in [Conns -> Kinds \cup {"none"}]
  BY DEF Receive, Coalesce, TypeOK
<1>2. /\ Len(queue) \in Nat \ {0} /\ Len(queue') = Len(queue) - 1
      /\ h = queue[1] /\ h \in Event
      /\ \A i \in 1..Len(queue') : queue'[i] = queue[i + 1]
  BY <1>1, HeadTailProperties, LenProperties, EmptySeq
<1>3. CASE InQueue(c)'
  <2>1. InQueue(c)
    BY <1>2, <1>3
  <2>2. ASSUME LastQueued(c, Report(c)) PROVE LastQueued(c, Report(c))'
    <3>1. PICK i \in 1..Len(queue) : /\ queue[i] = [id |-> c, kind |-> Report(c)]
                                     /\ \A j \in (i + 1)..Len(queue) : queue[j].id # c
      BY <2>2
    <3>2. PICK k \in 1..Len(queue') : queue'[k].id = c
      BY <1>3
    <3>3. i # 1
      BY <1>2, <3>1, <3>2
    <3>4. i - 1 \in 1..Len(queue') /\ queue'[i - 1] = [id |-> c, kind |-> Report(c)']
      BY <1>1, <1>2, <3>1, <3>3
    <3>5. ASSUME NEW j \in ((i - 1) + 1)..Len(queue') PROVE queue'[j].id # c
      BY <1>2, <3>1
    <3>6. QED
      BY <3>4, <3>5
  <2>3. QED
    BY <1>1, <1>3, <2>1, <2>2
<1>4. CASE ~InQueue(c)' /\ h.id = c
  <2>1. InQueue(c)
    BY <1>2, <1>4
  <2>2. ASSUME LastQueued(c, Report(c)) PROVE h.kind = Report(c)
    <3>1. PICK i \in 1..Len(queue) : queue[i] = [id |-> c, kind |-> Report(c)]
      BY <2>2
    <3>2. CASE i = 1
      BY <1>2, <3>1, <3>2
    <3>3. CASE i # 1
      <4>1. i - 1 \in 1..Len(queue') /\ queue'[i - 1].id = c
        BY <1>2, <3>1, <3>3
      <4>2. QED
        BY <1>4, <4>1
    <3>4. QED
      BY <3>2, <3>3
  <2>3. latest'[c] = h.kind /\ h.kind # "none"
    BY <1>1, <1>2, <1>4 DEF Event, Kinds
  <2>4. QED
    BY <1>1, <1>4, <2>1, <2>2, <2>3
<1>5. CASE ~InQueue(c)' /\ h.id # c
  <2>1. ~InQueue(c)
    <3> SUFFICES ASSUME NEW i \in 1..Len(queue), queue[i].id = c PROVE FALSE
      OBVIOUS
    <3>1. i # 1
      BY <1>2, <1>5
    <3>2. i - 1 \in 1..Len(queue') /\ queue'[i - 1].id = c
      BY <1>2, <3>1
    <3>3. QED
      BY <1>5, <3>2
  <2>2. latest'[c] = latest[c]
    BY <1>1, <1>2, <1>5 DEF Event
  <2>3. QED
    BY <1>1, <1>5, <2>1, <2>2
<1>6. QED
  BY <1>3, <1>4, <1>5

(* Draining the channel at shutdown moves the last event of c. *)
LEMMA FinalDrainOrder ==
  ASSUME TypeOK, FinalDrain, NEW c \in Conns, UpToDate(c)
  PROVE  UpToDate(c)'
<1>1. /\ queue' = <<>> /\ outbox' = outbox /\ active' = active /\ sample' = sample
      /\ IF InQueue(c) THEN LastQueued(c, latest'[c]) ELSE latest'[c] = latest[c]
  BY DEF FinalDrain
<1>2. ~InQueue(c)' /\ (InOutbox(c)' <=> InOutbox(c)) /\ Report(c)' = Report(c)
  BY <1>1 DEF InQueue, InOutbox, Report
<1>3. ASSUME LastQueued(c, Report(c)), LastQueued(c, latest'[c]) PROVE latest'[c] = Report(c)
  <2>1. PICK i \in 1..Len(queue) : /\ queue[i] = [id |-> c, kind |-> Report(c)]
                                   /\ \A j \in (i + 1)..Len(queue) : queue[j].id # c
    BY <1>3 DEF LastQueued
  <2>2. PICK k \in 1..Len(queue) : /\ queue[k] = [id |-> c, kind |-> latest'[c]]
                                   /\ \A j \in (k + 1)..Len(queue) : queue[j].id # c
    BY <1>3 DEF LastQueued
  <2>3. i = k
    BY <2>1, <2>2 DEF TypeOK
  <2>4. QED
    BY <2>1, <2>2, <2>3
<1>4. LastQueued(c, latest'[c]) => latest'[c] # "none"
  BY DEF LastQueued, TypeOK, Event, Kinds
<1>5. CASE InQueue(c)
  BY <1>1, <1>2, <1>3, <1>4, <1>5 DEF UpToDate
<1>6. CASE ~InQueue(c)
  BY <1>1, <1>2, <1>6 DEF UpToDate
<1>7. QED
  BY <1>5, <1>6

(* A connection that did not spill keeps its order in every step. *)
LEMMA OrderNext == IInv /\ [Next]_vars => DirectPathInOrder'
<1> SUFFICES ASSUME IInv, [Next]_vars, daemon' # "down", NEW c \in Conns, c \notin spilled'
             PROVE  UpToDate(c)'
  BY DEF DirectPathInOrder
<1>a. c \notin spilled /\ daemon # "down" => UpToDate(c)
  BY DEF IInv, DirectPathInOrder
<1>b. c \notin spilled => overflow[c] = "none"
  BY DEF IInv, OverflowSpilled
<1>c. DownIsEmpty /\ TypeOK /\ OutboxReports
  BY DEF IInv
<1> USE DEF memory
<1>1. ASSUME NEW current \in SUBSET Conns, Snapshot(current) PROVE UpToDate(c)'
  BY <1>1, <1>a, <1>c DEF Snapshot, Events, UpToDate, InOutbox, InQueue, LastQueued, Report
<1>2. ASSUME NEW e \in Event, Enqueue(e) PROVE UpToDate(c)'
  <2>1. e \in outbox /\ daemon' = daemon
    BY <1>2 DEF Enqueue, NextEvent
  <2>2. e.id = c \/ c \notin spilled
    BY <1>2 DEF Enqueue
  <2> QED BY <1>2, <1>a, <1>c, <2>1, <2>2, EnqueueOrder
<1>3. ASSUME NEW e \in Event, Spill(e) PROVE UpToDate(c)'
  BY <1>3, <1>a DEF Spill, UpToDate, InOutbox, InQueue, LastQueued, Report
<1>4. CASE StopWatching \/ Stop \/ Tick \/ ApplyFails \/ UNCHANGED vars
  BY <1>4, <1>a, <1>c
     DEF StopWatching, Stop, Tick, ApplyFails, vars, DownIsEmpty, UpToDate, InOutbox,
         InQueue, LastQueued, Report
<1>5. CASE Receive
  BY <1>5, <1>a, <1>c, ReceiveOrder DEF Receive
<1>6. CASE Drain \/ FinalOverflow
  BY <1>6, <1>a, <1>b
     DEF Drain, FinalOverflow, WithOverflow, UpToDate, InOutbox, InQueue, LastQueued, Report
<1>7. CASE Apply \/ FinalApply
  BY <1>7, <1>a, <1>c
     DEF Apply, FinalApply, Commit, Applied, Nothing, TypeOK, Kinds, UpToDate, InOutbox,
         InQueue, LastQueued, Report
<1>8. CASE FinalDrain
  BY <1>8, <1>a, <1>c, FinalDrainOrder DEF FinalDrain
<1>9. CASE Exit \/ Crash
  BY <1>9 DEF Exit, Crash, GoDown
<1>10. CASE Restart
  BY <1>10, <1>c
     DEF Restart, DownIsEmpty, TypeOK, MarkOpenConnectionsInactive, Nothing, UpToDate,
         InOutbox, InQueue, LastQueued, Report
<1>11. QED
  BY <1>1, <1>2, <1>3, <1>4, <1>5, <1>6, <1>7, <1>8, <1>9, <1>10 DEF Next, Put, Write

THEOREM Invariance == Spec => []IInv
<1>1. IInv /\ [Next]_vars => IInv'
  BY TypeNext, ReportsNext, MemoryNext, OrderNext DEF IInv
<1>2. QED
  BY <1>1, IInvInit, PTL DEF Spec

(* The types, and the bounds of the queue and of the batch. *)
THEOREM TypeCorrect == Spec => []TypeOK
<1>1. IInv => TypeOK
  BY DEF IInv
<1>2. QED
  BY <1>1, Invariance, PTL

(* Connections that stay out of the overflow map are applied in order and  *)
(* never forgotten, for every capacity, batch size and number of them. *)
THEOREM DirectPathCorrect == Spec => []DirectPathInOrder
<1>1. IInv => DirectPathInOrder
  BY DEF IInv
<1>2. QED
  BY <1>1, Invariance, PTL

(* ------------------------ the abstract specification ------------------- *)

(* A step that neither hands over nor ends a batch, and keeps the daemon   *)
(* in service or out of it. *)
InTransaction == writer \in {"apply", "final_apply"}
Serving == daemon # "down" /\ writer # "returned"

LEMMA TableStep == IInv /\ [Next]_vars => [Table!Next]_(Table!vars)
<1> SUFFICES ASSUME IInv, [Next]_vars PROVE [Table!Next]_(Table!vars) OBVIOUS
<1> DEFINE Abstract == [Table!Next]_(Table!vars)
<1>0. TypeOK /\ DownIsEmpty
  BY DEF IInv
<1>1. ASSUME UNCHANGED <<sample, latest, InTransaction, Serving>> PROVE Abstract
  BY <1>1 DEF InTransaction, Serving, Table!vars
<1>2. ASSUME NEW current \in SUBSET Conns, Snapshot(current) PROVE Abstract
  BY <1>1, <1>2 DEF Snapshot, InTransaction, Serving
<1>3. ASSUME NEW e \in Event, Enqueue(e) \/ Spill(e) PROVE Abstract
  BY <1>1, <1>3 DEF Enqueue, Spill, InTransaction, Serving
<1>4. CASE StopWatching \/ Tick \/ Stop
  BY <1>1, <1>4 DEF StopWatching, Tick, Stop, memory, InTransaction, Serving
<1>5. CASE Receive \/ FinalDrain
  BY <1>5 DEF Receive, FinalDrain, Table!vars
<1>6. CASE Drain \/ FinalOverflow
  <2>1. latest' \in [Conns -> Kinds \cup {"none"}]
    BY <1>0, <1>6 DEF Drain, FinalOverflow, WithOverflow, TypeOK
  <2>2. daemon # "down"
    BY <1>0, <1>6 DEF Drain, FinalOverflow, DownIsEmpty
  <2>3. Table!HandOver
    BY <1>6, <2>1, <2>2 DEF Drain, FinalOverflow, Nothing, Kinds, Table!HandOver, Table!Nothing
  <2> QED BY <2>3 DEF Table!Next
<1>7. CASE Apply \/ (FinalApply /\ Commit)
  <2>1. daemon # "down"
    BY <1>0, <1>7 DEF Apply, FinalApply, DownIsEmpty
  <2>2. \A c \in Conns : Applied[c] = Table!Effect(latest[c], sample[c])
    BY <1>0 DEF Applied, Table!Effect, TypeOK, Kinds
  <2>3. sample' = [c \in Conns |-> Table!Effect(latest[c], sample[c])]
    BY <1>7, <2>2 DEF Apply, FinalApply, Commit, Applied
  <2>4. Table!ApplyBatch
    BY <1>7, <2>1, <2>3 DEF Apply, FinalApply, Nothing, Table!ApplyBatch, Table!Nothing
  <2> QED BY <2>4 DEF Table!Next
<1>8. ASSUME writer' = "returned", sample' = sample PROVE Abstract
  <2>1. Table!StopServing
    BY <1>8 DEF Nothing, Table!StopServing, Table!Nothing
  <2> QED BY <2>1 DEF Table!Next
<1>9. CASE Restart
  <2>1. daemon = "down" /\ writer = "returned" /\ writer' = "select" /\ daemon' = "running"
    BY <1>0, <1>9 DEF Restart, DownIsEmpty
  <2>2. \A c \in Conns : MarkOpenConnectionsInactive[c] = Table!Effect("closed", sample[c])
    BY DEF MarkOpenConnectionsInactive, Table!Effect
  <2>3. sample' = [c \in Conns |-> Table!Effect("closed", sample[c])]
    BY <1>9, <2>2 DEF Restart, MarkOpenConnectionsInactive
  <2>4. Table!StartServing
    BY <2>1, <2>3 DEF Table!StartServing
  <2> QED BY <2>4 DEF Table!Next
<1>10. CASE ApplyFails \/ (FinalApply /\ ~Commit) \/ Exit \/ Crash
  BY <1>8, <1>10 DEF ApplyFails, FinalApply, Exit, Crash, GoDown
<1>11. CASE UNCHANGED vars
  BY <1>1, <1>11 DEF vars, InTransaction, Serving
<1>12. CASE FinalApply
  BY <1>7, <1>10, <1>12
<1> QED
  BY <1>2, <1>3, <1>4, <1>5, <1>6, <1>7, <1>9, <1>10, <1>11, <1>12 DEF Next, Put, Write

(* The writer and the daemon use the table as SampleTable allows, for      *)
(* every capacity, batch size and number of connections                    *)
(* (event_writer.go:101-132, main.go:57-82). *)
THEOREM TableUsedHolds == Spec => TableUsed
<1>1. Init => Table!Init
  BY DEF Init, Nothing, Table!Init, Table!Nothing
<1> QED BY <1>1, Invariance, TableStep, PTL DEF Spec, TableUsed, Table!Spec
=============================================================================
