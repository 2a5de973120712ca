------------------------- MODULE FeatureWriterProps -------------------------
(***************************************************************************)
(* What FeatureWriter must satisfy, and a statement of a comment and of    *)
(* the design that it does not keep.                                       *)
(***************************************************************************)
EXTENDS FeatureWriter, FiniteSets

(* The types; the queue never exceeds its capacity and a batch never       *)
(* BatchSize, except when the final drain empties the queue into it. *)
TypeOK == /\ active \subseteq Conns
          /\ outbox \subseteq Event
          /\ queue \in Seq(Event)
          /\ Len(queue) <= QueueCapacity
          /\ overflow \in [Conns -> Kinds \cup {"none"}]
          /\ latest \in [Conns -> Kinds \cup {"none"}]
          /\ batched \in 0..(BatchSize + QueueCapacity)
          /\ writer = "select" => batched < BatchSize
          /\ sample \in [Conns -> {"none", "open", "closed"}]
          /\ writer \in {"select", "drain", "apply", "final_overflow", "final_apply", "returned"}
          /\ watching \in BOOLEAN
          /\ daemon \in {"running", "stopping", "down"}
          /\ restarts \in Nat
          /\ spilled \subseteq Conns

(* What the watcher last reported of a connection. *)
Report(c) == IF c \in active THEN "observed" ELSE "closed"

InOutbox(c) == \E e \in outbox : e.id = c

(* The newest event of a connection that is on its way carries the last    *)
(* report; when none is, its sample is open exactly when the watcher has   *)
(* it active. *)
UpToDate(c) ==
  /\ \A e \in outbox : e.id = c => e.kind = Report(c)
  /\ ~InOutbox(c) /\ InQueue(c) => LastQueued(c, Report(c))
  /\ ~InOutbox(c) /\ ~InQueue(c) /\ latest[c] # "none" => latest[c] = Report(c)
  /\ ~InOutbox(c) /\ ~InQueue(c) /\ latest[c] = "none" => (sample[c] = "open" <=> c \in active)

(* A connection whose newest event did not go through the overflow map is  *)
(* never applied out of order and never forgotten, whatever other          *)
(* connections do and across failures and restarts; one that did spill is  *)
(* in order again from its first event that is queued after the overflow   *)
(* map was drained (watcher.go:60-93, event_writer.go:74-149, main.go:60). *)
DirectPathInOrder == daemon # "down" => \A c \in Conns \ spilled : UpToDate(c)

(* The writer and the daemon implement SampleTable on their side: between  *)
(* the moment a batch is handed over (flush, event_writer.go:101-108) and  *)
(* its end nothing else is handed over, a batch that fails is the last one *)
(* of that daemon, and a daemon that starts closes what its predecessor    *)
(* left open before it hands over anything (main.go:60).  So they rely on  *)
(* no more than what FeatureStore provides. *)
Table == INSTANCE SampleTable WITH
  handed <- IF writer \in {"apply", "final_apply"} THEN latest ELSE Nothing,
  serving <- daemon # "down" /\ writer # "returned"

TableUsed == Table!Spec

(* Eventual agreement of the table with the snapshots: a connection that   *)
(* stays gets an open sample and keeps it, one that is gone has none       *)
(* (phase-2-realtime-sync.md:11 makes "closed_at IS NULL" the single       *)
(* source of truth) - unless its last event went through the overflow map, *)
(* or its events go through it again and again.  Connections are           *)
(* interchangeable, so one of them stands for all. *)
Followed(c) ==
  /\ <>[](c \in active /\ c \notin spilled) => <>[](sample[c] = "open")
  /\ <>[](c \notin active /\ c \notin spilled) => <>[](sample[c] # "open")
SamplesFollowSnapshots == Followed(CHOOSE c \in Conns : TRUE)

(* event_writer.go:71-73 and phase-2-realtime-sync.md:40: when the queue   *)
(* is full the newest event of each connection is kept.  So when all that  *)
(* was reported of a connection has been written, its sample is what was   *)
(* reported last. *)
Settled(c) == ~InOutbox(c) /\ ~InQueue(c) /\ overflow[c] = "none" /\ latest[c] = "none"
NewestEventKept ==
  daemon = "running" => \A c \in Conns : Settled(c) => (sample[c] = "open" <=> c \in active)
=============================================================================
