---------------------------- MODULE FeatureWriter ----------------------------
(***************************************************************************)
(* From Mihomo's connection snapshots to the open connection samples in    *)
(* SQLite: the watcher (backend/internal/mihomo/watcher.go), the bounded   *)
(* queue, overflow map and batching writer                                 *)
(* (backend/internal/telemetry/event_writer.go), the open/closed state of  *)
(* connection_samples (backend/internal/store/runtime.go), and the         *)
(* daemon's start, stop, failure and crash                                 *)
(* (backend/cmd/flowcanvasd/main.go).                                      *)
(*                                                                         *)
(* The watcher and the writer are two goroutines; the watcher puts events  *)
(* one at a time while the writer receives and flushes.  A snapshot may     *)
(* hold any connections: they come, go and may come back under the same    *)
(* id, and one that does not normalise (no usable host) counts as absent.  *)
(***************************************************************************)
EXTENDS Naturals, Sequences

CONSTANTS Conns,          \* connection ids
          QueueCapacity,  \* capacity of the channel
          BatchSize,      \* batch length that forces a flush
          StoreMayFail,   \* a transaction may fail on a live context
          MaxRestarts     \* bound on how often the daemon goes down

ASSUME CapacityAssumption == QueueCapacity \in Nat \ {0} /\ BatchSize \in Nat \ {0}
ASSUME FailureAssumption == StoreMayFail \in BOOLEAN /\ MaxRestarts \in Nat

VARIABLES
  active,    \* Watcher.activeByID
  outbox,    \* events of the current handleSnapshot not yet put
  queue,     \* FeatureWriter.queue
  overflow,  \* FeatureWriter.overflow: the kind of the event per id
  latest,    \* the batch, coalesced: the kind of the last event per id
  batched,   \* len(batch)
  sample,    \* connection_samples: no row, open, or closed
  writer,    \* where FeatureWriter.Run is
  watching,  \* Watcher.Run has not returned
  daemon,    \* "running", "stopping" (context cancelled) or "down"
  restarts,  \* times the daemon went down
  spilled    \* history: ids with an event in the overflow map, or that had one
             \* there and have had none queued since it was taken out

memory == <<active, outbox, queue, overflow, latest, batched, spilled>>
vars == <<active, outbox, queue, overflow, latest, batched, sample,
          writer, watching, daemon, restarts, spilled>>

Kinds == {"observed", "closed"}
Event == [id : Conns, kind : Kinds]
Nothing == [c \in Conns |-> "none"]

Init == /\ active = {}
        /\ outbox = {}
        /\ queue = <<>>
        /\ overflow = Nothing
        /\ latest = Nothing
        /\ batched = 0
        /\ sample = [c \in Conns |-> "none"]
        /\ writer = "select"
        /\ watching = TRUE
        /\ daemon = "running"
        /\ restarts = 0
        /\ spilled = {}

(* -------------------------------- watcher ------------------------------ *)

Events(ids, kind) == [id : ids, kind : {kind}]

(* handleSnapshot: every current connection is observed, every one that    *)
(* was active and is gone is closed.  A snapshot that was already on the   *)
(* socket is still handled while the daemon stops. *)
Snapshot(current) ==
  /\ watching
  /\ outbox = {}
  /\ outbox' = Events(current, "observed") \cup Events(active \ current, "closed")
  /\ active' = current
  /\ UNCHANGED <<queue, overflow, latest, batched, sample, writer, watching,
                 daemon, restarts, spilled>>

(* The next event that FeatureWriter.ApplyFeatureEvents is given: the      *)
(* observed ones come first, in the order of a Go map. *)
NextEvent(e) == /\ e \in outbox
                /\ e.kind = "closed" => \A other \in outbox : other.kind = "closed"

Enqueue(e) == /\ NextEvent(e)
              /\ Len(queue) < QueueCapacity
              /\ queue' = Append(queue, e)
              /\ outbox' = outbox \ {e}
              /\ spilled' = IF overflow[e.id] = "none" THEN spilled \ {e.id} ELSE spilled
              /\ UNCHANGED <<active, overflow, latest, batched, sample,
                             writer, watching, daemon, restarts>>

(* The channel is full: the event replaces the id's entry of the overflow. *)
Spill(e) == /\ NextEvent(e)
            /\ Len(queue) >= QueueCapacity
            /\ overflow' = [overflow EXCEPT ![e.id] = e.kind]
            /\ spilled' = spilled \cup {e.id}
            /\ outbox' = outbox \ {e}
            /\ UNCHANGED <<active, queue, latest, batched, sample,
                           writer, watching, daemon, restarts>>

(* Watcher.Run returns between two snapshots once the context is done. *)
StopWatching == /\ daemon = "stopping"
                /\ watching
                /\ outbox = {}
                /\ watching' = FALSE
                /\ UNCHANGED <<memory, sample, writer, daemon, restarts>>

(* -------------------------------- writer ------------------------------- *)

(* Mutant: the first event of an id wins. *)
CoalesceFirst(batch, e) == [batch EXCEPT ![e.id] = IF @ = "none" THEN e.kind ELSE @]

(* One event more in a batch, as coalesceEvents will see it: the last      *)
(* event of an id wins. *)
Coalesce(batch, e) == [batch EXCEPT ![e.id] = e.kind]

(* drainOverflow, appended to the batch. *)
WithOverflow == [c \in Conns |-> IF overflow[c] # "none" THEN overflow[c] ELSE latest[c]]

(* Mutant: the flush comes one event late. *)
ReceiveLate ==
  /\ writer = "select"
  /\ queue # <<>>
  /\ latest' = Coalesce(latest, Head(queue))
  /\ queue' = Tail(queue)
  /\ batched' = batched + 1
  /\ writer' = IF batched + 1 > BatchSize THEN "drain" ELSE "select"
  /\ UNCHANGED <<active, outbox, overflow, sample, watching, daemon, restarts, spilled>>

(* The receive case of the select; a full batch is flushed at once. *)
Receive ==
  /\ writer = "select"
  /\ queue # <<>>
  /\ latest' = Coalesce(latest, Head(queue))
  /\ queue' = Tail(queue)
  /\ batched' = batched + 1
  /\ writer' = IF batched + 1 >= BatchSize THEN "drain" ELSE "select"
  /\ UNCHANGED <<active, outbox, overflow, sample, watching, daemon,
                 restarts, spilled>>

(* The timer case of the select, when there is something to flush. *)
Tick ==
  /\ writer = "select"
  /\ batched > 0 \/ overflow # Nothing
  /\ writer' = "drain"
  /\ UNCHANGED <<memory, sample, watching, daemon, restarts>>

(* flush, first half: the overflow goes behind the batch. *)
Drain ==
  /\ writer = "drain"
  /\ latest' = WithOverflow
  /\ overflow' = Nothing
  /\ writer' = "apply"
  /\ UNCHANGED <<active, outbox, queue, batched, sample, watching,
                 daemon, restarts, spilled>>

(* Store.ApplyFeatureEvents on the coalesced batch: an observed id has an  *)
(* open sample, a closed one a closed sample if it had any. *)
Applied == [c \in Conns |->
              CASE latest[c] = "observed" -> "open"
                [] latest[c] = "closed" /\ sample[c] = "open" -> "closed"
                [] OTHER -> sample[c]]

Commit == /\ sample' = Applied
          /\ latest' = Nothing
          /\ batched' = 0

MayStop == restarts < MaxRestarts

(* flush, second half. *)
Apply ==
  /\ writer = "apply"
  /\ daemon = "running"
  /\ Commit
  /\ writer' = "select"
  /\ UNCHANGED <<active, outbox, queue, overflow, watching, daemon,
                 restarts, spilled>>

(* Mutant: a failed batch is forgotten and the writer goes on. *)
ApplyGoesOn ==
  /\ writer = "apply"
  /\ daemon = "stopping" \/ (StoreMayFail /\ MayStop)
  /\ writer' = "select"
  /\ latest' = Nothing
  /\ batched' = 0
  /\ daemon' = "stopping"
  /\ UNCHANGED <<active, outbox, queue, overflow, sample, watching, restarts, spilled>>

(* The transaction fails, always when the context is cancelled: Run        *)
(* returns the error, the batch is lost and main stops the daemon. *)
ApplyFails ==
  /\ writer = "apply"
  /\ daemon = "stopping" \/ (StoreMayFail /\ MayStop)
  /\ writer' = "returned"
  /\ daemon' = "stopping"
  /\ UNCHANGED <<memory, sample, watching, restarts>>

InQueue(c) == \E i \in 1..Len(queue) : queue[i].id = c
LastQueued(c, kind) ==
  \E i \in 1..Len(queue) : /\ queue[i] = [id |-> c, kind |-> kind]
                           /\ \A j \in (i + 1)..Len(queue) : queue[j].id # c

(* The ctx.Done case of the select: drainChannel, then drainOverflow, then *)
(* one transaction with a context of its own. *)
FinalDrain ==
  /\ writer = "select"
  /\ daemon = "stopping"
  /\ latest' \in [Conns -> Kinds \cup {"none"}]
  /\ \A c \in Conns : IF InQueue(c) THEN LastQueued(c, latest'[c]) ELSE latest'[c] = latest[c]
  /\ batched' = batched + Len(queue)
  /\ queue' = <<>>
  /\ writer' = "final_overflow"
  /\ UNCHANGED <<active, outbox, overflow, sample, watching, daemon,
                 restarts, spilled>>

FinalOverflow ==
  /\ writer = "final_overflow"
  /\ latest' = WithOverflow
  /\ overflow' = Nothing
  /\ writer' = "final_apply"
  /\ UNCHANGED <<active, outbox, queue, batched, sample, watching,
                 daemon, restarts, spilled>>

FinalApply ==
  /\ writer = "final_apply"
  /\ \/ Commit
     \/ StoreMayFail /\ UNCHANGED <<sample, latest, batched>>
  /\ writer' = "returned"
  /\ UNCHANGED <<active, outbox, queue, overflow, watching, daemon,
                 restarts, spilled>>

(* -------------------------------- daemon ------------------------------- *)

(* SIGTERM, or another worker stopped the daemon. *)
Stop == /\ daemon = "running"
        /\ MayStop
        /\ daemon' = "stopping"
        /\ UNCHANGED <<memory, sample, writer, watching, restarts>>

GoDown == /\ daemon' = "down"
          /\ restarts' = restarts + 1
          /\ active' = {}
          /\ outbox' = {}
          /\ queue' = <<>>
          /\ overflow' = Nothing
          /\ latest' = Nothing
          /\ batched' = 0
          /\ spilled' = {}
          /\ writer' = "returned"
          /\ watching' = FALSE
          /\ UNCHANGED sample

Exit == /\ daemon = "stopping"
        /\ writer = "returned"
        /\ ~watching
        /\ GoDown

Crash == /\ daemon # "down"
         /\ MayStop
         /\ GoDown

(* Mutant: open samples survive a restart. *)
KeepOpenConnections == sample

(* MarkOpenConnectionsInactive, before the workers start. *)
MarkOpenConnectionsInactive ==
  [c \in Conns |-> IF sample[c] = "open" THEN "closed" ELSE sample[c]]

(* procd respawns the daemon. *)
Restart == /\ daemon = "down"
           /\ sample' = MarkOpenConnectionsInactive
           /\ daemon' = "running"
           /\ writer' = "select"
           /\ watching' = TRUE
           /\ UNCHANGED <<memory, restarts>>

Put == \E e \in Event : Enqueue(e) \/ Spill(e)
Write == \/ Drain \/ Apply \/ ApplyFails \/ FinalDrain \/ FinalOverflow \/ FinalApply

Next == \/ \E current \in SUBSET Conns : Snapshot(current)
        \/ Put \/ StopWatching
        \/ Receive \/ Tick \/ Write
        \/ Stop \/ Exit \/ Crash \/ Restart

Spec == Init /\ [][Next]_vars

(* Goroutines run, select picks among its ready cases at random, the       *)
(* socket closes soon after the context is done, and procd respawns.       *)
(* Nothing makes a snapshot arrive, a transaction fail or the daemon stop. *)
Fairness == /\ WF_vars(Put) /\ SF_vars(StopWatching)
            /\ SF_vars(Receive) /\ SF_vars(Tick) /\ WF_vars(Write)
            /\ WF_vars(Exit) /\ WF_vars(Restart)
FairSpec == Spec /\ Fairness
=============================================================================
