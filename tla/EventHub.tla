------------------------------- MODULE EventHub -------------------------------
(***************************************************************************)
(* The hub that tells the browsers about changes                           *)
(* (backend/internal/api/events.go).  A publisher holds the read lock      *)
(* while it offers its event to every subscriber; several publishers may   *)
(* do so at once.  A subscriber is the handler of one event stream, with a *)
(* bounded queue; it takes the write lock to enter and to leave the map.   *)
(*                                                                         *)
(* The page answers every event in the same way, so an event is one unit   *)
(* in its queue: names, payloads and ids are left out.                     *)
(***************************************************************************)
EXTENDS Naturals

CONSTANTS Publishers, Streams, Capacity

ASSUME CapacityAssumption == Capacity \in Nat \ {0}

VARIABLES
  stage,  \* where the handler of a stream is
  queue,  \* the number of events in its queue
  call    \* where a publisher is: at, the subscribers it still has to
          \* serve (todo), and those whose queue it found full (full) and
          \* has then made room in (room)

hub == <<stage, queue, call>>

Idle == [at |-> "idle", todo |-> {}, full |-> {}, room |-> {}]

(* RLock waits while a writer holds the lock or waits for it, and a writer *)
(* waits for the readers. *)
Readers == {p \in Publishers : call[p].at = "sending"}
Writers == {s \in Streams : stage[s] \in {"entering", "leaving"}}
Subscribers == {s \in Streams : stage[s] \in {"open", "writing", "leaving"}}

(* ------------------------------- Publish ------------------------------- *)

(* The call is made; the caller has changed what it announces before. *)
Called == [Idle EXCEPT !.at = "waiting"]

(* What is left of the call; the lock is released with the last of it. *)
Remaining(S) == IF S = {} THEN Idle ELSE [Idle EXCEPT !.at = "sending", !.todo = S]

RLock(p) ==
  /\ call[p].at = "waiting"
  /\ Writers = {}
  /\ call' = [call EXCEPT ![p] = Remaining(Subscribers)]
  /\ UNCHANGED <<stage, queue>>

(* Mutant: a publisher waits until the subscriber has room. *)
SendBlocking(p, s) ==
  /\ s \in call[p].todo
  /\ queue[s] < Capacity
  /\ queue' = [queue EXCEPT ![s] = @ + 1]
  /\ call' = [call EXCEPT ![p] = Remaining(@.todo \ {s})]
  /\ UNCHANGED stage

(* Mutant: the channel is made with room for one event more. *)
SendIntoLarger(p, s) ==
  /\ s \in call[p].todo
  /\ call[p].full \cup call[p].room = {}
  /\ IF queue[s] <= Capacity
     THEN /\ queue' = [queue EXCEPT ![s] = @ + 1]
          /\ call' = [call EXCEPT ![p] = Remaining(@.todo \ {s})]
     ELSE /\ call' = [call EXCEPT ![p].full = {s}]
          /\ UNCHANGED queue
  /\ UNCHANGED stage

(* The event is queued if there is room; the subscribers are served in any *)
(* order, one at a time. *)
Send(p, s) ==
  /\ s \in call[p].todo
  /\ call[p].full \cup call[p].room = {}
  /\ IF queue[s] < Capacity
     THEN /\ queue' = [queue EXCEPT ![s] = @ + 1]
          /\ call' = [call EXCEPT ![p] = Remaining(@.todo \ {s})]
     ELSE /\ call' = [call EXCEPT ![p].full = {s}]
          /\ UNCHANGED queue
  /\ UNCHANGED stage

(* Otherwise one event is thrown away, if the subscriber has not taken it  *)
(* meanwhile ... *)
Drop(p, s) ==
  /\ s \in call[p].full
  /\ queue' = [queue EXCEPT ![s] = IF @ = 0 THEN 0 ELSE @ - 1]
  /\ call' = [call EXCEPT ![p] = [at |-> @.at, todo |-> @.todo, full |-> {}, room |-> {s}]]
  /\ UNCHANGED stage

(* Mutant: the resync event is forgotten. *)
SkipResync(p, s) ==
  /\ s \in call[p].room
  /\ call' = [call EXCEPT ![p] = Remaining(@.todo \ {s})]
  /\ UNCHANGED <<stage, queue>>

(* Mutant: room is made again until the resync event is queued. *)
ResyncOrRetry(p, s) ==
  /\ s \in call[p].room
  /\ IF queue[s] < Capacity
     THEN /\ queue' = [queue EXCEPT ![s] = @ + 1]
          /\ call' = [call EXCEPT ![p] = Remaining(@.todo \ {s})]
     ELSE /\ call' = [call EXCEPT ![p].full = {s}, ![p].room = {}]
          /\ UNCHANGED queue
  /\ UNCHANGED stage

(* ... and a resync event is queued, unless another publisher has filled   *)
(* the queue again. *)
Resync(p, s) ==
  /\ s \in call[p].room
  /\ queue' = [queue EXCEPT ![s] = IF @ < Capacity THEN @ + 1 ELSE @]
  /\ call' = [call EXCEPT ![p] = Remaining(@.todo \ {s})]
  /\ UNCHANGED stage

(* ------------------------------ ServeHTTP ------------------------------ *)

Move(s, from, to) == stage[s] = from /\ stage' = [stage EXCEPT ![s] = to]

(* The request arrives, and subscribe asks for the write lock. *)
Accept(s) == Move(s, "connecting", "entering") /\ UNCHANGED <<queue, call>>

Subscribe(s) == Readers = {} /\ Move(s, "entering", "open") /\ UNCHANGED <<queue, call>>

Take(s) ==
  /\ queue[s] > 0
  /\ Move(s, "open", "writing")
  /\ queue' = [queue EXCEPT ![s] = @ - 1]
  /\ UNCHANGED call

(* The request context is done, or a write fails (an event, the greeting   *)
(* or a keepalive). *)
Leave(s) ==
  /\ \/ Move(s, "open", "leaving") \/ Move(s, "writing", "leaving")
  /\ UNCHANGED <<queue, call>>

(* The queue is left to the garbage collector. *)
Unsubscribe(s) ==
  /\ Readers = {}
  /\ Move(s, "leaving", "gone")
  /\ queue' = [queue EXCEPT ![s] = 0]
  /\ UNCHANGED call
=============================================================================
