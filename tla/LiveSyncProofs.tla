---------------------------- MODULE LiveSyncProofs ----------------------------
(***************************************************************************)
(* The types, and that no change goes unnoticed, for any numbers of        *)
(* publishers, streams and tabs and any capacity of the queues.            *)
(***************************************************************************)
EXTENDS LiveSyncProps, TLAPS

(* -------------------------------- the hub ------------------------------ *)

CallType == [at : {"idle", "waiting", "sending"}, todo : SUBSET Streams,
             full : SUBSET Streams, room : SUBSET Streams]
Orderly(c) == AtMostOne(c.full \cup c.room) /\ c.full \cup c.room \subseteq c.todo
Calls == call \in [Publishers -> CallType] /\ \A p \in Publishers : Orderly(call[p])
Queues == stage \in [Streams -> Stages] /\ queue \in [Streams -> 0..Capacity]

LEMMA CallsFromIdle ==
  /\ Idle \in CallType /\ Orderly(Idle)
  /\ Called \in CallType /\ Orderly(Called)
  /\ \A S \in SUBSET Streams : Remaining(S) \in CallType /\ Orderly(Remaining(S))
BY DEF CallType, Orderly, AtMostOne, Idle, Called, Remaining

LEMMA CallsUpdated ==
  ASSUME Calls, NEW p \in Publishers, NEW c \in CallType, Orderly(c),
         call' = [call EXCEPT ![p] = c]
  PROVE  Calls'
BY DEF Calls

LEMMA CallsCalled ==
  ASSUME Calls, NEW p \in Publishers, call' = [call EXCEPT ![p] = Called]
  PROVE  Calls'
BY CallsUpdated, CallsFromIdle

(* A publisher serves one subscriber at a time. *)
LEMMA PublishKeepsCalls ==
  ASSUME Calls, NEW p \in Publishers, Publish(p)
  PROVE  Calls'
<1>1. CASE RLock(p)
  <2>1. Subscribers \in SUBSET Streams
    BY DEF Subscribers
  <2> QED BY <1>1, <2>1, CallsUpdated, CallsFromIdle DEF RLock
<1>2. ASSUME NEW s \in Streams, call' = [call EXCEPT ![p] = Remaining(call[p].todo \ {s})]
      PROVE Calls'
  <2>1. call[p].todo \ {s} \in SUBSET Streams
    BY DEF Calls, CallType
  <2> QED BY <1>2, <2>1, CallsUpdated, CallsFromIdle
<1>3. ASSUME NEW s \in Streams, Send(p, s), ~ queue[s] < Capacity PROVE Calls'
  <2>1. /\ call[p] \in CallType
        /\ [call[p] EXCEPT !.full = {s}] \in CallType
        /\ Orderly([call[p] EXCEPT !.full = {s}])
    BY <1>3 DEF Send, Calls, CallType, Orderly, AtMostOne
  <2> QED BY <1>3, <2>1, CallsUpdated DEF Send
<1>4. ASSUME NEW s \in Streams, Drop(p, s) PROVE Calls'
  <2> DEFINE c == [at |-> call[p].at, todo |-> call[p].todo, full |-> {}, room |-> {s}]
  <2>1. call[p] \in CallType /\ s \in call[p].todo
    BY <1>4 DEF Drop, Calls, Orderly
  <2>2. c \in CallType /\ Orderly(c)
    BY <2>1 DEF CallType, Orderly, AtMostOne
  <2> QED BY <1>4, <2>2, CallsUpdated DEF Drop
<1> QED BY <1>1, <1>2, <1>3, <1>4 DEF Publish, Send, Resync

(* A queue is never fuller than its capacity. *)
LEMMA PublishKeepsQueues ==
  ASSUME Queues, NEW p \in Publishers, Publish(p)
  PROVE  Queues'
<1> USE CapacityAssumption
<1>1. CASE RLock(p)
  BY <1>1 DEF RLock, Queues
<1>2. ASSUME NEW s \in Streams, Send(p, s) PROVE Queues'
  BY <1>2 DEF Send, Queues
<1>3. ASSUME NEW s \in Streams, Drop(p, s) PROVE Queues'
  BY <1>3 DEF Drop, Queues
<1>4. ASSUME NEW s \in Streams, Resync(p, s) PROVE Queues'
  BY <1>4 DEF Resync, Queues
<1> QED BY <1>1, <1>2, <1>3, <1>4 DEF Publish

(* ---------------------------- type correctness ------------------------- *)

Refreshes == /\ upstream \in Versions
             /\ catalogue \in Versions
             /\ fetched \in [Publishers -> SUBSET Versions]
             /\ behind \subseteq Streams
             /\ mishaps \in 0..MaxMishaps
Pages == /\ line \in [Tabs -> Streams]
         /\ answers \in [Tabs -> [Versions -> 0..MaxLoads]]
         /\ shown \in [Tabs -> Versions]

LEMMA TypeParts == TypeOK <=> Calls /\ Queues /\ Refreshes /\ Pages
BY DEF TypeOK, Calls, CallType, Orderly, Queues, Refreshes, Pages

LEMMA TypePartsPrimed == TypeOK' <=> Calls' /\ Queues' /\ Refreshes' /\ Pages'
BY TypeParts, PTL

LEMMA TypesAtStart == Init => TypeOK
<1> SUFFICES ASSUME Init PROVE Calls /\ Queues /\ Refreshes /\ Pages
  BY TypeParts
<1> USE BoundsAssumption, CapacityAssumption
<1>1. line \in [Tabs -> Streams]
  BY StreamsAssumption DEF Init
<1>2. answers = [t \in Tabs |-> [v \in Versions |-> 0]] /\ 0 \in 0..MaxLoads
  BY DEF Init
<1>3. Pages
  <2>1. answers \in [Tabs -> [Versions -> 0..MaxLoads]]
    BY <1>2
  <2>2. shown \in [Tabs -> Versions]
    BY DEF Init, Versions
  <2> QED BY <1>1, <2>1, <2>2 DEF Pages
<1>4. Refreshes
  BY DEF Init, Refreshes, Versions
<1>5. Queues
  BY DEF Init, Queues, Stages
<1>6. call = [p \in Publishers |-> Idle]
  BY DEF Init
<1>7. Calls
  BY <1>6, CallsFromIdle DEF Calls
<1> QED BY <1>3, <1>4, <1>5, <1>7

LEMMA AnswersCounted ==
  ASSUME Pages, NEW t \in Tabs, NEW v \in Versions, NEW n \in 0..MaxLoads,
         answers' = [answers EXCEPT ![t][v] = n]
  PROVE  answers' \in [Tabs -> [Versions -> 0..MaxLoads]]
BY DEF Pages

LEMMA TypesKept == TypeOK /\ [Next]_vars => TypeOK'
<1> SUFFICES ASSUME Calls, Queues, Refreshes, Pages, [Next]_vars
             PROVE  Calls' /\ Queues' /\ Refreshes' /\ Pages'
  BY TypeParts, TypePartsPrimed
<1> DEFINE Goal == Calls' /\ Queues' /\ Refreshes' /\ Pages'
<1> USE BoundsAssumption, CapacityAssumption
<1>h. UNCHANGED hub => Calls' /\ Queues'
  BY DEF hub, Calls, Queues
<1>t. UNCHANGED tabs => Pages'
  BY DEF tabs, Pages
<1>r. UNCHANGED <<upstream, catalogue, fetched, behind, mishaps>> => Refreshes'
  BY DEF Refreshes
<1>q. UNCHANGED <<stage, queue>> => Queues'
  BY DEF Queues
<1>1. CASE Change
  BY <1>1, <1>h, <1>t DEF Change, Refreshes, Versions
<1>2. ASSUME NEW p \in Publishers, Fetch(p) \/ FetchFails(p) PROVE Goal
  BY <1>2, <1>h, <1>t DEF Fetch, FetchFails, Mishap, Refreshes
<1>3. ASSUME NEW p \in Publishers, ReplaceTargets(p) PROVE Goal
  <2>1. Calls' /\ Queues' /\ Pages'
    BY <1>3, <1>q, <1>t, CallsCalled DEF ReplaceTargets
  <2>2. fetched[p] \subseteq Versions /\ Subscribers \subseteq Streams
    BY DEF Refreshes, Subscribers
  <2> QED BY <1>3, <2>1, <2>2 DEF ReplaceTargets, Refreshes
<1>4. ASSUME NEW p \in Publishers, Announce(p) PROVE Goal
  <2>1. Calls' /\ Queues'
    BY <1>4, <1>q, CallsCalled DEF Announce
  <2> QED BY <1>4, <1>t, <1>r, <2>1 DEF Announce
<1>5. ASSUME NEW p \in Publishers, Publish(p) PROVE Goal
  <2>1. Rest
    BY <1>5 DEF Publish
  <2> QED BY <1>5, <1>t, <1>r, <2>1, PublishKeepsCalls, PublishKeepsQueues DEF Rest
<1>6. ASSUME NEW s \in Streams, Serve(s) \/ Receive(s) \/ Notice(s) PROVE Goal
  <2>1. Queues'
    BY <1>6 DEF Serve, Receive, Notice, Accept, Subscribe, Unsubscribe, Take, Leave, Move, Queues, Stages
  <2>2. UNCHANGED call /\ Rest
    BY <1>6 DEF Serve, Receive, Notice, Accept, Subscribe, Unsubscribe, Take, Leave
  <2> QED BY <2>1, <2>2, <1>t, <1>r DEF Rest, Calls
<1>7. ASSUME NEW t \in Tabs, OnEvent(t) PROVE Goal
  <2>1. UNCHANGED call /\ UNCHANGED queue /\ stage' \in [Streams -> Stages]
    BY <1>7 DEF OnEvent, Move, Queues, Stages
  <2>2. Calls' /\ Queues'
    BY <2>1 DEF Calls, Queues
  <2>3. answers[t][catalogue] + 1 \in 0..MaxLoads /\ catalogue \in Versions
    BY <1>7 DEF OnEvent, Pages, Refreshes
  <2>4. answers' = [answers EXCEPT ![t][catalogue] = answers[t][catalogue] + 1]
    BY <1>7 DEF OnEvent
  <2>5. Pages'
    BY <1>7, <2>3, <2>4, AnswersCounted DEF OnEvent, Pages
  <2>6. Refreshes'
    BY <1>7 DEF OnEvent, Refreshes
  <2> QED BY <2>2, <2>5, <2>6
<1>8. ASSUME NEW t \in Tabs, NEW v \in Versions, ApplySnapshot(t, v) \/ LoadFails(t, v) PROVE Goal
  <2>1. answers[t][v] - 1 \in 0..MaxLoads
    BY <1>8 DEF ApplySnapshot, LoadFails, Pages
  <2>2. answers' = [answers EXCEPT ![t][v] = answers[t][v] - 1]
    BY <1>8 DEF ApplySnapshot, LoadFails
  <2>3. Pages'
    BY <1>8, <2>1, <2>2, AnswersCounted DEF ApplySnapshot, LoadFails, Pages
  <2>4. Refreshes'
    BY <1>8 DEF ApplySnapshot, LoadFails, Mishap, Refreshes
  <2> QED BY <1>8, <1>h, <2>3, <2>4 DEF ApplySnapshot, LoadFails
<1>9. ASSUME NEW t \in Tabs, NEW s \in Streams, Break(t, s) PROVE Goal
  <2>1. Pages' /\ Queues' /\ Refreshes'
    BY <1>9 DEF Break, Mishap, Pages, Queues, Stages, Refreshes
  <2> QED BY <1>9, <2>1 DEF Break, Calls
<1>10. CASE UNCHANGED vars
  BY <1>10, <1>h, <1>t, <1>r DEF vars
<1> QED BY <1>1, <1>2, <1>3, <1>4, <1>5, <1>6, <1>7, <1>8, <1>9, <1>10 DEF Next

(* The types, the bound of the queues, and one subscriber served at a time *)
(* (events.go:27-51). *)
THEOREM TypesHold == Spec => []TypeOK
BY TypesAtStart, TypesKept, PTL DEF Spec

(* ---------------------- no change goes unnoticed ----------------------- *)

(* The stream of a tab is not given up by its handler, only a subscriber   *)
(* can be behind, and who serves nobody has nobody left to serve. *)
Lines == \A t \in Tabs : stage[line[t]] \in {"connecting", "entering", "open", "writing"}
Left == \A s \in behind : stage[s] \in {"open", "writing", "leaving", "gone"}
Served == \A p \in Publishers : call[p].at # "sending" => call[p].todo = {}

Noticed(s) == \/ queue[s] > 0
              \/ stage[s] = "writing"
              \/ \E p \in Publishers : Pending(p, s)

IInv == TypeOK /\ Lines /\ Left /\ Served /\ NoChangeUnnoticed

LEMMA UnnoticedMeans ==
  NoChangeUnnoticed <=> \A t \in Tabs : line[t] \in behind => Noticed(line[t])
BY DEF NoChangeUnnoticed, Noticed

LEMMA UnnoticedMeansPrimed ==
  NoChangeUnnoticed' <=> \A t \in Tabs : line'[t] \in behind' => Noticed(line[t])'
BY DEF NoChangeUnnoticed, Noticed, Pending

LEMMA RemainingFacts ==
  ASSUME NEW S
  PROVE  /\ Remaining(S).at # "sending" => Remaining(S).todo = {}
         /\ \A s \in S : Remaining(S).at = "sending" /\ s \in Remaining(S).todo
BY DEF Remaining, Idle

(* A publisher that goes on keeps what it owes to every open stream. *)
LEMMA PublishKeepsNoticed ==
  ASSUME TypeOK, Served, NEW p \in Publishers, Publish(p),
         NEW s \in Streams, stage[s] \in {"open", "writing"}, Noticed(s)
  PROVE  Noticed(s)'
<1> USE CapacityAssumption
<1>t. /\ call \in [Publishers -> CallType] /\ queue \in [Streams -> 0..Capacity]
      /\ \A q \in Publishers : Orderly(call[q])
  BY TypeParts DEF Calls, Queues
<1>w. stage' = stage
  BY DEF Publish, RLock, Send, Drop, Resync
<1>o. \A q \in Publishers : q # p /\ Pending(q, s) => Pending(q, s)'
  BY <1>t DEF Publish, RLock, Send, Drop, Resync, Pending
<1>1. CASE RLock(p)
  <2>1. call'[p] = Remaining(Subscribers) /\ queue' = queue
    BY <1>1, <1>t DEF RLock
  <2>2. s \in Subscribers
    BY DEF Subscribers
  <2>3. Pending(p, s)'
    BY <2>1, <2>2, RemainingFacts DEF Pending
  <2> QED BY <2>3 DEF Noticed
<1>2. ASSUME NEW r \in call[p].todo, call'[p] = Remaining(call[p].todo \ {r}),
             r = s \/ queue[s] > 0 => queue'[s] > 0
      PROVE Noticed(s)'
  <2>1. CASE r = s \/ queue[s] > 0
    BY <1>2, <1>t, <2>1 DEF Noticed
  <2>2. CASE stage[s] = "writing"
    BY <1>w, <2>2 DEF Noticed
  <2>3. ASSUME r # s, Pending(p, s) PROVE Noticed(s)'
    <3>1. call[p].at = "sending"
      BY DEF Served
    <3>2. s \in call[p].todo \ {r}
      BY <2>3, <3>1 DEF Pending
    <3>3. Pending(p, s)'
      BY <1>2, <3>2, RemainingFacts DEF Pending
    <3> QED BY <3>3 DEF Noticed
  <2> QED BY <1>o, <2>1, <2>2, <2>3 DEF Noticed
<1>3. ASSUME NEW r \in Streams, Send(p, r) PROVE Noticed(s)'
  <2>1. CASE queue[r] < Capacity
    <3>1. /\ call'[p] = Remaining(call[p].todo \ {r})
          /\ r \in call[p].todo
          /\ r = s \/ queue[s] > 0 => queue'[s] > 0
      BY <1>3, <1>t, <2>1 DEF Send
    <3> QED BY <1>2, <3>1
  <2>2. CASE ~ queue[r] < Capacity
    <3>1. queue' = queue
      BY <1>3, <2>2 DEF Send
    <3>2. \A q \in Publishers : call'[q].at = call[q].at /\ call'[q].todo = call[q].todo
      BY <1>3, <1>t, <2>2 DEF Send, CallType
    <3> QED BY <3>1, <3>2, <1>w DEF Noticed, Pending
  <2> QED BY <2>1, <2>2
<1>4. ASSUME NEW r \in Streams, Drop(p, r) PROVE Noticed(s)'
  <2>1. /\ call'[p].at = call[p].at /\ call'[p].todo = call[p].todo
        /\ r \in call[p].todo
        /\ r # s => queue'[s] = queue[s]
    BY <1>4, <1>t DEF Drop, CallType, Orderly
  <2>2. call[p].at = "sending"
    BY <2>1 DEF Served
  <2>3. CASE r = s
    BY <2>1, <2>2, <2>3 DEF Noticed, Pending
  <2>4. CASE r # s
    BY <2>1, <2>4, <1>w, <1>o DEF Noticed, Pending
  <2> QED BY <2>3, <2>4
<1>5. ASSUME NEW r \in Streams, Resync(p, r) PROVE Noticed(s)'
  <2>1. call'[p] = Remaining(call[p].todo \ {r})
    BY <1>5, <1>t DEF Resync
  <2>2. r \in call[p].todo
    BY <1>5, <1>t DEF Resync, Orderly
  <2>3. r = s \/ queue[s] > 0 => queue'[s] > 0
    <3>1. /\ queue[r] \in 0..Capacity /\ queue[s] \in 0..Capacity
          /\ queue' = [queue EXCEPT ![r] = IF queue[r] < Capacity THEN queue[r] + 1 ELSE queue[r]]
      BY <1>5, <1>t DEF Resync
    <3>2. CASE r = s
      BY <1>t, <3>1, <3>2
    <3>3. CASE r # s
      BY <1>t, <3>1, <3>3
    <3> QED BY <3>2, <3>3
  <2> QED BY <1>2, <2>1, <2>2, <2>3
<1> QED BY <1>1, <1>3, <1>4, <1>5 DEF Publish

LEMMA ServedKept ==
  ASSUME TypeOK, Served, [Next]_vars
  PROVE  Served'
<1>t. /\ call \in [Publishers -> CallType]
      /\ \A q \in Publishers : Orderly(call[q])
  BY TypeParts DEF Calls
<1>1. CASE call' = call
  BY <1>1 DEF Served
<1>2. ASSUME NEW p \in Publishers, NEW c, call' = [call EXCEPT ![p] = c],
             c.at # "sending" => c.todo = {}
      PROVE Served'
  BY <1>2, <1>t DEF Served
<1>3. ASSUME NEW p \in Publishers, ReplaceTargets(p) \/ Announce(p) PROVE Served'
  <2>1. call' = [call EXCEPT ![p] = Called] /\ Called.todo = {}
    BY <1>3 DEF ReplaceTargets, Announce, Called, Idle
  <2> QED BY <1>2, <2>1
<1>4. ASSUME NEW p \in Publishers, Publish(p) PROVE Served'
  <2>1. ASSUME NEW S, call' = [call EXCEPT ![p] = Remaining(S)] PROVE Served'
    BY <1>2, <2>1, RemainingFacts
  <2>2. CASE RLock(p)
    BY <2>1, <2>2 DEF RLock
  <2>3. ASSUME NEW s \in Streams, Send(p, s) PROVE Served'
    <3>1. CASE queue[s] < Capacity
      BY <2>1, <2>3, <3>1 DEF Send
    <3>2. CASE ~ queue[s] < Capacity
      <4>1. \A q \in Publishers : call'[q].at = call[q].at /\ call'[q].todo = call[q].todo
        BY <2>3, <3>2, <1>t DEF Send, CallType
      <4> QED BY <4>1 DEF Served
    <3> QED BY <3>1, <3>2
  <2>4. ASSUME NEW s \in Streams, Drop(p, s) PROVE Served'
    <3>1. \A q \in Publishers : call'[q].at = call[q].at /\ call'[q].todo = call[q].todo
      BY <2>4, <1>t DEF Drop, CallType
    <3> QED BY <3>1 DEF Served
  <2>5. ASSUME NEW s \in Streams, Resync(p, s) PROVE Served'
    BY <2>1, <2>5 DEF Resync
  <2> QED BY <1>4, <2>2, <2>3, <2>4, <2>5 DEF Publish
<1>5. CASE ~ \E p \in Publishers : ReplaceTargets(p) \/ Announce(p) \/ Publish(p)
  <2>1. call' = call
    BY <1>5 DEF Next, Change, Fetch, FetchFails, Serve, Accept, Subscribe, Unsubscribe, Receive,
                Take, Notice, Leave, OnEvent, ApplySnapshot, LoadFails, Break, vars, hub
  <2> QED BY <1>1, <2>1
<1> QED BY <1>3, <1>4, <1>5

(* A subscriber's handler is taken from open to writing by the event, and  *)
(* back by the page; only the handler of a broken stream leaves. *)
LEMMA StagesKept ==
  ASSUME TypeOK, Lines, Left, [Next]_vars
  PROVE  Lines' /\ Left'
<1>t. /\ stage \in [Streams -> Stages] /\ line \in [Tabs -> Streams]
      /\ behind \subseteq Streams
  BY TypeParts DEF Queues, Pages, Refreshes
<1>1. CASE stage' = stage /\ line' = line /\ behind' \subseteq behind \cup Subscribers
  BY <1>1, <1>t DEF Lines, Left, Subscribers
<1>2. ASSUME NEW s \in Streams, Serve(s) \/ Receive(s) PROVE Lines' /\ Left'
  <2>1. line' = line /\ behind' = behind
    BY <1>2 DEF Serve, Receive, Rest, tabs
  <2>2. \/ Move(s, "connecting", "entering") \/ Move(s, "entering", "open")
        \/ Move(s, "open", "writing") \/ Move(s, "leaving", "gone")
    BY <1>2 DEF Serve, Receive, Accept, Subscribe, Unsubscribe, Take
  <2> QED BY <2>1, <2>2, <1>t DEF Lines, Left, Move
<1>3. ASSUME NEW s \in Streams, Notice(s) PROVE Lines' /\ Left'
  BY <1>3, <1>t DEF Notice, Broken, Leave, Move, Rest, tabs, Lines, Left
<1>4. ASSUME NEW t \in Tabs, OnEvent(t) PROVE Lines' /\ Left'
  BY <1>4, <1>t DEF OnEvent, Move, Lines, Left
<1>5. ASSUME NEW t \in Tabs, NEW s \in Streams, Break(t, s) PROVE Lines' /\ Left'
  BY <1>5, <1>t DEF Break, Lines, Left
<1>6. CASE ~ \/ \E s \in Streams : Serve(s) \/ Receive(s) \/ Notice(s)
             \/ \E t \in Tabs : OnEvent(t) \/ \E s \in Streams : Break(t, s)
  <2>1. stage' = stage /\ line' = line /\ behind' \subseteq behind \cup Subscribers
    BY <1>6 DEF Next, Change, Fetch, FetchFails, ReplaceTargets, Announce, Publish, RLock, Send,
                Drop, Resync, Rest, ApplySnapshot, LoadFails, vars, hub, tabs
  <2> QED BY <1>1, <2>1
<1> QED BY <1>2, <1>3, <1>4, <1>5, <1>6

LEMMA NoticedKept ==
  ASSUME IInv, [Next]_vars
  PROVE  NoChangeUnnoticed'
<1> USE DEF IInv
<1>t. /\ call \in [Publishers -> CallType] /\ queue \in [Streams -> 0..Capacity]
      /\ stage \in [Streams -> Stages] /\ line \in [Tabs -> Streams]
      /\ behind \subseteq Streams
  BY TypeParts DEF Calls, Queues, Pages, Refreshes
<1>n. \A t \in Tabs : line[t] \in behind => Noticed(line[t]) /\ stage[line[t]] \in {"open", "writing"}
  BY UnnoticedMeans, <1>t DEF Lines, Left
<1> SUFFICES ASSUME NEW t \in Tabs, line'[t] \in behind' PROVE Noticed(line[t])'
  BY UnnoticedMeansPrimed
<1>1. CASE UNCHANGED hub /\ line' = line /\ behind' = behind
  BY <1>1, <1>n DEF hub, Noticed, Pending
<1>2. ASSUME NEW p \in Publishers, call' = [call EXCEPT ![p] = Called] PROVE Noticed(line[t])'
  BY <1>2, <1>t DEF Noticed, Pending, Called
<1>3. ASSUME NEW p \in Publishers, Publish(p) PROVE Noticed(line[t])'
  <2>1. line' = line /\ behind' = behind
    BY <1>3 DEF Publish, Rest, tabs
  <2>2. line[t] \in Streams /\ Noticed(line[t]) /\ stage[line[t]] \in {"open", "writing"}
    BY <2>1, <1>n, <1>t
  <2>3. \A s : line[t] = s => line'[t] = s
    BY <2>1
  <2>4. ASSUME NEW s \in Streams, s = line[t] PROVE Noticed(s)'
    BY <2>2, <2>4, <1>3, PublishKeepsNoticed
  <2>5. PICK s \in Streams : s = line[t]
    BY <2>2
  <2>6. Noticed(s)'
    BY <2>4, <2>5
  <2> QED BY <2>3, <2>5, <2>6 DEF Noticed, Pending
<1>4. ASSUME NEW s \in Streams, Serve(s) \/ Receive(s) \/ Notice(s) PROVE Noticed(line[t])'
  <2>1. line' = line /\ behind' = behind /\ call' = call
    BY <1>4 DEF Serve, Receive, Notice, Rest, tabs, Accept, Subscribe, Unsubscribe, Take, Leave
  <2>2. line[t] \in Streams /\ Noticed(line[t]) /\ stage[line[t]] \in {"open", "writing"}
    BY <2>1, <1>n, <1>t
  <2>3. CASE s # line[t]
    <3>1. stage'[line[t]] = stage[line[t]] /\ queue'[line[t]] = queue[line[t]]
      BY <1>4, <1>t, <2>2, <2>3 DEF Serve, Receive, Notice, Accept, Subscribe, Unsubscribe, Take,
                                    Leave, Move
    <3> QED BY <2>1, <2>2, <3>1 DEF Noticed, Pending
  <2>4. CASE s = line[t]
    <3>1. Take(s)
      BY <1>4, <2>2, <2>4 DEF Serve, Receive, Notice, Broken, Accept, Subscribe, Unsubscribe, Move
    <3>2. stage'[line[t]] = "writing"
      BY <3>1, <2>2, <2>4, <1>t DEF Take, Move
    <3> QED BY <3>2, <2>1 DEF Noticed
  <2> QED BY <2>3, <2>4
<1>5. ASSUME NEW u \in Tabs, OnEvent(u) PROVE Noticed(line[t])'
  <2>1. /\ line' = line /\ call' = call /\ queue' = queue
        /\ line[t] # line[u] /\ line[t] \in behind
    BY <1>5 DEF OnEvent
  <2>2. stage'[line[t]] = stage[line[t]]
    BY <1>5, <2>1, <1>t DEF OnEvent, Move
  <2> QED BY <2>1, <2>2, <1>n DEF Noticed, Pending
<1>6. ASSUME NEW u \in Tabs, NEW s \in Streams, Break(u, s) PROVE Noticed(line[t])'
  <2>1. call' = call /\ queue' = queue /\ behind' = behind
    BY <1>6 DEF Break
  <2>2. s \notin behind
    BY <1>6 DEF Break, Left
  <2>3. line'[t] = line[t] /\ stage'[line[t]] = stage[line[t]]
    BY <1>6, <2>1, <2>2, <1>t DEF Break
  <2> QED BY <2>1, <2>3, <1>n DEF Noticed, Pending
<1>7. CASE ~ \/ \E p \in Publishers : ReplaceTargets(p) \/ Announce(p) \/ Publish(p)
             \/ \E s \in Streams : Serve(s) \/ Receive(s) \/ Notice(s)
             \/ \E u \in Tabs : OnEvent(u) \/ \E s \in Streams : Break(u, s)
  <2>1. UNCHANGED hub /\ line' = line /\ behind' = behind
    BY <1>7 DEF Next, Change, Fetch, FetchFails, ApplySnapshot, LoadFails, vars, hub, tabs
  <2> QED BY <1>1, <2>1
<1> QED BY <1>2, <1>3, <1>4, <1>5, <1>6, <1>7 DEF ReplaceTargets, Announce

LEMMA NoticedAtStart == Init => IInv
<1> SUFFICES ASSUME Init PROVE IInv
  OBVIOUS
<1>1. TypeOK
  BY TypesAtStart
<1>2. line \in [Tabs -> Streams]
  BY <1>1, TypeParts DEF Pages
<1>3. Lines
  <2>1. stage = [s \in Streams |-> IF \E t \in Tabs : line[t] = s THEN "connecting" ELSE "unused"]
    BY DEF Init
  <2> QED BY <1>2, <2>1 DEF Lines
<1>4. Served
  <2>1. call = [p \in Publishers |-> Idle]
    BY DEF Init
  <2> QED BY <2>1 DEF Served, Idle
<1>5. behind = {}
  BY DEF Init
<1> QED BY <1>1, <1>3, <1>4, <1>5 DEF IInv, Left, NoChangeUnnoticed

LEMMA IInvKept == IInv /\ [Next]_vars => IInv'
BY TypesKept, ServedKept, StagesKept, NoticedKept DEF IInv

(* No change is lost on a tab whose stream holds, however many publishers  *)
(* meet at its queue (events.go:36-48). *)
THEOREM NoChangeUnnoticedHolds == Spec => []NoChangeUnnoticed
<1>1. IInv => NoChangeUnnoticed
  BY DEF IInv
<1> QED BY <1>1, NoticedAtStart, IInvKept, PTL DEF Spec

(* -------------------------- publishers come back ----------------------- *)

(* Whom a publisher still has to serve is in the map, and a refresh that   *)
(* has an answer to store is not in Publish. *)
Mapped == \A p \in Publishers : call[p].todo \subseteq Subscribers
Storing == \A p \in Publishers : fetched[p] # {} => call[p].at = "idle"

(* The write lock keeps the handlers in the map while anybody reads it. *)
LEMMA SubscribersStay ==
  ASSUME TypeOK, [Next]_vars, Readers # {}
  PROVE  Subscribers \subseteq Subscribers'
<1>t. stage \in [Streams -> Stages] /\ line \in [Tabs -> Streams]
  BY TypeParts DEF Queues, Pages
<1>1. CASE stage' = stage
  BY <1>1 DEF Subscribers
<1>2. ASSUME NEW s \in Streams, NEW from, NEW to, Move(s, from, to),
             from \in {"open", "writing", "leaving"} => to \in {"open", "writing", "leaving"}
      PROVE  Subscribers \subseteq Subscribers'
  BY <1>2, <1>t DEF Subscribers, Move
<1>3. ASSUME NEW s \in Streams, Serve(s) \/ Receive(s) \/ Notice(s)
      PROVE  Subscribers \subseteq Subscribers'
  BY <1>2, <1>3 DEF Serve, Receive, Notice, Accept, Subscribe, Unsubscribe, Take, Leave
<1>4. ASSUME NEW t \in Tabs, OnEvent(t) PROVE Subscribers \subseteq Subscribers'
  BY <1>2, <1>4, <1>t DEF OnEvent
<1>5. ASSUME NEW t \in Tabs, NEW s \in Streams, Break(t, s) PROVE Subscribers \subseteq Subscribers'
  BY <1>5, <1>t DEF Break, Subscribers
<1>6. CASE ~ \/ \E s \in Streams : Serve(s) \/ Receive(s) \/ Notice(s)
             \/ \E t \in Tabs : OnEvent(t) \/ \E s \in Streams : Break(t, s)
  <2>1. stage' = stage
    BY <1>6 DEF Next, Change, Fetch, FetchFails, ReplaceTargets, Announce, Publish, RLock, Send,
                Drop, Resync, ApplySnapshot, LoadFails, vars, hub
  <2> QED BY <1>1, <2>1
<1> QED BY <1>3, <1>4, <1>5, <1>6

(* A call with the lock gets further by each of its own steps, which leave *)
(* nothing on its list that was not there. *)
LEMMA PublishGetsFurther ==
  ASSUME TypeOK, NEW p \in Publishers, Publish(p), call[p].at = "sending"
  PROVE  Further(call[p], call'[p])
<1>t. /\ call \in [Publishers -> CallType] /\ Orderly(call[p])
  BY TypeParts DEF Calls
<1>1. ASSUME NEW s \in call[p].todo, call'[p] = Remaining(call[p].todo \ {s})
      PROVE  Further(call[p], call'[p])
  <2>1. call'[p].todo = call[p].todo \ {s}
    BY <1>1 DEF Remaining, Idle
  <2> QED BY <1>1, <2>1 DEF Further
<1>2. ASSUME NEW s \in Streams, Send(p, s) PROVE Further(call[p], call'[p])
  <2>1. CASE queue[s] < Capacity
    BY <1>1, <1>2, <1>t, <2>1 DEF Send
  <2>2. CASE ~ queue[s] < Capacity
    <3>1. call[p].full = {} /\ call[p].room = {}
      BY <1>2 DEF Send
    <3>2. call'[p].todo = call[p].todo /\ call'[p].full = {s}
      BY <1>2, <1>t, <2>2 DEF Send, CallType
    <3> QED BY <3>1, <3>2 DEF Further, Selects
  <2> QED BY <2>1, <2>2
<1>3. ASSUME NEW s \in Streams, Drop(p, s) PROVE Further(call[p], call'[p])
  <2>1. s \in call[p].full /\ call'[p].todo = call[p].todo /\ call'[p].full = {} /\ call'[p].room = {s}
    BY <1>3, <1>t DEF Drop
  <2> QED BY <2>1 DEF Further, Selects
<1>4. ASSUME NEW s \in Streams, Resync(p, s) PROVE Further(call[p], call'[p])
  BY <1>1, <1>4, <1>t DEF Resync, Orderly
<1>5. ~ RLock(p)
  BY DEF RLock
<1> QED BY <1>2, <1>3, <1>4, <1>5 DEF Publish

(* Only its own steps move a call. *)
LEMMA OthersKeepCall ==
  ASSUME TypeOK, [Next]_vars, NEW p \in Publishers,
         ~ (ReplaceTargets(p) \/ Announce(p) \/ Publish(p))
  PROVE  call'[p] = call[p]
<1>t. call \in [Publishers -> CallType]
  BY TypeParts DEF Calls
<1>1. ASSUME NEW q \in Publishers, ReplaceTargets(q) \/ Announce(q) \/ Publish(q)
      PROVE  call'[p] = call[p]
  BY <1>1, <1>t DEF ReplaceTargets, Announce, Publish, RLock, Send, Drop, Resync
<1>2. CASE ~ \E q \in Publishers : ReplaceTargets(q) \/ Announce(q) \/ Publish(q)
  BY <1>2 DEF Next, Change, Fetch, FetchFails, Serve, Accept, Subscribe, Unsubscribe, Receive,
              Take, Notice, Leave, OnEvent, ApplySnapshot, LoadFails, Break, vars, hub
<1> QED BY <1>1, <1>2

LEMMA MappedKept == TypeOK /\ Served /\ Mapped /\ [Next]_vars => Mapped'
<1> SUFFICES ASSUME TypeOK, Served, Mapped, [Next]_vars, NEW p \in Publishers
             PROVE  call'[p].todo \subseteq Subscribers'
  BY DEF Mapped
<1>t. call \in [Publishers -> CallType]
  BY TypeParts DEF Calls
<1>1. CASE call'[p].todo \subseteq call[p].todo
  <2>1. CASE call[p].todo = {}
    BY <1>1, <2>1
  <2>2. CASE call[p].todo # {}
    <3>1. Readers # {}
      BY <2>2 DEF Served, Readers
    <3> QED BY <1>1, <3>1, SubscribersStay DEF Mapped
  <2> QED BY <2>1, <2>2
<1>2. CASE RLock(p)
  <2>1. call'[p] = Remaining(Subscribers) /\ stage' = stage
    BY <1>2, <1>t DEF RLock
  <2>2. Remaining(Subscribers).todo = Subscribers
    BY DEF Remaining, Idle
  <2> QED BY <2>1, <2>2 DEF Subscribers
<1>3. CASE ReplaceTargets(p) \/ Announce(p)
  <2>1. call'[p] = Called
    BY <1>3, <1>t DEF ReplaceTargets, Announce
  <2> QED BY <2>1 DEF Called, Idle
<1>4. CASE Publish(p) /\ ~ RLock(p)
  <2>1. call[p].todo # {}
    BY <1>4, TypeParts DEF Publish, Send, Drop, Resync, Calls, Orderly
  <2>2. Further(call[p], call'[p])
    BY <1>4, <2>1, PublishGetsFurther DEF Served
  <2> QED BY <1>1, <2>2 DEF Further
<1>5. CASE ~ (ReplaceTargets(p) \/ Announce(p) \/ Publish(p))
  BY <1>1, <1>5, OthersKeepCall
<1> QED BY <1>2, <1>3, <1>4, <1>5

LEMMA StoringKept == TypeOK /\ Served /\ Storing /\ [Next]_vars => Storing'
<1> SUFFICES ASSUME TypeOK, Served, Storing, [Next]_vars, NEW p \in Publishers, fetched'[p] # {}
             PROVE  call'[p].at = "idle"
  BY DEF Storing
<1>t. fetched \in [Publishers -> SUBSET Versions]
  BY TypeParts DEF Refreshes
<1>1. call[p].at = "idle" /\ ~ ReplaceTargets(p)
  BY <1>t DEF Storing, Next, Change, Fetch, Free, FetchFails, ReplaceTargets, Announce, Publish, Serve,
              Receive, Notice, Rest, OnEvent, ApplySnapshot, LoadFails, Break, vars
<1>2. ~ Publish(p)
  <2>1. ~ RLock(p) /\ call[p].todo = {}
    BY <1>1 DEF RLock, Served
  <2> QED BY <2>1, TypeParts DEF Publish, Send, Drop, Resync, Calls, Orderly
<1>3. ~ Announce(p)
  BY <1>t DEF Announce, Free
<1> QED BY <1>1, <1>2, <1>3, OthersKeepCall

(* Whatever happens to the queues, a publisher with the read lock gets     *)
(* further by each of its steps, and the map keeps whom it has to serve    *)
(* (events.go:33-50). *)
THEOREM PublishProgressesHolds == Spec => PublishProgresses
<1> DEFINE JInv == IInv /\ Mapped /\ Storing
<1>1. Init => JInv
  <2> SUFFICES ASSUME Init PROVE Mapped /\ Storing
    BY NoticedAtStart
  <2>1. \A p \in Publishers : call[p] = Idle
    BY DEF Init
  <2> QED BY <2>1 DEF Mapped, Storing, Idle
<1>2. JInv /\ [Next]_vars => JInv'
  BY IInvKept, MappedKept, StoringKept DEF IInv
<1>3. JInv /\ [Next]_vars =>
        [\A p \in Publishers : call[p].at = "sending" =>
           /\ call'[p] = call[p] \/ Further(call[p], call'[p])
           /\ call[p].todo \subseteq Subscribers']_vars
  <2> SUFFICES ASSUME JInv, [Next]_vars, NEW p \in Publishers, call[p].at = "sending"
               PROVE  /\ call'[p] = call[p] \/ Further(call[p], call'[p])
                      /\ call[p].todo \subseteq Subscribers'
    OBVIOUS
  <2>1. TypeOK /\ Mapped /\ Storing
    BY DEF IInv
  <2>2. call[p].todo \subseteq Subscribers'
    <3>1. Readers # {}
      BY DEF Readers
    <3> QED BY <2>1, <3>1, SubscribersStay DEF Mapped
  <2>3. ~ (ReplaceTargets(p) \/ Announce(p))
    BY <2>1 DEF Storing, ReplaceTargets, Announce, Free
  <2> QED BY <2>1, <2>2, <2>3, PublishGetsFurther, OthersKeepCall
<1> QED BY <1>1, <1>2, <1>3, PTL DEF Spec, PublishProgresses
=============================================================================
