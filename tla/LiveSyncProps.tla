---------------------------- MODULE LiveSyncProps ----------------------------
(***************************************************************************)
(* What the events must give the tabs, and what they must not cost the     *)
(* publishers.                                                             *)
(***************************************************************************)
EXTENDS LiveSync

Stages == {"unused", "connecting", "entering", "open", "writing", "leaving", "gone"}
AtMostOne(S) == \A x, y \in S : x = y

(* The types; a publisher serves one subscriber at a time. *)
TypeOK ==
  /\ stage \in [Streams -> Stages]
  /\ queue \in [Streams -> 0..Capacity]
  /\ call \in [Publishers -> [at : {"idle", "waiting", "sending"}, todo : SUBSET Streams,
                              full : SUBSET Streams, room : SUBSET Streams]]
  /\ upstream \in Versions
  /\ catalogue \in Versions
  /\ fetched \in [Publishers -> SUBSET Versions]
  /\ line \in [Tabs -> Streams]
  /\ answers \in [Tabs -> [Versions -> 0..MaxLoads]]
  /\ shown \in [Tabs -> Versions]
  /\ behind \subseteq Streams
  /\ mishaps \in 0..MaxMishaps
  /\ \A p \in Publishers : /\ AtMostOne(call[p].full \cup call[p].room)
                           /\ call[p].full \cup call[p].room \subseteq call[p].todo

(* Publisher p has still to serve stream s. *)
Pending(p, s) == call[p].at = "waiting" \/ (call[p].at = "sending" /\ s \in call[p].todo)

(* No change is lost on a slow tab (events.go:36-48): as long as its       *)
(* stream holds, a tab that has not read the catalogue since it was last   *)
(* stored has an event on its way, or a publisher still to be served by,   *)
(* however publishers, a full queue and the handler interleave and         *)
(* whichever of their events are thrown away. *)
NoChangeUnnoticed ==
  \A t \in Tabs : line[t] \in behind =>
    \/ queue[line[t]] > 0
    \/ stage[line[t]] = "writing"
    \/ \E p \in Publishers : Pending(p, line[t])

(* The selects that a publisher may still need for the subscriber it is    *)
(* serving, and a call that has got further. *)
Selects(c) == IF c.full # {} THEN 2 ELSE IF c.room # {} THEN 1 ELSE 3
Further(c, d) == \/ d.todo \subseteq c.todo /\ d.todo # c.todo
                 \/ d.todo = c.todo /\ Selects(d) < Selects(c)

(* A publisher with the read lock needs at most three selects for each     *)
(* subscriber, whatever the handlers and the other publishers do to the    *)
(* queues between two of them, and whom it still has to serve stays in the *)
(* map until then (events.go:33-50): no queue that is filled again and     *)
(* again, and no tab, can keep it in the lock. *)
PublishProgresses ==
  [][\A p \in Publishers : call[p].at = "sending" =>
       /\ call'[p] = call[p] \/ Further(call[p], call'[p])
       /\ call[p].todo \subseteq Subscribers']_vars

(* A slow or broken stream never blocks a publisher (events.go:37): every  *)
(* refresh that has stored its answer comes back from Publish. *)
PublisherNotBlocked ==
  \A p \in Publishers : (call[p].at # "idle") ~> (call[p].at = "idle")

(* The tabs follow Mihomo (docs/phase-2-realtime-sync.md:75): once its     *)
(* proxies no longer change (there are at most MaxVersion changes), every  *)
(* tab shows them for good, although an older answer may be stored or      *)
(* shown last and the events sent while a stream was broken are lost       *)
(* (proxy_refresher.go:38, client.ts:110-116).  What heals is the next     *)
(* periodic refresh, which is announced even when nothing has changed. *)
TabsFollow ==
  <>[](\A t \in Tabs : shown[t] = upstream)
=============================================================================
