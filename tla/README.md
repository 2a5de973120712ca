# FlowCanvas: models, checks and proofs

FlowCanvas (`luci-app-flowcanvas`) is a daemon for OpenWrt routers. It watches
the connections of Mihomo, keeps a history of them in SQLite, shows devices,
observed applications and proxies as a graph in the browser, and compiles the
edges a user draws into rules that it merges into Mihomo's configuration file.
This directory holds TLA+ models of the parts where order, concurrency and
failure matter, TLC configurations that check them on small instances, and
TLAPS proofs for every instance. `PROJECT.json` lists components, runs,
mutants, theorems, findings and hazards, and maps each definition to the lines
it models. Paths below are relative to `backend/internal/` unless they say
otherwise.

## 1. Inventory

| Part | State | Operations | What is hard about it |
|---|---|---|---|
| Compilation service (`compiler/applier.go`) | `applyMu`; the Mihomo configuration file and one backup per record; what Mihomo runs | `Validate`, `Apply` | nine steps that may fail, failure handling that may fail, a deadline that is itself a failure, crash between two steps, other writers of the file |
| Audit store (`store/compilation.go`) | `compilation_revisions`, `compilation_rollbacks` | create, complete | a completion that took effect may be reported as an error |
| Watcher (`mihomo/watcher.go`) | `activeByID` | `handleSnapshot`, reconnect | snapshots while the daemon stops |
| Event writer (`telemetry/event_writer.go`) | channel, overflow map, batch | `ApplyFeatureEvents`, `Run` | two goroutines, queue at its limit, order through the overflow map, shutdown during a flush |
| Feature store (`store/runtime.go`) | samples, device applications, applications, devices | apply a batch, startup cleanup | derived counters, connections that change identity, rollback, restart |
| Topology store (`store/topology.go`) | device states | `UpsertTopologyDevices` | derives from counters that may be stale |
| Canvas store (`store/store.go`) | canvas revision, nodes, edges | load, save | a load is three statements outside a transaction |
| API (`api/server.go`) | none of its own | canvas, compilation, discovery and event handlers | read, compare, then act |
| Page (`frontend/src/components/FlowCanvas.tsx`, `api/client.ts`) | snapshot, draft, preview | reload, edit, save, preview, apply | answers in any order, reloads while the user edits |
| Daemon (`cmd/flowcanvasd/main.go`) | context, worker group | start, stop, respawn by procd | what is in memory when it goes down |
| Event hub (`api/events.go`) | a bounded queue per subscriber, a lock | publish, subscribe, serve, unsubscribe | concurrent publishers at a full queue, streams that break, readers that must not wait for a slow one |
| Proxy refresher and catalogue (`telemetry/proxy_refresher.go`, `live_catalog.go`) | the targets | periodic and manual refresh, snapshot | two refreshes race, the older may win |
| Topology refresher (`topology/*`) | none | read ARP and leases, store | what is stored was read earlier |
| Compiler, merge, validator (`compiler/compiler.go`, `config_merge.go`, `graph/validator.go`) | none | functions of the graph, the catalogue and the file | two sets of conditions for one graph, a catalogue that moves on, order of rules, what is whose in the file |
| LuCI bridge, config parsing, packaging | none | | text handling; not modelled |

How they interact: the watcher's goroutine calls the writer, which queues; the
writer's goroutine calls the feature store and, after a change, publishes to
the event hub; the page reloads on an event (or every ten seconds under LuCI,
where the bridge carries no event stream). Every API request runs in a
goroutine of its own. SQLite, the configuration file and Mihomo are shared by
all of them and survive the daemon; everything else is lost when it goes down.

## 2. Modules

```
ConfigCustody               SampleTable
 (abstract)                  (abstract)
     ^                      ^          ^
 implements          relies on      implements
     |                      |          |                                          GraphRules   Ordering
CompileApply      FeatureWriter   FeatureStore   CanvasSessions   EventHub             |          |
     |                 |               |               |              |                RulePipeline
     |                 |               |               |           LiveSync                |
     |                 |               |               |              |                    |
       ...Props, each extended by ...Proofs, and by MCCanvasSessions and MCRulePipeline for TLC
```

A component's module has its state, one action per step of the code, and the
specification; `...Props` has the type invariant, the properties, and a
statement of a doc or comment that turns out not to hold; `...Proofs` the
theorems; `MC...` the symmetry sets and the records that a configuration cannot
write. Definitions whose comment starts with "Mutant" are wrong versions of the definition after them; a property is of use
only if such a change makes it fail.

### CompileApply

One process per API request. The labels of `pc` are the calls of `Apply` in
their order; each action is one call with its outcomes. A configuration is a
pair: what the user wrote in the file (a version) and FlowCanvas' overlay in
it (the canvas revision it was compiled from). `Written` is `atomicWriteFile`,
which can report an error after the rename took effect; `Reloaded` is `PUT
/configs`, which can take effect without an answer; `Completed` is an UPDATE
with a read-back that may fail on its own. `expired` is the request's context:
both the operation's timeout and the browser's disconnect set it, and the
failure handling keeps using it. The environment crashes the daemon, restarts
Mihomo, edits the file and saves the canvas. Two levels of deadline (30 s of
the API, 15 s of the operation) are one flag, and the compiler is a choice of
whether the graph compiles.

### ConfigCustody

What a user of `Apply` may rely on, without its steps: at any time at most one
custodian of the overlay, which may install its own overlay, put the prior one
back, and declare itself applied or restored only while that is what Mihomo
runs. `CompileApplyProps!Abstract` maps the detailed state to it (`CustodyKept`).

### FeatureWriter

The watcher puts the events of a snapshot one by one (`Enqueue`, or `Spill`
when the channel is full) while the writer receives, ticks, drains and applies.
A batch is kept as what `coalesceEvents` will make of it: the last kind per id.
`Drain` and `Apply` are two steps because the overflow map is emptied before the
transaction, and so are the final drains. `FinalDrain` lets events be put while
it runs: what the watcher puts during the drain may or may not be in it, since
those that come later are simply in the queue when the daemon goes down.
A SQLite transaction is one step here; FeatureStore opens it up, and
SampleTable is the contract between the two. `spilled` is a history variable:
the connections whose newest event went through the overflow map, or that still
have one in it. They are what the properties except, for the code gives them no
order (`writer_newest`); the first event of such a connection that is queued
again ends the exception.

### FeatureStore

The transaction of a batch, statement group by statement group, on a copy of
the tables (`work`) that replaces the committed ones (`db`) at `Commit`.
Devices, applications and networks make up a flow (a row of
`device_applications`). A connection id may be observed with another flow than
before, which happens when Mihomo sniffs the protocol late or reuses an id, and
this is the one case in which a counter or a state goes stale until its next
recount: the history fields `leftFlows` and `leftApps` hold the flows and
applications in that situation, and `DerivedAgree` says that nothing else is
ever inexact.

### SampleTable

What `connection_samples` promises to the one who hands over batches: a batch
takes effect on all its connections at once, or on none and then the service
ends with it; and the service starts again with no sample open. FeatureStore
implements it (`BatchesAtomic`): the batch in hand is the argument of
`ApplyFeatureEvents` (`batch`), the table is the committed one, and every
statement in between is a stutter. FeatureWriter is the other side
(`TableUsed`): its one-step transactions, its failures, its two flushes and the
restart are steps of SampleTable as well, so the properties of the writer rest
on nothing that the store does not give it.

### CanvasSessions

Tabs with a reload slot and a click slot; a request goes through the server's
statements (`first`, `second` of a load, the save's `transaction`, `compiled`)
and its answer arrives at the tab as a step of its own. `base` and `history`
are history variables for the properties. Concurrent reloads of one tab are one
slot; a click's own reloads (after a save, an apply or a conflict) run beside
it, so answers do arrive out of order. `Compilers` are the tabs whose user
previews and applies; any tab edits and saves.

### EventHub and LiveSync

`EventHub` is `Publish` under the read lock, one subscriber after the other, and
the handler of a stream, which takes the write lock to enter and to leave the
map. The three selects of a full queue (`Send`, `Drop`, `Resync`) are steps of
their own: the handler takes events without the lock, and other publishers hold
it as well. A `sync.RWMutex` keeps readers out as soon as a writer waits
(`Writers`), so a handler that leaves also keeps the next publisher waiting
until the present ones are done.

`LiveSync` composes it with what is announced and with who listens: Mihomo's
proxies change, refreshes fetch them and store their answers in any order, and
a tab answers each event with a load whose answer arrives in any order. Versions
of the proxies stand for their contents. A stream may break at any time; the
browser opens another, and nothing is loaded then, although the comment in
`client.ts:115` calls for it. Every other announcement (saves, applies, batches
of the writer, the topology, the second one of a manual refresh) is `Announce`.
`behind` is a history variable: the streams whose tabs have not read the
catalogue since it was last stored.

### GraphRules and RulePipeline

`GraphRules` has no state: which connections make a flow, which graphs may be
saved, which compile, and to what. Hosts and proxies' names are model values, some of
which contain a separator of Mihomo's rules; names of targets are numbers, since
the compiler sorts by them. Both algorithms stop at the first thing they do not
like, so acceptance is a conjunction over edges and filters.

`RulePipeline` is the life of an intent: discovery, save, apply, and the user's
edits of the same file. An apply is one step here (its failures are
CompileApply's), and a save is one step too (its races are CanvasSessions').
`file` has the providers with their payloads and the sequence of rules; a user's
rule is one that takes everything that reaches it, which makes order matter most.
`shaped` is false while the user's file has a rules or rule-providers node of
the wrong kind. `own` is a history variable with what the user wrote.
What Mihomo does with the file (`Takes`, `Route`) is external and stands with
the properties. `Ordering` puts the elements of a finite set of numbers in
order by their ranks, as the compiler does with its targets and the merge with
the lines it keeps: an order without recursion, which can be proved about.

## 3. Runs

| Run | Instance | Shows |
|---|---|---|
| `apply_safety` | 2 requests, 1 save, 1 edit, 1 crash, SQLite may fail, fair | types, `ApplyInv`, `AuditAgrees`, `ReplacedIsBackedUp`, refinement (`CustodyKept`), `RequestsEnd` |
| `writer` | 2 connections, queue 1, batch 2, 1 restart, transactions fail, fair | types and bounds, `DirectPathInOrder`, refinement (`TableUsed`), `SamplesFollowSnapshots` |
| `store_safety` | 2 connections, 2 devices, 2 applications, 1 network | types, `DerivedAgree`, `DeviceActiveWhileOpen`, `RestartRepairs`, refinement (`BatchesAtomic`) |
| `canvas_safety` | 2 tabs that save, 1 edge, 2 revisions, failures | types, `CurrentETagMeansCurrentGraph`, `NoSilentOverwrite` |
| `canvas_liveness` | 2 tabs, one of which compiles too, 1 edge, 1 revision, fair | `CompiledGraphNotOlder`, `TabsConverge` |
| `live_sync` | 2 publishers, 1 tab, 2 streams, queue 1, 1 change, 1 mishap, fair | types and bounds, `NoChangeUnnoticed`, `PublishProgresses`, `PublisherNotBlocked`, `TabsFollow` |
| `rules` | 2 devices, one with connections, 2 hosts, 4 connections, 3 targets, 1 user rule and provider, 2 flows, 4 edges, 1 edit | types, `OnlyTargetsGoMissing`, `NotLaxer`, `CandidateValid`, `UserPartKept`, `AppliesForget`, `RoutedAsIntended` |

Why the bounds are enough: a second request, tab or connection is what every
interleaving here needs, since all of them meet in one lock, one file, one queue
or one row; a queue of 1 or 2 is full at once; one crash or restart separates
every pair of steps. One save gives the two requests of `apply_safety` different
overlays. `canvas_safety` has two saves, since the second is the first that can
overwrite another tab's; for a torn load, a compilation or an old answer one is
enough. Two connections let one stay in a flow that the other leaves or closes.
`writer` has a queue of 1, so that the batch of 2 spans what was queued and what
was spilled; longer queues are in the theorem. In `live_sync` a queue of 1 is full with one event (the
code's holds 256), two publishers are what makes a resync event find it full
again, the second stream is the one after the first has broken, and one mishap
(`MaxMishaps`) is a broken stream, a failed fetch or a failed load; `MaxLoads`
bounds the loads of a tab that read the same version and `MaxVersion` the changes of Mihomo.
In `rules` the two flows (`MaxFlows`) may be any two of the three that the
connections make: one device and host over two networks, or a host with a comma;
the second device is only discovered, so that its edges to the flows of the first are drawn. Four
edges (`MaxEdges`) wire both flows completely, one of the three targets has a
name with a separator, and one edit (`MaxEdits`) comes before, between or after
two applies.
For everything but liveness and the statements that fail, the proofs of section 5
remove the bounds altogether.

Deadlock is checked in every run. No model may stop: something of the
environment (a Mihomo restart, a snapshot, a topology refresh, a tab's edit or
reload) is always possible.

### Statements the code does not keep

Each of these runs checks one statement of a doc, comment or text of the page and ends
with a trace that violates it (details and quotes in `PROJECT.json`, findings).

| Run | Statement | What happens |
|---|---|---|
| `apply_restore` | failure restores the configuration | a failure of the last audit update does not |
| `writer_newest` | the newest event of a connection is kept | the overflow map overtakes the channel |
| `store_stale` | no stale counts when ids are reused | the previous flow is recounted too early |
| `canvas_draft` | the draft lasts until it is saved | a reload replaces it |
| `rules_choice` | no target is chosen by the order of the rules | two networks of one device and host share their rule |

The models also have, and the properties above allow for, behaviours that no
run singles out: the record of an expired request stays a draft, because it
would be completed with the expired context; an apply that waited for the lock
may install a canvas that is no longer the current one; an edit of the file by
another tool between Apply's read and write is overwritten; a batch that is
being applied when the daemon stops is lost until the restart makes up for it;
a connection that opens and closes within one batch leaves no sample; what is
announced while a stream is broken is never delivered, and the tab is behind
until the next periodic refresh; a graph whose target Mihomo has dropped
does not compile and can only be saved without that edge, which the page sends
again with every save although there is no node left to draw it to.

## 4. Fairness

`CompileApply`: weak fairness of every request's own steps. A goroutine that can
run runs, every call returns (the Mihomo client has a timeout, SQLite and file
calls end), and `sync.Mutex` hands the lock to a waiter that has waited long.
A request waits for the lock only while another is between Lock and Unlock,
and crashes are bounded, so weak fairness of `Lock` suffices.

`FeatureWriter`: weak fairness of putting and of the writer's straight line code,
strong fairness of the two cases of the select (it picks at random among the ready ones,
so a case that is ready again and again is taken) and of the watcher's return
at shutdown (between two snapshots, again and again). Nothing makes a snapshot
arrive, a transaction fail or the daemon stop; procd does respawn.

`CanvasSessions`: a tab reloads again and again, and requests are served and
answered. Nothing makes a user edit or click.

`LiveSync`: the ticker of the periodic refresh fetches again and again, fetched
answers are stored, publishers and handlers go on, loads are answered, the
browser reconnects. Strong fairness of `Receive`: a handler that waits in its
select has the event handed over by the send itself, before another publisher
can throw it away, so a queue that is full and empty in turn does not starve it.
Nothing makes a user refresh, an announcement happen, or Mihomo change. The
periodic refresh succeeds again and again because failures are bounded
(`MaxMishaps`): while Mihomo does not answer, a tab that missed an event stays
behind. In demo mode there is no periodic refresh at all.

## 5. Proofs

`CompileApplyProofs` (for any set of requests and any bounds; assumptions:
`Nobody` is no request, `NoFile` is no contents, the types of the other
constants). The inductive invariant is `TypeOK /\ ApplyInv /\ AuditAgrees`.
Types alone are not inductive: the writes of the file write `original[r]`, which is a
configuration only because `Custody` says that it was read; `Custody` needs
`Mutex`, or another request could change the file in between; `AuditAgrees`
needs `Progress`, which says what the two rows are when a step completes them.
The action property `ReplacedIsBackedUp` needs both: `Custody` has the file as it
was read, later edits of the user's part aside, until the candidate is written;
`Progress` has the backup equal to what was read, and no rollback row before the
backup is complete, so that no step writes a backup that a row names.
Theorems: `TypeCorrect`, `ApplyInvariant`, `AuditConsistent`, `Recoverable`
(`Spec => ReplacedIsBackedUp`), and
`CustodyImplemented`: the initial states map to initial states of ConfigCustody
and every step to one of its steps or a stutter.

`FeatureWriterProofs` (any connections, any queue capacity and batch size of at least
1): `TypeCorrect`, which has the two bounds in it, and `DirectPathCorrect`. The
inductive invariant adds to `DirectPathInOrder` that only spilled connections
have an overflow entry, so that draining the overflow leaves the batch of the
others alone, that what the watcher still holds is its last report, so that a
spilled connection is in order again when one of its events is queued, and that a
daemon that is down has no memory, so that the restart, which closes every open
sample, starts from an agreement. `TableUsedHolds`
uses the same invariant and maps each action to the step of SampleTable it is,
or to a stutter.

`FeatureStoreProofs` (any finite set of connections, any devices, applications and
networks; `NoRow` is no flow): `TypeCorrect`, `DerivedCorrect`,
`DevicesCorrect` and `RestartCorrect`. `Agree` says what a copy of the tables
satisfies while a set of flows and applications waits for its recount; the
invariant has it for the committed tables with nothing waiting and for the open
transaction with the code's affected sets, so that `Commit` may replace the one by
the other. It needs three more facts: an affected flow's application is
affected too (or its recount would leave the application wrong); a flow with an
open sample has a positive counter even when the counter is stale (or the
topology refresh could drop its device); and during the startup cleanup every flow
outside the affected set is exact, left or not. `BatchesAtomicHolds` is the
refinement of SampleTable. Its invariant, `Atomic`, follows the open transaction:
for each connection the working copy has what its event makes of the committed
sample if the event is done, and the committed sample if it is still pending
(`Due`; the startup cleanup is a batch that closes everything). That a batch has one event for each connection is part of it: without
it two events of a connection, taken in any order, would not be one effect. So
this is also where the store relies on `coalesceEvents`.

`CanvasSessionsProofs` (any tabs, edges and number of saves; `Nothing` is no
revision): `TypeCorrect`, `ETagCorrect`, `CompilationsCorrect` and
`NothingOverwritten`. `TabOK` is what the invariant says of one tab, as an
operator on the tab's values and the canvas: the tabs that a step does not move
keep it by congruence, and the one step that changes the canvas under them, a
save, is a lemma of its own (`NewRevision`). The strengthening is that the
properties already hold of a load on its way, and that a load that has
read only the revision has not read a future one.

`LiveSyncProofs` (any publishers, streams and tabs, any capacity of at least 1;
an injection of the tabs into the streams exists): `TypesHold`, and
`NoChangeUnnoticedHolds`. That every tab behind has an event or a publisher on
its way is inductive with three facts: the stream of a tab is not one that its
handler gives up (`Lines`), or its queue could be lost with the handler; only a
subscriber can be behind (`Left`), or a stream that connects later could be; and
a publisher that is not sending has nobody left to serve (`Served`).
`PublishKeepsNoticed` is the core: whoever throws an event away still owes that
subscriber a resync, and finds the queue full again only because of another event.
`PublishProgressesHolds` is the part of `PublisherNotBlocked` that needs no fairness:
a publisher with the lock gets further by each of its own steps, and nobody
else moves it back. It adds two facts to the invariant: whom a
sending publisher has still to serve is in the map (`Mapped`), since handlers leave
under the write lock; and a refresh that has an answer to store is not in
`Publish` (`Storing`), so that storing it interrupts no call.

`RulePipelineProofs` (any devices, hosts, connections, targets and bounds; the
user's rules are finitely many): `TypesHold`, `NotLaxerHolds` (a lemma about the
two pure algorithms for every catalogue and graph, `CompilerNotLaxer`) and
`OnlyTargetsGoMissingHolds`, whose argument is that devices and flows are never
deleted (`CatalogueGrows`) and that a flow brings its device with it.

The other four are about the file, whose list of rules has any length. Their core
is `MergedRules`: after a merge the first lines are FlowCanvas', one for every
target that is wired and no other (`OverlayFirst`), and the lines of the user
follow, the same ones in the same order. `OrderingProofs` carries it: the rank
of an element is the number of elements up to it, ranks of a finite set are
1..n, so that picking by rank lists all of it, once, and an interval is in
order already, so that lines behind n others stay as they were. From it:
`CandidateValidHolds` (what compiles has safe names, so the last validation can
refuse only the shape of the user's own file), `UserPartKeptHolds` (any
alternation of applies and edits), `AppliesForgetHolds` (a merge depends on the
user's part and on the graph alone, `MergeForgets`) and `RoutedAsIntendedHolds`
(the first line that takes a flow is FlowCanvas' exactly when a flow with the
same match is wired, `RouteAfterApply`). The invariant they need is `TypeOK`:
that the file is a file (`FileOK`) and the graph finite.

Only model-checked: liveness (`RequestsEnd`, `SamplesFollowSnapshots`,
`TabsConverge`, `PublisherNotBlocked`, `TabsFollow`), which is out of the
prover's reach. Every invariant, action property and refinement of a passing
run is a theorem.

## 6. Not modelled

Formatting, parsing and wording everywhere; timestamps and byte counters; the
reconnect backoff (real time); demo mode; HTTP shutdown; the names and MAC
addresses that the topology refresher reads, while what it stores is any set of
devices at any time in FeatureStore. SQLite's own locking is represented by
transactions that may fail: `busy_timeout` is set on one pooled connection only,
and what a BUSY stops is in `FeatureWriter` as a failing transaction, but which
interleavings make SQLite answer BUSY is not. One conversion is known to
go wrong and is left to a unit test: `sourceCIDR` gives an IPv4-mapped IPv6
address the length of an IPv6 prefix, which Mihomo would refuse. The
parts without a module are in `PROJECT.json` with the reason.

## 7. What could come next

1. `StoreContention`: deferred transactions, one writer, BUSY at the upgrade,
   the settings of the pooled connections, and what a BUSY stops.
2. The topology refresher's two files and its clock: hostnames that outlive the
   machine that had them, and devices that stay active when the clock is set back.
3. A recovery of drafts and backups at startup, if the code gets one.
