----------------------------- MODULE RulePipeline -----------------------------
(***************************************************************************)
(* What becomes of an intent: the flows and targets are discovered, wired  *)
(* on the canvas, saved, compiled and merged into the Mihomo configuration *)
(* (backend/internal/compiler/config_merge.go, and GraphRules).  The       *)
(* catalogue moves on between the save and the apply, and the user edits   *)
(* the same configuration file.                                            *)
(*                                                                         *)
(* An apply is one step here: its failures, the rollback and the races are *)
(* CompileApply's, those of loads and saves CanvasSessions'.               *)
(***************************************************************************)
EXTENDS GraphRules, Ordering, SequencesExt

CONSTANTS UserRules,     \* the rules of the user; each of them takes all
          UserProviders, \* that reaches it
          MaxFlows,      \* bound on the flows that are recorded
          MaxEdges,      \* bound on the size of the graph
          MaxEdits       \* bound on the user's edits of the file

ASSUME PipelineBounds == MaxFlows \in Nat /\ MaxEdges \in Nat /\ MaxEdits \in Nat
ASSUME FileIsFinite == IsFiniteSet(UserRules)

VARIABLES
  devices,  \* the devices that are known
  flows,    \* the device applications
  offered,  \* LiveCatalog.targets
  graph,    \* canvas_edges
  file,     \* the configuration file: rule-providers, rules, and whether
            \* these are what they should be
  own,      \* history: the rules and providers that the user wrote
  edits

discovered == <<devices, flows, offered>>
vars == <<discovered, graph, file, own, edits>>

Catalogue == Nodes(devices, flows, offered)

(* A provider or a RULE-SET line is FlowCanvas' by its prefix, and is      *)
(* named after its target; the others are the user's. *)
Managed(t) == <<"flowcanvas", t>>
User(x) == <<"user", x>>
IsManaged(item) == item[1] = "flowcanvas"
IsUsers(item) == item[1] = "user"

(* The lines of the user, in their order. *)
UsersRules(rules) ==
  LET at == InOrder({i \in DOMAIN rules : IsUsers(rules[i])})
  IN  [k \in DOMAIN at |-> rules[at[k]]]

Init ==
  /\ devices = {}
  /\ flows = {}
  /\ offered = {}
  /\ graph = {}
  /\ file = [providers |-> [p \in {User(x) : x \in UserProviders} |-> {}],
             rules |-> SetToSeq({User(u) : u \in UserRules}), shaped |-> TRUE]
  /\ own = [providers |-> DOMAIN file.providers, rules |-> file.rules]
  /\ edits = 0

(* ------------------------------ discovery ------------------------------ *)

(* A connection brings its flow, and its device with it; neither is ever   *)
(* deleted. *)
Observe(c) ==
  /\ flows' = flows \cup NormalizeConnection(c)
  /\ Cardinality(flows') <= MaxFlows
  /\ devices' = devices \cup {f.device : f \in NormalizeConnection(c)}
  /\ UNCHANGED <<offered, graph, file, own, edits>>

(* ARP or DHCP knows a device. *)
Discover(d) ==
  /\ devices' = devices \cup {d}
  /\ UNCHANGED <<flows, offered, graph, file, own, edits>>

(* Mihomo's proxies come and go. *)
ReplaceTargets(targets) ==
  /\ offered' = targets
  /\ UNCHANGED <<devices, flows, graph, file, own, edits>>

(* ------------------------------- the canvas ---------------------------- *)

(* Mutant: what is wired is not validated. *)
SaveUnvalidated(g) ==
  /\ g # graph
  /\ graph' = g
  /\ UNCHANGED <<discovered, file, own, edits>>

(* A save replaces the graph, if it is valid for the catalogue of now. *)
SaveGraph(g) ==
  /\ g # graph
  /\ ValidateEdges(Catalogue, g)
  /\ graph' = g
  /\ UNCHANGED <<discovered, file, own, edits>>

(* ------------------------------- the merge ----------------------------- *)

(* The overlay: its rules go by the names of their targets. *)
OverlayRules(g) ==
  LET targets == InOrder(CompiledTargets(g))
  IN  [k \in DOMAIN targets |-> Managed(targets[k])]
OverlayProviders(g) ==
  [p \in {Managed(t) : t \in CompiledTargets(g)} |-> Payload(g, p[2])]

(* Mutant: all providers are replaced. *)
ReplaceAllProviders(providers, g) == OverlayProviders(g)

ReplaceManagedProviders(providers, g) ==
  LET overlay == OverlayProviders(g)
      kept    == {q \in DOMAIN providers : IsUsers(q)}
  IN  [p \in DOMAIN overlay \cup kept |-> IF p \in kept THEN providers[p] ELSE overlay[p]]

(* Mutant: FlowCanvas' rules go behind the user's. *)
AppendManagedRules(rules, g) == UsersRules(rules) \o OverlayRules(g)

(* Mutant: the lines of an earlier apply stay behind the new ones. *)
KeepManagedRules(rules, g) == OverlayRules(g) \o rules

ReplaceManagedRules(rules, g) == OverlayRules(g) \o UsersRules(rules)

MergeManagedOverlay(f, g) ==
  [f EXCEPT !.providers = ReplaceManagedProviders(@, g), !.rules = ReplaceManagedRules(@, g)]

(* The last look at the candidate: its shape, and FlowCanvas' rules have   *)
(* three parts.  Its checks of FlowCanvas' providers are left out: the     *)
(* merge has just written every one of them anew. *)
ValidateManagedConfiguration(f) ==
  /\ f.shaped
  /\ \A i \in DOMAIN f.rules : IsManaged(f.rules[i]) => f.rules[i][2] \notin UnsafeTargets

Apply ==
  /\ Compiles(Catalogue, graph)
  /\ file.shaped
  /\ ValidateManagedConfiguration(MergeManagedOverlay(file, graph))
  /\ file' = MergeManagedOverlay(file, graph)
  /\ UNCHANGED <<discovered, graph, own, edits>>

(* --------------------------- the user's edits -------------------------- *)

(* An edit of the rules: one of the user's before or behind all others, or *)
(* any one of them away, FlowCanvas' included. *)
Edited(rules) ==
  {<<User(u)>> \o rules : u \in UserRules} \cup {rules \o <<User(u)>> : u \in UserRules}
    \cup {RemoveAt(rules, i) : i \in DOMAIN rules}

Edit ==
  /\ edits < MaxEdits
  /\ edits' = edits + 1
  /\ \/ \E rules \in Edited(file.rules) :
          /\ file' = [file EXCEPT !.rules = rules]
          /\ own' = [own EXCEPT !.rules = UsersRules(rules)]
     \/ \E p \in DOMAIN file.providers :
          /\ file' = [file EXCEPT !.providers = Restrict(@, DOMAIN @ \ {p})]
          /\ own' = [own EXCEPT !.providers = @ \ {p}]
     \/ /\ file' = [file EXCEPT !.shaped = ~@]
        /\ UNCHANGED own
  /\ UNCHANGED <<discovered, graph>>

(* ------------------------------ all of it ------------------------------ *)

(* What is sent is what was loaded with an edge more, or some less. *)
Drafts == {graph \cup {e} : e \in Edge} \cup SUBSET graph

Next == \/ \E c \in Connections : Observe(c)
        \/ \E d \in Devices : Discover(d)
        \/ \E targets \in SUBSET Targets : ReplaceTargets(targets)
        \/ \E g \in Drafts : Cardinality(g) <= MaxEdges /\ SaveGraph(g)
        \/ Apply
        \/ Edit

Spec == Init /\ [][Next]_vars
=============================================================================
