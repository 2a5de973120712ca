-------------------------- MODULE RulePipelineProps --------------------------
(***************************************************************************)
(* What an intent must become, what must be left alone, and a statement of *)
(* the design that does not hold.                                          *)
(***************************************************************************)
EXTENDS RulePipeline

(* The types.  A provider or a line is FlowCanvas' or the user's, and a    *)
(* provider holds matches. *)
Item == {Managed(t) : t \in Targets} \cup {User(x) : x \in UserRules \cup UserProviders}
FileOK ==
  /\ file = [providers |-> file.providers, rules |-> file.rules, shaped |-> file.shaped]
  /\ file.providers \in [DOMAIN file.providers -> SUBSET (Devices \X Hosts)]
  /\ DOMAIN file.providers \subseteq Item
  /\ file.rules \in Seq(Item)
  /\ file.shaped \in BOOLEAN
TypeOK ==
  /\ devices \subseteq Devices
  /\ flows \subseteq Flow
  /\ offered \subseteq Targets
  /\ graph \subseteq Edge
  /\ IsFiniteSet(graph)
  /\ FileOK
  /\ own \in [providers : SUBSET Item, rules : Seq(Item)]
  /\ edits \in 0..MaxEdits

(* What was valid when it was saved stays so, whatever is discovered later *)
(* (validator.go:33-85, live_catalog.go:33-111): a saved graph never has   *)
(* an edge that the compiler refuses for its direction or its owner, and   *)
(* the only thing that may go missing is a target that Mihomo drops. *)
OnlyTargetsGoMissing ==
  \A e \in graph : Valid(e) /\ e[1] \in Catalogue /\ (e[2] \in Catalogue \/ Leaves(e))

(* The compiler is never laxer than the save (phase-3-compiler-design.md   *)
(* :27): what it compiles could have been saved, here for every graph that *)
(* is one edge away from a saved one. *)
NotLaxer ==
  \A e \in Edge : LET g == graph \cup {e}
                  IN  Compiles(Catalogue, g) => ValidateEdges(Catalogue, g)

(* The last validation of an apply never fails for what FlowCanvas itself  *)
(* put into the file (config_merge.go:46-97, compiler.go:244-254): when    *)
(* the graph compiles and the user's file has its shape, it is accepted. *)
CandidateValid ==
  Compiles(Catalogue, graph) /\ file.shaped
    => ValidateManagedConfiguration(MergeManagedOverlay(file, graph))

(* What the user wrote is never lost, reordered or doubled                 *)
(* (phase-3-compiler-design.md:48-50), however applies and edits alternate.*)
UserPartKept ==
  /\ UsersRules(file.rules) = own.rules
  /\ {p \in DOMAIN file.providers : IsUsers(p)} = own.providers

(* An apply leaves nothing of the applies before it (config_merge.go       *)
(* :99-138): apply the graph, take an edge away and apply again, and the   *)
(* file is the one that the smaller graph alone would have given, with no  *)
(* line or provider of a target that is no longer wired, and none twice. *)
AppliesForget ==
  LET applied == MergeManagedOverlay(file, graph)
  IN  \A g \in {graph \ {e} : e \in graph} :
        MergeManagedOverlay(applied, g) = MergeManagedOverlay(file, g)

(* ----------------------- what Mihomo does (external) ------------------- *)

(* The first rule that takes a flow; a RULE-SET takes what its provider    *)
(* matches, and a host with a separator ends there. *)
Takes(f, item, flow) ==
  \/ IsUsers(item)
  \/ item \in DOMAIN f.providers /\ Match(flow) \in f.providers[item]
       /\ flow.host \notin UnsafeHosts
Route(f, flow) ==
  LET taking == {i \in DOMAIN f.rules : Takes(f, f.rules[i], flow)}
  IN  IF taking = {} THEN <<"none">> ELSE f.rules[Min(taking)]

Alike(f, h) == f.device = h.device /\ f.host = h.host
Wired(flow, t) == flow \in WiredTo(graph, t)

(* An apply routes every flow as it is wired, and takes no flow that is    *)
(* not: neither a rule of the user, nor one that an earlier apply left     *)
(* behind, nor the order of the targets' names changes that                *)
(* (config_merge.go:120-138) - unless flows with the same rule are wired   *)
(* to different targets. *)
RoutedAsIntended ==
  [][Apply => \A f \in flows :
       /\ \A t \in Targets :
            Wired(f, t) /\ (\A h \in flows, u \in Targets : Alike(f, h) /\ Wired(h, u) => u = t)
              => Route(file', f) = Managed(t)
       /\ (\A h \in flows, u \in Targets : Alike(f, h) => ~Wired(h, u))
            => ~IsManaged(Route(file', f))]_vars

(* mihomo-config-api.md:43: FlowCanvas refuses an ambiguity between        *)
(* targets, it never picks one of them by the order of the rules.  So what *)
(* an apply accepts goes where it is wired. *)
NoSilentChoice ==
  [][Apply => \A f \in flows, t \in Targets : Wired(f, t) => Route(file', f) = Managed(t)]_vars
=============================================================================
