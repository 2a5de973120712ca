------------------------------ MODULE GraphRules ------------------------------
(***************************************************************************)
(* From connections to rules: how a connection becomes a flow              *)
(* (backend/internal/mihomo/models.go), which graphs over the nodes of the *)
(* catalogue may be saved (backend/internal/graph/validator.go), and which *)
(* of them compile, to which rules (backend/internal/compiler/compiler.go).*)
(*                                                                         *)
(* A node is its kind with what it stands for: a device, a flow (the       *)
(* device application: a device, a host and a network), or a target's      *)
(* name.  Names count by their order.  A graph is a set of edges, an edge  *)
(* a pair of nodes; both algorithms look at every edge and every filter,   *)
(* and refuse a graph for the first thing they do not like.                *)
(***************************************************************************)
EXTENDS Naturals

CONSTANTS Devices, Hosts,
          NoHost,        \* no usable host: empty, an address, a single label
          UnsafeHosts,   \* the hosts with a comma or a control character
          Connections,   \* what Mihomo may report
          Targets,       \* the proxies' names
          UnsafeTargets  \* those with a separator of Mihomo's rules

ASSUME HostsAssumption == NoHost \notin Hosts /\ UnsafeHosts \subseteq Hosts
ASSUME TargetsAssumption == Targets \subseteq Nat /\ UnsafeTargets \subseteq Targets
ASSUME ConnectionsAssumption ==
  Connections \subseteq [device : Devices, host : Hosts \cup {NoHost},
                         sniffed : Hosts \cup {NoHost},
                         network : {"tcp", "udp", "quic", "other"},
                         sniffer : {"quic", "other"}]

Networks == {"tcp", "udp", "quic"}
Flow == [device : Devices, host : Hosts, network : Networks]

(* ------------------------------ connections ---------------------------- *)

(* What the sniffer saw goes before what the client asked for. *)
ObservedHost(c) == IF c.sniffed # NoHost THEN c.sniffed ELSE c.host

(* QUIC is what Mihomo calls so, and UDP that was sniffed as QUIC. *)
NormalizeNetwork(c) ==
  IF c.network = "udp" /\ c.sniffer = "quic" THEN "quic" ELSE c.network

(* Mutant: a connection without a host counts too. *)
NormalizeAnyHost(c) ==
  {[device |-> c.device, host |-> ObservedHost(c), network |-> NormalizeNetwork(c)]}

(* The flow of a connection, none if it has no usable host or network. *)
NormalizeConnection(c) ==
  {f \in Flow : /\ f.device = c.device
                /\ f.host = ObservedHost(c)
                /\ f.network = NormalizeNetwork(c)}

(* -------------------------------- graphs ------------------------------- *)

Source(d) == <<"source", d>>
Filter(f) == <<"filter", f>>
Target(t) == <<"target", t>>

(* The catalogue is what was discovered; a graph is over what may be.      *)
Nodes(devices, flows, offered) ==
  {Source(d) : d \in devices} \cup {Filter(f) : f \in flows} \cup {Target(t) : t \in offered}
Node == Nodes(Devices, UNION {NormalizeConnection(c) : c \in Connections}, Targets)
Edge == Node \X Node

Available(nodes, e) == e[1] \in nodes /\ e[2] \in nodes
Enters(e) == e[1][1] = "source" /\ e[2][1] = "filter"
Leaves(e) == e[1][1] = "filter" /\ e[2][1] = "target"
Own(e) == e[1][2] = e[2][2].device

(* Only a device to one of its own flows, and a flow to a target. *)
Valid(e) == (Enters(e) /\ Own(e)) \/ Leaves(e)

(* A graph may be saved.  The kind that is stored with an edge is the one  *)
(* its nodes have. *)
ValidateEdges(nodes, graph) == \A e \in graph : Available(nodes, e) /\ Valid(e)

(* ------------------------------- compiling ----------------------------- *)

Filters(graph) == {n \in {e[1] : e \in graph} \cup {e[2] : e \in graph} : n[1] = "filter"}
Into(graph, n) == {e \in graph : e[2] = n}
OutOf(graph, n) == {e \in graph : e[1] = n}
Single(S) == \E x \in S : S = {x}

(* What can be written into a rule: a host, and a target's name. *)
SafeMatch(f) == f.host \notin UnsafeHosts
SafeName(t) == t \notin UnsafeTargets

(* A filter that is wired to one device and one target, and makes a rule.  *)
CompilesFilter(graph, n) ==
  /\ Single(Into(graph, n)) /\ Single(OutOf(graph, n))
  /\ \A e \in Into(graph, n) : Own(e)
  /\ SafeMatch(n[2])
  /\ \A e \in OutOf(graph, n) : SafeName(e[2][2])

(* Mutant: the target's name is taken as it is. *)
CompilesAnyTarget(nodes, graph) ==
  /\ \A e \in graph : Available(nodes, e) /\ (Enters(e) \/ Leaves(e))
  /\ \A n \in Filters(graph) : /\ Single(Into(graph, n)) /\ Single(OutOf(graph, n))
                               /\ \A e \in Into(graph, n) : Own(e)

(* Mutant: nor is the owner compared when compiling. *)
CompilesForeign(nodes, graph) ==
  /\ \A e \in graph : Available(nodes, e) /\ (Enters(e) \/ Leaves(e))
  /\ \A n \in Filters(graph) : /\ Single(Into(graph, n)) /\ Single(OutOf(graph, n))
                               /\ \A e \in OutOf(graph, n) : e[2][2] \notin UnsafeTargets

(* A graph compiles. *)
Compiles(nodes, graph) ==
  /\ \A e \in graph : Available(nodes, e) /\ (Enters(e) \/ Leaves(e))
  /\ \A n \in Filters(graph) : CompilesFilter(graph, n)

(* The match of a rule: the address of the device, and the host.           *)
Match(f) == <<f.device, f.host>>
WiredTo(graph, t) == {f \in Flow : <<Filter(f), Target(t)>> \in graph}

(* Every target has one provider, whose payload is a set of rules: what    *)
(* two flows have in common is in it once. *)
CompiledTargets(graph) == {t \in Targets : WiredTo(graph, t) # {}}
Payload(graph, t) == {Match(f) : f \in WiredTo(graph, t)}
=============================================================================
