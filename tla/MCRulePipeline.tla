---------------------------- MODULE MCRulePipeline ----------------------------
(* Model checking of RulePipeline: a device that reaches a host over TCP    *)
(* and, sniffed from UDP, over QUIC; a host with a comma in its name; and a *)
(* connection without a host.                                               *)
EXTENDS RulePipelineProps

CONSTANTS d1, h1, h2

Connection(host, sniffed, network, sniffer) ==
  [device |-> d1, host |-> host, sniffed |-> sniffed, network |-> network, sniffer |-> sniffer]
TwoNetworks == {Connection(h1, NoHost, "tcp", "other"), Connection(NoHost, h1, "udp", "quic")}
AllKinds ==
  TwoNetworks \cup {Connection(NoHost, h2, "quic", "other"), Connection(NoHost, NoHost, "tcp", "other")}
=============================================================================
