-------------------------- MODULE MCNetworkStack ---------------------------
(* An instance of NetworkStack for TLC. The network may send the server's  *)
(* offer, an answer that offers nothing, a datagram of a neighbour for the *)
(* test program, an answer to another machine, and questions for this      *)
(* machine's address and for another one, which ask about the hardware     *)
(* address 0 as such questions do. The first byte of this machine's is 0.  *)
EXTENDS NetworkStack

ASSUME StackAssumption == NetworkAssumption

MacBytes == [b \in 0..5 |-> b]
Udp(to, from, port, data) ==
  [type |-> "udp", to |-> to, from |-> from, src |-> from, port |-> port, data |-> data]
Arp(target) ==
  [type |-> "arp", to |-> "all", from |-> "peer", opcode |-> "request", hw |-> 0, target |-> target]

Offer == Udp("us", "server", DhcpPort, "a")
Mixed == {Offer, Udp("all", "peer", DhcpPort, NoAddress), Udp("us", "peer", ClientPort, "x"),
          Udp("other", "server", DhcpPort, "c"), Arp("a"), Arp("b")}
=============================================================================
