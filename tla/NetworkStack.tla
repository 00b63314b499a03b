---------------------------- MODULE NetworkStack ---------------------------
(***************************************************************************)
(* The network part of a pass of the main loop (src/src/main.c): the DHCP  *)
(* client's look at its first answer, the frames of the batch that the     *)
(* cards' interrupts fill, the packets that the connections want to send,  *)
(* and the test program as a user of connections. Interrupts add frames to *)
(* the batch between any two steps.                                        *)
(*                                                                         *)
(* The machine's own hardware address is "us", broadcast is "all", and an  *)
(* Internet address whose first byte is 0 is NoAddress. The list of        *)
(* connections is a set: what each of them holds does not depend on the    *)
(* order in which they are visited.                                        *)
(***************************************************************************)
EXTENDS Integers, Sequences

CONSTANTS
  Frames,     \* the frames the network may send, see FrameOK
  Clients,    \* running test programs
  Mac,        \* the six bytes of the hardware address
  NoAddress,
  Cap,        \* entries of ethernetPackets (255)
  MaxFrames,  \* bound on the frames that arrive
  MaxWire     \* bound on the packets of the DHCP client when it asks again

DhcpPort == 68
ClientPort == 49152

Owners == Clients \cup {"dhcp"}
Port(o) == IF o = "dhcp" THEN DhcpPort ELSE ClientPort
Ports == {DhcpPort, ClientPort}

(* hw is the byte of which the hardware address an ARP frame asks about    *)
(* consists, or -1 when its bytes differ. Nobody has the broadcast address.*)
FrameOK(f) ==
  /\ \/ f.type = "arp" /\ DOMAIN f = {"type", "to", "from", "opcode", "hw", "target"}
     \/ f.type = "udp" /\ DOMAIN f = {"type", "to", "from", "src", "port", "data"}
  /\ f.from # "all"

NetworkAssumption ==
  /\ \A f \in Frames : FrameOK(f)
  /\ Mac \in [0..5 -> 0..255] /\ Cap \in Nat \ {0}
  /\ MaxFrames \in Nat /\ MaxWire \in Nat
  /\ "dhcp" \notin Clients

VARIABLES
  batch,        \* ethernetPackets up to its counter
  i,            \* the index of the loop over it
  phase,        \* the part of the main loop's pass
  open,         \* connections: those whose connection is in the list
  received, send,  \* the two lists of packets of each connection
  dhcp,         \* whether dhcpConnection is open
  ip, router,   \* the address taken and the hardware address packets go to
  client,       \* what each test program waits for
  arrived,      \* history: how many frames have arrived
  taken,        \* history: the datagrams for a port that connections took
  sent,         \* history: what each connection has given to sendPacket
  replies       \* history: the different answers to ARP questions

stack == <<open, received, send, dhcp, ip, router>>
history == <<arrived, taken, sent, replies>>
vars == <<batch, i, phase, stack, client, history>>

Packet(dst, data) == [dst |-> dst, data |-> data]

Init ==
  /\ batch = <<>> /\ i = 0 /\ phase = "lease"
  /\ open = {"dhcp"}
  /\ received = [o \in Owners |-> <<>>]
  /\ send = [o \in Owners |-> IF o = "dhcp" THEN << Packet("all", "discover") >> ELSE <<>>]
  /\ dhcp = TRUE
  /\ ip = NoAddress /\ router = "all"
  /\ client = [c \in Clients |-> "off"]
  /\ arrived = 0 /\ taken = [p \in Ports |-> <<>>]
  /\ sent = [o \in Owners |-> <<>>] /\ replies = {}

-----------------------------------------------------------------------------
(* A network card's interrupt.                                             *)
Arrive ==
  /\ arrived < MaxFrames /\ Len(batch) < Cap
  /\ \E f \in Frames : batch' = Append(batch, [frame |-> f, n |-> arrived + 1])
  /\ arrived' = arrived + 1
  /\ UNCHANGED <<i, phase, stack, client, taken, sent, replies>>

(* Broken: the address is taken and not requested.                         *)
LeaseNoRequest ==
  /\ phase = "lease"
  /\ ip' = IF ip = NoAddress /\ received["dhcp"] # <<>>
             THEN Head(received["dhcp"]).frame.data ELSE ip
  /\ phase' = "frames" /\ i' = 0
  /\ UNCHANGED <<batch, open, received, send, dhcp, router, client, history>>

(* Without an address, the first answer is looked at, whatever it is; the  *)
(* address it offers is taken and requested from its sender. It stays in   *)
(* the list.                                                               *)
Lease ==
  /\ phase = "lease"
  /\ IF ip = NoAddress /\ received["dhcp"] # <<>>
       THEN LET answer == Head(received["dhcp"]).frame IN
              /\ Len(sent["dhcp"]) < MaxWire
              /\ ip' = answer.data
              /\ send' = [send EXCEPT !["dhcp"] = Append(@, Packet(answer.src, answer.data))]
       ELSE UNCHANGED <<ip, send>>
  /\ phase' = "frames" /\ i' = 0
  /\ UNCHANGED <<batch, open, received, dhcp, router, client, history>>

-----------------------------------------------------------------------------
(* The loop over the batch. Entry i is batch[i + 1].                       *)
Current == batch[i + 1].frame

InBatch(type) ==
  /\ phase = "frames" /\ i < Len(batch)
  /\ Current.type = type /\ Current.to \in {"us", "all"}

Ignore ==
  /\ phase = "frames" /\ i < Len(batch)
  /\ Current.to \notin {"us", "all"}
  /\ i' = i + 1
  /\ UNCHANGED <<batch, phase, stack, client, history>>

(* Each byte of the hardware address asked about is compared with the byte *)
(* of mac at the frame's place in the batch; behind the array is any byte. *)
Compared == IF i \in DOMAIN Mac THEN {Mac[i]} ELSE 0..255

AsksUs(f, byte) == f.opcode = "request" /\ (f.hw = byte \/ f.target = ip)

Reply(f) == [to |-> f.from, ip |-> ip, asked |-> f.target, hw |-> f.hw, place |-> i]

HandleArp ==
  /\ InBatch("arp")
  /\ \E byte \in Compared :
       replies' = IF AsksUs(Current, byte) THEN replies \cup {Reply(Current)} ELSE replies
  /\ i' = i + 1
  /\ UNCHANGED <<batch, phase, stack, client, arrived, taken, sent>>

Takers(f) == {o \in open : Port(o) = f.port}

(* Broken: a datagram is put before the ones already received.             *)
ReceiveFirst(e) ==
  [o \in Owners |-> IF o \in Takers(e.frame) THEN <<e>> \o received[o] ELSE received[o]]

(* Every connection with the port gets a copy.                             *)
Receive(e) ==
  [o \in Owners |-> IF o \in Takers(e.frame) THEN Append(received[o], e) ELSE received[o]]

Learn(f) == IF router = "all" /\ Takers(f) # {} THEN f.from ELSE router

HandleUdp ==
  /\ InBatch("udp")
  /\ received' = Receive(batch[i + 1])
  /\ router' = Learn(Current)
  /\ taken' = [p \in Ports |-> IF p = Current.port /\ Takers(Current) # {}
                                 THEN Append(taken[p], batch[i + 1]) ELSE taken[p]]
  /\ i' = i + 1
  /\ UNCHANGED <<batch, phase, open, send, dhcp, ip, client, arrived, sent, replies>>

FramesDone ==
  /\ phase = "frames" /\ i >= Len(batch)
  /\ phase' = "reset"
  /\ UNCHANGED <<batch, i, stack, client, history>>

(* The counter is set to 0, whatever has arrived since the test.           *)
Reset ==
  /\ phase = "reset"
  /\ batch' = <<>> /\ phase' = "send"
  /\ UNCHANGED <<i, stack, client, history>>

-----------------------------------------------------------------------------
(* The packets as they leave.                                              *)
Addressed(packets) == [m \in DOMAIN packets |-> [to |-> router, packet |-> packets[m]]]

SendAll == [o \in Owners |-> sent[o] \o Addressed(send[o])]

(* Broken: the lists of packets to send are kept.                          *)
SendAgain ==
  /\ phase = "send"
  /\ Len(sent["dhcp"]) < MaxWire
  /\ sent' = SendAll
  /\ phase' = "close"
  /\ UNCHANGED <<batch, i, stack, client, arrived, taken, replies>>

(* Every packet of every connection is sent, and the lists are freed.      *)
Send ==
  /\ phase = "send"
  /\ sent' = SendAll
  /\ send' = [o \in Owners |-> <<>>]
  /\ phase' = "close"
  /\ UNCHANGED <<batch, i, open, received, dhcp, ip, router, client, arrived, taken, replies>>

(* A list of packets of every connection, those of some owners freed.      *)
Without(owners, list) == [o \in Owners |-> IF o \in owners THEN <<>> ELSE list[o]]

closeConnections(owners) ==
  /\ open' = open \ owners
  /\ received' = Without(owners, received)
  /\ send' = Without(owners, send)

(* Broken: the connection stays open.                                      *)
KeepDhcp ==
  /\ phase = "close"
  /\ phase' = "programs"
  /\ UNCHANGED <<batch, i, stack, client, history>>

CloseDhcp ==
  /\ phase = "close"
  /\ IF ip # NoAddress /\ dhcp
       THEN closeConnections({"dhcp"}) /\ dhcp' = FALSE
       ELSE UNCHANGED <<open, received, send, dhcp>>
  /\ phase' = "programs"
  /\ UNCHANGED <<batch, i, ip, router, client, history>>

-----------------------------------------------------------------------------
(* The test program: it asks for an address, then for the time, and quits  *)
(* with the answer.                                                        *)
NameQuestion == Packet("dns", "name")
TimeQuestion == Packet("ntp", "time")

Start(c) ==
  /\ phase = "programs" /\ client[c] = "off"
  /\ open' = open \cup {c}
  /\ send' = [send EXCEPT ![c] = << NameQuestion >>]
  /\ client' = [client EXCEPT ![c] = "name"]
  /\ UNCHANGED <<batch, i, phase, received, dhcp, ip, router, history>>

(* The programs that find a packet, by what they wait for.                 *)
Answered(question) ==
  {c \in Clients \cap open : client[c] = question /\ received[c] # <<>>}

(* The updates of all programs. The first packet is the name's address;    *)
(* those behind it are freed. One that waits for the time closes its       *)
(* connection and quits with the first packet, whatever it is.             *)
Update ==
  /\ phase = "programs"
  /\ open' = open \ Answered("time")
  /\ received' = Without(Answered("name") \cup Answered("time"), received)
  /\ send' = [o \in Owners |-> IF o \in Answered("name") THEN Append(send[o], TimeQuestion)
                               ELSE Without(Answered("time"), send)[o]]
  /\ client' = [c \in Clients |-> IF c \in Answered("name") THEN "time"
                                  ELSE IF c \in Answered("time") THEN "quit" ELSE client[c]]
  /\ phase' = "lease"
  /\ UNCHANGED <<batch, i, dhcp, ip, router, history>>

MainLoop ==
  \/ Lease \/ Ignore \/ HandleArp \/ HandleUdp \/ FramesDone \/ Reset
  \/ Send \/ CloseDhcp \/ Update

Next == Arrive \/ MainLoop \/ \E c \in Clients : Start(c)

Spec == Init /\ [][Next]_vars

(* Interrupt handlers return, so the loop keeps running between them.      *)
FairSpec == Spec /\ WF_vars(MainLoop)

-----------------------------------------------------------------------------
Phases == {"lease", "frames", "reset", "send", "close", "programs"}
Entries(frames) == [frame : frames, n : 1..MaxFrames]
Datagrams == {f \in Frames : f.type = "udp"}
Machines == {"all"} \cup {f.from : f \in Frames}
Addresses == {NoAddress} \cup {f.data : f \in Datagrams}
Packets ==
  {Packet("all", "discover"), NameQuestion, TimeQuestion}
    \cup {Packet(f.src, f.data) : f \in Datagrams}

(* Types; dhcpConnection is open exactly while its item is in the list,    *)
(* and so is a test program's until it quits. Closing frees both lists.    *)
TypeOK ==
  /\ batch \in Seq(Entries(Frames)) /\ Len(batch) <= Cap
  /\ i \in 0..Cap /\ (phase = "frames" => i <= Len(batch)) /\ phase \in Phases
  /\ open \subseteq Owners
  /\ received \in [Owners -> Seq(Entries(Datagrams))]
  /\ send \in [Owners -> Seq(Packets)]
  /\ \A o \in Owners \ open : received[o] = <<>> /\ send[o] = <<>>
  /\ dhcp \in BOOLEAN /\ (dhcp <=> "dhcp" \in open) /\ ip \in Addresses /\ router \in Machines
  /\ client \in [Clients -> {"off", "name", "time", "quit"}]
  /\ \A c \in Clients : client[c] \in {"name", "time"} <=> c \in open
  /\ arrived \in 0..MaxFrames
  /\ taken \in [Ports -> Seq(Entries(Datagrams))]
  /\ sent \in [Owners -> Seq([to : Machines, packet : Packets])]

(* The frames of the batch that the loop will get to.                      *)
Waiting(k) == phase # "reset" /\ (phase = "frames" => k > i)

(* The batch is in the order of arrival, and what is taken comes before    *)
(* what waits.                                                             *)
Numbered ==
  /\ \A k \in DOMAIN batch : batch[k].n <= arrived
  /\ \A k, l \in DOMAIN batch : k < l => batch[k].n < batch[l].n
  /\ \A p \in Ports : \A m \in DOMAIN taken[p] :
       /\ taken[p][m].n <= arrived
       /\ \A k \in DOMAIN batch : Waiting(k) => taken[p][m].n < batch[k].n

(* What a connection holds are the latest datagrams for its port, without  *)
(* a gap, a copy or a change of order, however the batches were cut.       *)
ReceivedInOrder ==
  /\ \A o \in open :
       LET got == received[o]
           all == taken[Port(o)]
           behind == Len(all) - Len(got)
       IN  behind >= 0 /\ \A m \in DOMAIN got : got[m] = all[behind + m]
  /\ \A p \in Ports : \A m, k \in DOMAIN taken[p] : m < k => taken[p][m].n < taken[p][k].n

(* The packets that an owner's connection was given, sent or not.          *)
Sent(o) == [m \in DOMAIN sent[o] |-> sent[o][m].packet]
Given(o) == Sent(o) \o send[o]

(* When programs are updated, what they asked before has been sent.        *)
ListsSent ==
  /\ phase = "close" => \A o \in Owners : send[o] = <<>>
  /\ phase = "programs" => /\ send["dhcp"] = <<>>
                           /\ \A c \in Clients : client[c] = "time" => send[c] = <<>>

(* Every packet that a test program's connection was given is sent once,   *)
(* although lists are freed, connections closed and programs gone in       *)
(* between.                                                                *)
SentOnce ==
  \A c \in Clients :
    Given(c) = CASE client[c] = "off" -> <<>>
                 [] client[c] = "name" -> << NameQuestion >>
                 [] client[c] \in {"time", "quit"} -> << NameQuestion, TimeQuestion >>

(* Packets go to whoever sent the first datagram that a connection took,   *)
(* for good, and to everybody before.                                      *)
RouterIsFirstSender ==
  /\ IF \A p \in Ports : taken[p] = <<>>
       THEN router = "all"
       ELSE \E p \in Ports :
              /\ taken[p] # <<>> /\ router = Head(taken[p]).frame.from
              /\ \A q \in Ports : taken[q] # <<>> => Head(taken[p]).n <= Head(taken[q]).n
  /\ \A o \in Owners : \A m \in DOMAIN sent[o] : sent[o][m].to \in {"all", router}

(* The address is the one in the first datagram for the DHCP port, whoever *)
(* sent it and whatever came later, and it is requested from the sender,   *)
(* once; before the connection is closed the request has been sent.        *)
FirstAnswerDecides ==
  /\ dhcp => received["dhcp"] = taken[DhcpPort]
  /\ Given("dhcp") # <<>> /\ Head(Given("dhcp")) = Packet("all", "discover")
  /\ \A m \in 2 .. Len(Given("dhcp")) :
       /\ taken[DhcpPort] # <<>>
       /\ LET first == Head(taken[DhcpPort]).frame IN
            Given("dhcp")[m] = Packet(first.src, first.data) /\ ip = first.data
  /\ ip # NoAddress => Len(Given("dhcp")) = 2
  /\ ~dhcp => ip # NoAddress

(* A question that is not for its own Internet address is only answered    *)
(* when the hardware address that it asks about is made of the byte at its *)
(* place in the batch, or when that place is behind the array of bytes.    *)
NoStrayReplies ==
  \A r \in replies : r.ip = r.asked \/ r.place \notin DOMAIN Mac \/ r.hw = Mac[r.place]

(* A program takes one packet for one answer, and a datagram that has been *)
(* taken for the name's address is never taken for the time as well.       *)
OnePacketOneAnswer ==
  \A c \in Clients :
    /\ client[c] = "time" => Len(taken[ClientPort]) > Len(received[c])
    /\ client[c] = "quit" => Len(taken[ClientPort]) >= 2

(* What has left the machine is what its programs gave it and what it was  *)
(* asked for.                                                              *)
Inv ==
  /\ TypeOK /\ Numbered /\ ListsSent
  /\ SentOnce /\ RouterIsFirstSender /\ NoStrayReplies /\ OnePacketOneAnswer

(* The first answer, if it offers an address, ends the exchange.           *)
AnswerIsTaken ==
  (received["dhcp"] # <<>> /\ Head(received["dhcp"]).frame.data # NoAddress) ~> ~dhcp
=============================================================================
