--------------------------------- MODULE UdpGw ---------------------------------
(***************************************************************************)
(* UDP forwarding: UdpGwClient and SocksUdpGwClient inside tun2socks, the  *)
(* TCP stream that carries their packets through SOCKS, and the badvpn     *)
(* udpgw server at its other end.                                          *)
(*                                                                         *)
(* Client and server each keep a table of connections.  A connection is    *)
(* known to both only by its conid; the client reuses the conid of its     *)
(* least recently used connection when the table is full, and tells the    *)
(* server with the flag REBIND of one packet, which may be dropped for     *)
(* lack of buffer.  Answers already on their way then meet a table that    *)
(* has changed.  The stream may break at any time and is rebuilt by a      *)
(* timer; the tables of the client outlive it, those of the server do not. *)
(*                                                                         *)
(* DNS packets, whose address the server replaces by its resolver's, and   *)
(* the server's fixed local UDP ports, an option that is off by default,   *)
(* are left out.                                                           *)
(*                                                                         *)
(* A datagram is the conaddr that its application used, so that what the   *)
(* tables do to it can be compared with what was meant.                    *)
(***************************************************************************)
EXTENDS Integers, Sequences

CONSTANTS
    Local, Remote,    \* addresses of applications and of UDP peers
    Flows,            \* the conaddrs that applications use
    None,             \* a value outside every set of records
    max_connections,  \* of the client: also the number of conids
    SendBuffer,       \* packets each client connection can hold
    ServerConns,      \* options.max_connections_for_client
    ServerBuffer,     \* CONNECTION_CLIENT_BUFFER_SIZE
    MaxClients,       \* options.max_clients of the server
    LinkCap,          \* packets the TCP stream holds in each direction
    MaxSubmits        \* bound on the datagrams of the applications

ASSUME SizesAssumption ==
    /\ max_connections \in Nat \ {0} /\ SendBuffer \in Nat \ {0}
    /\ ServerConns \in Nat \ {0} /\ ServerBuffer \in Nat \ {0}
    /\ MaxClients \in Nat \ {0} /\ LinkCap \in Nat \ {0}
    /\ MaxSubmits \in Nat

VARIABLES
    cons,        \* UdpGwClient connections_list, least recently used first
    next_conid,
    keepalive_sending,
    socks,       \* SocksUdpGwClient: have_socks, socks_up, timer; have_server
    link,        \* the TCP stream: "none", "open", "accepted", "broken"
    up, down,    \* packets in the stream
    srv,         \* server connections_list, least recently used first
    sending,     \* the packet the server's fair queue is sending, or None
    stale,       \* server clients whose stream is gone but which are not freed
    reused,      \* some conid has served a second conaddr
    submits      \* number of datagrams submitted so far

vars == <<cons, next_conid, keepalive_sending, socks, link, up, down, srv, sending, stale, reused,
          submits>>

clientVars == <<cons, next_conid, reused, submits>>
serverVars == <<srv, sending>>

-----------------------------------------------------------------------------
(* State *)

Conid == 0 .. max_connections - 1

Conaddr == [local : Local, remote : Remote]

ASSUME FlowsAssumption == Flows \subseteq Conaddr

\* A packet towards the server; data is the conaddr the application used.
Packet == [flag : {"none", "rebind"}, conid : Conid, remote : Remote, data : Conaddr]
Keepalive == [flag |-> "keepalive"]

\* A datagram on its way back.  Its label is remote; data is the conaddr of a
\* datagram that was sent from the socket it came in through.
Answer == [conid : Conid, remote : Remote, data : Conaddr]

Connection == [conid : Conid, conaddr : Conaddr, queue : Seq(Packet)]

\* A server connection: orig_addr, the datagrams its socket has sent, and what is
\* buffered for the client.
ServerConnection == [conid : Conid, orig : Remote, asked : SUBSET Conaddr, out : Seq(Answer)]

\* A closing connection only waits for its packet to leave the fair queue.
Sending == [conid : Conid, closing : BOOLEAN, packet : Answer]

Link == {"none", "open", "accepted", "broken"}

TypeOK ==
    /\ cons \in Seq(Connection) /\ next_conid \in Conid
    /\ keepalive_sending \in BOOLEAN
    /\ socks \in [have : BOOLEAN, up : BOOLEAN, timer : BOOLEAN, server : BOOLEAN, freed : BOOLEAN]
    /\ link \in Link
    /\ up \in Seq(Packet \cup {Keepalive}) /\ Len(up) <= LinkCap
    /\ down \in Seq(Answer) /\ Len(down) <= LinkCap
    /\ srv \in Seq(ServerConnection) /\ sending \in Sending \cup {None}
    /\ stale \in 0..MaxClients
    /\ reused \in BOOLEAN /\ submits \in 0..MaxSubmits

\* SocksUdpGwClient_Init, whose try_connect succeeded or set the timer.
Init ==
    /\ cons = <<>> /\ next_conid = 0 /\ keepalive_sending = FALSE
    /\ \E ok \in BOOLEAN :
          socks = [have |-> ok, up |-> FALSE, timer |-> ~ok, server |-> FALSE, freed |-> FALSE]
    /\ link = "none" /\ up = <<>> /\ down = <<>>
    /\ srv = <<>> /\ sending = None /\ stale = 0
    /\ reused = FALSE /\ submits = 0

\* Sequence s without its i-th element.
Without(s, i) == SubSeq(s, 1, i - 1) \o SubSeq(s, i + 1, Len(s))

\* LinkedList1_Remove and LinkedList1_Append: x takes the place of s[i], at the end.
MovedToEnd(s, i, x) == Append(Without(s, i), x)

-----------------------------------------------------------------------------
(* UdpGwClient: the table *)

Has(conaddr) == \E i \in DOMAIN cons : cons[i].conaddr = conaddr

Used(conid) == \E i \in DOMAIN cons : cons[i].conid = conid

\* Mutant: next_conid is taken without looking it up.
FindNextConid == next_conid

\* The first free conid from next_conid on, cyclically.
find_unused_conid ==
    LET at(d) == (next_conid + d) % max_connections
        first == CHOOSE d \in Conid : ~Used(at(d)) /\ \A e \in Conid : e < d => Used(at(e))
    IN  at(first)

\* "out of buffer": the packet is dropped, its REBIND flag with it.
connection_send(con, flag) ==
    IF Len(con.queue) = SendBuffer THEN con
    ELSE [con EXCEPT !.queue = Append(@, [flag |-> flag, conid |-> con.conid,
                                          remote |-> con.conaddr.remote, data |-> con.conaddr])]

\* A packet for a connection in the table.
SubmitExisting(conaddr) ==
    /\ ~socks.freed
    /\ \E i \in DOMAIN cons :
          /\ cons[i].conaddr = conaddr
          /\ cons' = MovedToEnd(cons, i, connection_send(cons[i], "none"))
    /\ UNCHANGED <<next_conid, keepalive_sending, socks, link, up, down, srv, sending, stale, reused>>

\* reuse_connection: the least recently used connection changes its conaddr.
SubmitReuse(conaddr) ==
    /\ ~socks.freed /\ ~Has(conaddr) /\ Len(cons) = max_connections
    /\ cons' = MovedToEnd(cons, 1, connection_send([cons[1] EXCEPT !.conaddr = conaddr], "rebind"))
    /\ reused' = TRUE
    /\ UNCHANGED <<next_conid, keepalive_sending, socks, link, up, down, srv, sending, stale>>

\* connection_init and its first job.  r: malloc may fail before the conid is
\* chosen, PacketProtoFlow_Init after it.
SubmitNew(conaddr, r) ==
    /\ ~socks.freed /\ ~Has(conaddr) /\ Len(cons) < max_connections
    /\ next_conid' = IF r = "malloc" THEN next_conid ELSE find_unused_conid
    /\ cons' = IF r # "ok" THEN cons
               ELSE Append(cons, connection_send([conid |-> find_unused_conid, conaddr |-> conaddr,
                                                  queue |-> <<>>], "rebind"))
    /\ UNCHANGED <<keepalive_sending, socks, link, up, down, srv, sending, stale, reused>>

\* send_monitor_handler: nothing was sent for keepalive_time.
SendMonitor ==
    /\ ~socks.freed /\ ~keepalive_sending
    /\ keepalive_sending' = TRUE
    /\ UNCHANGED <<clientVars, socks, link, up, down, serverVars, stale>>

-----------------------------------------------------------------------------
(* UdpGwClient: the stream *)

\* Mutant: a full stream is written to.
WriteAlways == socks.server /\ link \in {"open", "accepted"}

\* The fair queue serves any connection with a packet; the packet leaves its
\* buffer once it is written completely.
CanWrite == socks.server /\ link \in {"open", "accepted"} /\ Len(up) < LinkCap

SendQueued(i) ==
    /\ CanWrite /\ cons[i].queue # <<>>
    /\ up' = Append(up, Head(cons[i].queue))
    /\ cons' = [cons EXCEPT ![i].queue = Tail(@)]
    /\ UNCHANGED <<next_conid, keepalive_sending, socks, link, down, serverVars, stale, reused, submits>>

\* keepalive_if_handler_done.
SendKeepalive ==
    /\ CanWrite /\ keepalive_sending
    /\ up' = Append(up, Keepalive)
    /\ keepalive_sending' = FALSE
    /\ UNCHANGED <<clientVars, socks, link, down, serverVars, stale>>

\* Mutant: the connection is looked up by the remote address.
AcceptsByRemote(con, p) == con.conaddr.remote = p.remote

\* An answer is for the connection with its conid, if the remote address is
\* that connection's too.
Accepts(con, p) == con.conid = p.conid /\ con.conaddr.remote = p.remote

\* Any other answer is dropped; this one is passed to the connection's
\* current local address.
recv_interface_handler_send ==
    LET hit == {i \in DOMAIN cons : Accepts(cons[i], Head(down))}
    IN  /\ socks.server /\ down # <<>>
        /\ down' = Tail(down)
        /\ \/ hit = {} /\ UNCHANGED cons
           \/ \E i \in hit : cons' = MovedToEnd(cons, i, cons[i])
        /\ UNCHANGED <<next_conid, keepalive_sending, socks, link, up, serverVars, stale, reused, submits>>

-----------------------------------------------------------------------------
(* SocksUdpGwClient *)

\* free_socks, with UdpGwClient_DisconnectServer if it was connected; socks_up
\* keeps its value until the next try_connect.
free_socks(s) == [s EXCEPT !.have = FALSE, !.server = IF s.up THEN FALSE ELSE @]

\* What remains of the stream on the server's side when the client closes it;
\* one that was not accepted yet leaves nothing behind.
StreamClosed ==
    /\ link' = "none" /\ up' = <<>> /\ down' = <<>>
    /\ srv' = <<>> /\ sending' = None
    /\ stale' = IF link = "accepted" THEN stale + 1 ELSE stale

\* Mutant: socks_up keeps its value.
ReconnectKeepsUp(ok) ==
    /\ socks.timer
    /\ socks' = IF ok THEN [socks EXCEPT !.timer = FALSE, !.have = TRUE] ELSE socks
    /\ UNCHANGED <<clientVars, keepalive_sending, link, up, down, serverVars, stale>>

\* try_connect, from the timer.
reconnect_timer_handler(ok) ==
    /\ socks.timer
    /\ socks' = IF ok THEN [socks EXCEPT !.timer = FALSE, !.have = TRUE, !.up = FALSE]
                ELSE [socks EXCEPT !.timer = TRUE]
    /\ UNCHANGED <<clientVars, keepalive_sending, link, up, down, serverVars, stale>>

\* BSOCKSCLIENT_EVENT_UP, where UdpGwClient_ConnectServer succeeds.
SocksUp ==
    /\ socks.have /\ ~socks.up
    /\ socks' = [socks EXCEPT !.up = TRUE, !.server = TRUE]
    /\ link' = "open"
    /\ UNCHANGED <<clientVars, keepalive_sending, up, down, serverVars, stale>>

\* Mutant: the reconnect timer is not set.
ErrorSetsNoTimer ==
    /\ socks.have
    /\ socks' = free_socks(socks)
    /\ StreamClosed
    /\ UNCHANGED <<clientVars, keepalive_sending>>

\* An error event of BSocksClient, ConnectServer without memory, or a decoder
\* error (udpgw_handler_servererror): free_socks and the reconnect timer.
SocksError ==
    /\ socks.have
    /\ socks' = [free_socks(socks) EXCEPT !.timer = TRUE]
    /\ StreamClosed
    /\ UNCHANGED <<clientVars, keepalive_sending>>

SocksUdpGwClient_Free ==
    /\ ~socks.freed
    /\ socks' = [(IF socks.have THEN free_socks(socks) ELSE socks) EXCEPT !.timer = FALSE, !.freed = TRUE]
    /\ cons' = <<>> /\ keepalive_sending' = FALSE
    /\ StreamClosed
    /\ UNCHANGED <<next_conid, reused, submits>>

-----------------------------------------------------------------------------
(* The server *)

\* listener_handler: at max_clients, or without memory, the stream is dropped.
listener_handler(mem) ==
    /\ link = "open"
    /\ link' = IF stale < MaxClients /\ mem THEN "accepted" ELSE "broken"
    /\ UNCHANGED <<clientVars, keepalive_sending, socks, up, down, serverVars, stale>>

\* connection_close of connection i: it leaves the table; when its packet is
\* in the fair queue it is freed only once that packet is sent.
ClosingSend(i) ==
    IF sending # None /\ ~sending.closing /\ sending.conid = srv[i].conid
    THEN [sending EXCEPT !.closing = TRUE] ELSE sending

\* connection_send_to_udp: ok is FALSE where the UDP buffer is full.
connection_send_to_udp(con, data, ok) == IF ok THEN [con EXCEPT !.asked = @ \cup {data}] ELSE con

\* Mutant: a full table grows.
VictimOfConid(p) == {i \in DOMAIN srv : srv[i].conid = p.conid}

\* The connection closed before p can have one of its own: the one of its
\* conid, or the least recently used one of a full table.
Victim(p) ==
    LET same == {i \in DOMAIN srv : srv[i].conid = p.conid}
    IN  IF same # {} THEN same ELSE IF Len(srv) = ServerConns THEN {1} ELSE {}

\* Mutant: only REBIND is looked at, not the address.
UsableUnlessRebound(con, p) == con.conid = p.conid /\ p.flag # "rebind"

\* p goes through the connection of its conid as it is.
Usable(con, p) == con.conid = p.conid /\ con.orig = p.remote /\ p.flag # "rebind"

\* client_recv_if_handler_send, then the first job of a new connection; made
\* is FALSE where connection_init fails.
client_recv_if_handler_send(ok, made) ==
    LET p     == Head(up)
        fresh == [conid |-> p.conid, orig |-> p.remote, asked |-> {}, out |-> <<>>]
        new   == IF made THEN <<connection_send_to_udp(fresh, p.data, ok)>> ELSE <<>>
        use   == {i \in DOMAIN srv : Usable(srv[i], p)}
    IN  /\ link = "accepted" /\ up # <<>>
        /\ up' = Tail(up)
        /\ \/ p = Keepalive /\ UNCHANGED serverVars
           \/ /\ p # Keepalive
              /\ \E i \in use : srv' = MovedToEnd(srv, i, connection_send_to_udp(srv[i], p.data, ok))
              /\ UNCHANGED sending
           \/ /\ p # Keepalive /\ use = {} /\ Victim(p) = {}
              /\ srv' = srv \o new
              /\ UNCHANGED sending
           \/ /\ p # Keepalive /\ use = {}
              /\ \E i \in Victim(p) :
                    /\ srv' = Without(srv, i) \o new
                    /\ sending' = ClosingSend(i)
        /\ UNCHANGED <<clientVars, keepalive_sending, socks, link, down, stale>>

\* connection_udp_recv_if_handler_send: a datagram comes in through the socket of
\* connection i, which has a port since its first datagram data left.  The socket is
\* not connected and the sender is not looked at: it may be anyone, any number of
\* times, and the datagram is forwarded as orig_addr's.
connection_udp_recv(i, data) ==
    /\ link = "accepted" /\ data \in srv[i].asked
    /\ LET con == srv[i]
           a   == [conid |-> con.conid, remote |-> con.orig, data |-> data]
           fit == Len(con.out) < ServerBuffer
       IN  srv' = MovedToEnd(srv, i, IF fit THEN [con EXCEPT !.out = Append(@, a)] ELSE con)
    /\ UNCHANGED <<clientVars, keepalive_sending, socks, link, up, down, sending, stale>>

\* connection_dgram_handler_event: an error of the UDP socket.
connection_dgram_handler_event(i) ==
    /\ link = "accepted"
    /\ srv' = Without(srv, i)
    /\ sending' = ClosingSend(i)
    /\ UNCHANGED <<clientVars, keepalive_sending, socks, link, up, down, stale>>

\* The fair queue takes the first packet of a connection ...
QueuePicks(i) ==
    /\ link = "accepted" /\ sending = None /\ srv[i].out # <<>>
    /\ sending' = [conid |-> srv[i].conid, closing |-> FALSE, packet |-> Head(srv[i].out)]
    /\ UNCHANGED <<clientVars, keepalive_sending, socks, link, up, down, srv, stale>>

\* ... and has sent it; a closing connection is freed (busy handler).
QueueSent ==
    /\ link = "accepted" /\ sending # None /\ Len(down) < LinkCap
    /\ down' = Append(down, sending.packet)
    /\ srv' = [i \in DOMAIN srv |->
                 IF ~sending.closing /\ srv[i].conid = sending.conid
                 THEN [srv[i] EXCEPT !.out = Tail(@)] ELSE srv[i]]
    /\ sending' = None
    /\ UNCHANGED <<clientVars, keepalive_sending, socks, link, up, stale>>

\* The stream is cut, and the client has not noticed yet.  Either the server
\* did it (client_free: its disconnect timer, an error of the decoder), or it
\* has not noticed either.
StreamBreaks ==
    /\ link \in {"open", "accepted"}
    /\ link' = "broken" /\ srv' = <<>> /\ sending' = None
    /\ stale' \in (IF link = "accepted" THEN {stale, stale + 1} ELSE {stale})
    /\ UNCHANGED <<clientVars, keepalive_sending, socks, up, down>>

\* client_free of a client whose stream is gone: it is closed, or silent for
\* CLIENT_DISCONNECT_TIMEOUT.
StaleFreed ==
    /\ stale > 0 /\ stale' = stale - 1
    /\ UNCHANGED <<clientVars, keepalive_sending, socks, link, up, down, serverVars>>

-----------------------------------------------------------------------------
Submit ==
    /\ submits < MaxSubmits /\ submits' = submits + 1
    /\ \E conaddr \in Flows :
        \/ SubmitExisting(conaddr) \/ SubmitReuse(conaddr)
        \/ \E r \in {"ok", "malloc", "flow"} : SubmitNew(conaddr, r)

ClientStep ==
    \/ \E i \in DOMAIN cons : SendQueued(i)
    \/ SendKeepalive \/ recv_interface_handler_send

ServerStep ==
    \/ \E ok, made \in BOOLEAN : client_recv_if_handler_send(ok, made)
    \/ \E i \in DOMAIN srv :
          \/ \E data \in Flows : connection_udp_recv(i, data)
          \/ connection_dgram_handler_event(i) \/ QueuePicks(i)
    \/ QueueSent

Next ==
    \/ Submit \/ SendMonitor \/ ClientStep \/ ServerStep
    \/ \E ok \in BOOLEAN : reconnect_timer_handler(ok)
    \/ SocksUp \/ SocksError \/ SocksUdpGwClient_Free
    \/ \E mem \in BOOLEAN : listener_handler(mem)
    \/ StreamBreaks \/ StaleFreed

Spec == Init /\ [][Next]_vars

-----------------------------------------------------------------------------
(* Properties *)

\* Either a SOCKS connection exists or the timer that makes the next one
\* runs, never both and never neither (the asserts of try_connect and of the
\* handlers), and the packets go to the server exactly while SOCKS is up: no
\* sequence of errors leaves UDP dead or disconnects a server twice.
SocksOrTimer ==
    /\ socks.have # socks.timer \/ socks.freed
    /\ socks.server = (socks.have /\ socks.up)
    /\ socks.server = (link # "none")

\* Both trees of the client hold every connection once, whatever mixture of
\* new, reused and refused connections filled them (the asserts on BAVL_Insert),
\* and every packet that waits in a connection carries its conid.
TreesAgree ==
    /\ Len(cons) <= max_connections
    /\ \A i, j \in DOMAIN cons : i # j => cons[i].conid # cons[j].conid /\ cons[i].conaddr # cons[j].conaddr
    /\ \A i \in DOMAIN cons : \A n \in DOMAIN cons[i].queue : cons[i].queue[n].conid = cons[i].conid

\* The server keeps at most one open connection per conid, within its limit,
\* and the fair queue is only ever sending for a connection that still exists.
ServerTable ==
    /\ Len(srv) <= ServerConns
    /\ \A i, j \in DOMAIN srv : i # j => srv[i].conid # srv[j].conid
    /\ sending # None /\ ~sending.closing =>
         \E i \in DOMAIN srv : srv[i].conid = sending.conid /\ srv[i].out # <<>> /\ Head(srv[i].out) = sending.packet

\* Answer p would be passed to the application of connection con.
PassedTo(con, p) == socks.server /\ Accepts(con, p)

\* A datagram goes to the peer its application addressed, and what an application
\* receives as coming from a peer came in through a socket that has sent to that
\* peer and to no other: also when the conid changed hands, the packet with REBIND
\* was dropped, or the datagram was on its way meanwhile.  (Nothing more: whoever
\* learns the port of that socket can write in the peer's name.)
PeersAreKept ==
    /\ \A i \in DOMAIN srv : \A a \in srv[i].asked : a.remote = srv[i].orig
    /\ \A i \in DOMAIN cons, n \in DOMAIN down :
          PassedTo(cons[i], down[n]) => down[n].data.remote = cons[i].conaddr.remote

\* Until a conid is reused, what comes in goes to the very application whose
\* datagrams its socket has sent.  (Afterwards an answer on its way may be passed to
\* the next owner of the conid, another application that talks to the same peer.)
OwnAnswer ==
    ~reused => \A i \in DOMAIN cons, n \in DOMAIN down :
                  PassedTo(cons[i], down[n]) => down[n].data = cons[i].conaddr

\* The reactors of both ends run; SOCKS comes up if it is tried for ever.
Fairness ==
    /\ WF_vars(\E ok \in BOOLEAN : reconnect_timer_handler(ok))
    /\ SF_vars(reconnect_timer_handler(TRUE))
    /\ SF_vars(SocksUp) /\ SF_vars(listener_handler(TRUE)) /\ WF_vars(StaleFreed)
    /\ WF_vars(link = "broken" /\ SocksError)

FairSpec == Spec /\ Fairness

\* UDP comes back: however the stream was lost, the server has accepted the
\* client again some time later, or tun2socks ends.
ServiceReturns == link # "accepted" ~> (link = "accepted" \/ socks.freed)
=============================================================================
