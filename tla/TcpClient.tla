------------------------------- MODULE TcpClient -------------------------------
(***************************************************************************)
(* One TCP connection of tun2socks: an lwIP protocol control block (pcb)   *)
(* towards the application on the TUN side, the tcp_client structure of    *)
(* tun2socks.c, and the SOCKS connection (BSocksClient over BConnection).  *)
(*                                                                         *)
(* The process is single threaded.  lwIP calls the callbacks of            *)
(* tun2socks.c from tcp_input and from its timer; the SOCKS connection     *)
(* calls them from jobs of the reactor.  A callback that starts socket     *)
(* work runs the jobs it created before it returns (SYNC_COMMIT), so the   *)
(* SOCKS callbacks nest inside the lwIP ones, may free the pcb under them, *)
(* and the lwIP callback must then return ERR_ABRT.                        *)
(*                                                                         *)
(* The handlers are operators from a connection to a connection, because   *)
(* they call each other: one action runs one lwIP callback or one job.     *)
(* Bytes of both directions are numbered from 1.                           *)
(***************************************************************************)
EXTENDS Integers, Sequences

CONSTANTS
    TcpWnd,   \* TCP_WND: the receive window, and the size of client->buf
    SndBuf,   \* TCP_SND_BUF: capacity of a pcb's send queue
    RecvBuf,  \* CLIENT_SOCKS_RECV_BUF_SIZE
    MaxUp,    \* bound on the bytes the application sends
    MaxDown   \* bound on the bytes the SOCKS server sends

ASSUME SizesAssumption ==
    /\ TcpWnd \in Nat \ {0} /\ SndBuf \in Nat \ {0} /\ RecvBuf \in Nat \ {0}
    /\ MaxUp \in Nat /\ MaxDown \in Nat

VARIABLES
    k,        \* the connection: pcb, tcp_client and SOCKS connection
    seg,      \* the segment tcp_input is delivering, and how far it got
    toSocks,  \* number of bytes written to the SOCKS socket so far, and
    toClient, \* number of bytes acknowledged by the application so far
    leaked    \* some pbuf was dropped without pbuf_free

vars == <<k, seg, toSocks, toClient, leaked>>

-----------------------------------------------------------------------------
(* State *)

\* States of the pcb; FREED: memp_free was called.
Active == {"ESTABLISHED", "CLOSE_WAIT", "FIN_WAIT_1", "FIN_WAIT_2", "CLOSING", "LAST_ACK"}
PcbState == Active \cup {"SYN_RCVD", "TIME_WAIT", "FREED"}

\* Stages of tcp_input; the -Sync stages are inside SYNC_COMMIT of a callback.
Stage == {"idle", "acceptSync", "sent", "sentSync", "recv", "recvSync", "fin", "refused"}

Min2(a, b) == IF a < b THEN a ELSE b

Drop(s, n) == SubSeq(s, n + 1, Len(s))

\* The bytes a+1, ..., a+n of a stream.
Run(a, n) == [i \in 1..n |-> a + i]

Connection == [
    \* struct tcp_pcb
    state    : PcbState,
    rcv_wnd  : 0..TcpWnd,
    sndq     : Seq(Nat),                        \* unsent and unacked segments
    finq     : BOOLEAN,                         \* our FIN is queued
    cb       : SUBSET {"err", "recv", "sent"},  \* callbacks registered
    rcvd     : Nat,                             \* rcv_nxt: bytes received in order
    peerFin  : BOOLEAN,                         \* the application's FIN was received
    \* struct tcp_client
    live     : BOOLEAN,                         \* allocated, in tcp_clients
    client_closed : BOOLEAN,
    buf      : Seq(Nat),                        \* client->buf[0 .. buf_used)
    socks_up : BOOLEAN,
    socks_closed : BOOLEAN,
    rbuf     : Seq(Nat),                        \* socks_recv_buf[sent .. used); <<>>: used = -1
    pending  : Nat,                             \* socks_recv_tcp_pending
    \* BSocksClient and BConnection
    conn     : {"none", "handshake", "up", "freed"},
    sending  : Nat,                             \* send.busy_data_len, 0 when ready
    read     : Nat,                             \* bytes read from the socket
    jobs     : Seq({"send", "recv"}),           \* pending jobs, the next one first
    wait     : SUBSET {"write", "read"} ]       \* events awaited on the socket

Segment == [at : Stage, acked : Nat, data : Seq(Nat), fin : BOOLEAN]

TypeOK ==
    /\ k \in Connection
    /\ seg \in Segment
    /\ toSocks \in Nat /\ toClient \in Nat /\ leaked \in BOOLEAN

NoSegment == [at |-> "idle", acked |-> 0, data |-> <<>>, fin |-> FALSE]

\* A pcb in SYN_RCVD, created by tcp_listen_input, and no client yet.
Init ==
    /\ k = [state |-> "SYN_RCVD", rcv_wnd |-> TcpWnd, sndq |-> <<>>, finq |-> FALSE,
            cb |-> {}, rcvd |-> 0, peerFin |-> FALSE,
            live |-> FALSE, client_closed |-> FALSE, buf |-> <<>>,
            socks_up |-> FALSE, socks_closed |-> FALSE, rbuf |-> <<>>, pending |-> 0,
            conn |-> "none", sending |-> 0, read |-> 0, jobs |-> <<>>, wait |-> {}]
    /\ seg = NoSegment
    /\ toSocks = 0 /\ toClient = 0 /\ leaked = FALSE

-----------------------------------------------------------------------------
(* lwIP operations used by tun2socks.c *)

tcp_abort(c) == [c EXCEPT !.state = "FREED", !.sndq = <<>>, !.cb = {}]

\* tcp_close fails only when tcp_send_fin finds no memory for the FIN.
CloseFails(c, mem) ==
    c.state \in {"ESTABLISHED", "CLOSE_WAIT"} /\ c.rcv_wnd = TcpWnd /\ ~mem

\* Unread data makes tcp_close send a RST instead of a FIN and drop the queue.
tcp_close(c, mem) ==
    IF c.state \notin {"ESTABLISHED", "CLOSE_WAIT"} \/ CloseFails(c, mem) THEN c
    ELSE IF c.rcv_wnd # TcpWnd
    THEN [c EXCEPT !.state = IF @ = "ESTABLISHED" THEN "TIME_WAIT" ELSE "FREED", !.sndq = <<>>]
    ELSE [c EXCEPT !.state = IF @ = "ESTABLISHED" THEN "FIN_WAIT_1" ELSE "LAST_ACK", !.finq = TRUE]

tcp_recved(c, n) == [c EXCEPT !.rcv_wnd = Min2(TcpWnd, @ + n)]

tcp_sndbuf(c) == SndBuf - Len(c.sndq)

Writable(c) == c.state \in {"ESTABLISHED", "CLOSE_WAIT"}

-----------------------------------------------------------------------------
(* Releasing the two sides of a client *)

client_dealloc(c) == [c EXCEPT !.live = FALSE]

\* BSocksClient_Free drops the jobs and the socket.
BSocksClient_Free(c) ==
    [c EXCEPT !.conn = "freed", !.sending = 0, !.jobs = <<>>, !.wait = {},
              !.socks_closed = TRUE]

\* The first half of client_free_socks, up to socks_closed = 1.
CloseSocks(c) ==
    BSocksClient_Free([c EXCEPT !.cb = IF c.socks_up /\ ~c.client_closed THEN @ \ {"recv"} ELSE @])

\* Mutant: the structure of a closed client is kept until SOCKS fails.
HandleFreedKeeps(c) == [c EXCEPT !.client_closed = TRUE]

client_handle_freed_client(c) ==
    LET closed == [c EXCEPT !.client_closed = TRUE]
    IN  IF closed.buf # <<>> /\ ~closed.socks_closed THEN closed
        ELSE IF ~closed.socks_closed THEN client_dealloc(CloseSocks(closed))
        ELSE client_dealloc(closed)

\* Mutant: the callbacks stay registered on the closed pcb.
FreeClientKeepsCallbacks(c, mem) ==
    client_handle_freed_client(IF CloseFails(c, mem) THEN tcp_abort(c) ELSE tcp_close(c, mem))

client_free_client(c, mem) ==
    LET quiet == [c EXCEPT !.cb = {}]
    IN  client_handle_freed_client(IF CloseFails(quiet, mem) THEN tcp_abort(quiet)
                                   ELSE tcp_close(quiet, mem))

client_abort_client(c) ==
    client_handle_freed_client(tcp_abort([c EXCEPT !.cb = {}]))

client_err_func(c) == client_handle_freed_client(c)

\* Mutant: the client waits whether or not lwIP holds bytes of it.
FreeSocksAlwaysWaits(c, mem) ==
    IF c.socks_up /\ ~c.client_closed THEN CloseSocks(c)
    ELSE IF ~c.client_closed THEN client_free_client(CloseSocks(c), mem)
    ELSE client_dealloc(CloseSocks(c))

client_free_socks(c, mem) ==
    LET freed == CloseSocks(c)
    IN  IF c.socks_up /\ (c.rbuf # <<>> \/ c.pending > 0) /\ ~c.client_closed THEN freed
        ELSE IF ~c.client_closed THEN client_free_client(freed, mem)
        ELSE client_dealloc(freed)

client_murder(c) ==
    LET a == IF c.client_closed THEN c ELSE tcp_abort([c EXCEPT !.cb = {}, !.client_closed = TRUE])
        s == IF a.socks_closed THEN a ELSE BSocksClient_Free(a)
    IN  client_dealloc(s)

-----------------------------------------------------------------------------
(* Moving data *)

\* StreamPassInterface_Sender_Send: the job is put in front of the others.
client_send_to_socks(c) ==
    [c EXCEPT !.jobs = <<"send">> \o @, !.sending = Len(c.buf)]

client_socks_recv_initiate(c) == [c EXCEPT !.jobs = <<"recv">> \o @]

\* Mutant: the bytes written are counted only when all of them fitted.
SendOutCountsLate(c, r) ==
    LET room == Min2(Len(c.rbuf), tcp_sndbuf(c))
        n    == IF r = "mem" THEN 0 ELSE room
        w    == [c EXCEPT !.sndq = @ \o SubSeq(c.rbuf, 1, n),
                          !.rbuf = Drop(@, n),
                          !.pending = IF n = Len(c.rbuf) THEN @ + n ELSE @]
    IN  IF (room > 0 /\ ~Writable(c)) \/ r = "fail" THEN client_abort_client(w) ELSE w

\* Mutant: a partial write empties the receive buffer.
SendOutForgetsRest(c, r) ==
    LET n == IF r = "mem" THEN 0 ELSE Min2(Len(c.rbuf), tcp_sndbuf(c))
    IN  IF r = "fail" \/ ~Writable(c) THEN client_abort_client(c)
        ELSE [c EXCEPT !.sndq = @ \o SubSeq(c.rbuf, 1, n), !.rbuf = <<>>, !.pending = @ + n]

\* r: "ok", "mem" (tcp_write returned ERR_MEM), "fail" (tcp_output failed).
\* The loop writes once: either all of rbuf or all that tcp_sndbuf allows.
client_socks_recv_send_out(c, r) ==
    LET room == Min2(Len(c.rbuf), tcp_sndbuf(c))
        n    == IF r = "mem" THEN 0 ELSE room
        w    == [c EXCEPT !.sndq = @ \o SubSeq(c.rbuf, 1, n),
                          !.rbuf = Drop(@, n),
                          !.pending = @ + n]
    IN  IF room > 0 /\ ~Writable(c) THEN client_abort_client(c)
        ELSE IF r = "fail" \/ (w.rbuf # <<>> /\ w.pending = 0) THEN client_abort_client(w)
        ELSE w

\* Mutant: the window is opened by all the bytes in the buffer.
SendDoneOpensWindow(c, n, mem) ==
    LET b == [c EXCEPT !.buf = Drop(@, n), !.sending = 0]
        d == IF c.client_closed THEN b ELSE tcp_recved(b, Len(c.buf))
    IN  IF d.buf # <<>> THEN client_send_to_socks(d)
        ELSE IF d.client_closed THEN client_free_socks(d, mem)
        ELSE d

\* Mutant: the rest of a partial write is not sent again.
SendDoneForgetsRest(c, n, mem) ==
    LET b == [c EXCEPT !.buf = Drop(@, n), !.sending = 0]
        d == IF c.client_closed THEN b ELSE tcp_recved(b, n)
    IN  IF d.buf = <<>> /\ d.client_closed THEN client_free_socks(d, mem) ELSE d

client_socks_send_handler_done(c, n, mem) ==
    LET b == [c EXCEPT !.buf = Drop(@, n), !.sending = 0]
        d == IF c.client_closed THEN b ELSE tcp_recved(b, n)
    IN  IF d.buf # <<>> THEN client_send_to_socks(d)
        ELSE IF d.client_closed THEN client_free_socks(d, mem)
        ELSE d

client_socks_recv_handler_done(c, n, r) ==
    LET got == [c EXCEPT !.read = @ + n]
        out == client_socks_recv_send_out([got EXCEPT !.rbuf = Run(c.read, n)], r)
    IN  IF c.client_closed THEN got
        ELSE IF ~out.client_closed /\ out.rbuf = <<>> THEN client_socks_recv_initiate(out)
        ELSE out

\* client_socks_handler, BSOCKSCLIENT_EVENT_UP.
SocksUp(c) ==
    LET u == [c EXCEPT !.conn = "up", !.socks_up = TRUE,
                       !.cb = IF c.client_closed THEN @ ELSE @ \cup {"sent"}]
        s == IF c.buf # <<>> THEN client_send_to_socks(u) ELSE u
    IN  IF c.client_closed THEN s ELSE client_socks_recv_initiate(s)

Outcome == {"ok", "mem", "fail"}

-----------------------------------------------------------------------------
(* Callbacks from lwIP.  A stage step is one callback of tcp_input. *)

\* The reactor is between events, so lwIP or the socket may be served.
Quiet == seg.at = "idle" /\ k.jobs = <<>>

\* listener_accept_func, called when the handshake with the application ends.
Accept ==
    /\ Quiet /\ k.state = "SYN_RCVD"
    /\ k' = [k EXCEPT !.state = "ESTABLISHED", !.live = TRUE, !.cb = {"err", "recv"},
                      !.conn = "handshake"]
    /\ seg' = [seg EXCEPT !.at = "acceptSync"]
    /\ UNCHANGED <<toSocks, toClient, leaked>>

\* No memory, or BSocksClient_Init failed: ERR_MEM, and lwIP aborts the pcb.
AcceptFails ==
    /\ Quiet /\ k.state = "SYN_RCVD"
    /\ k' = tcp_abort(k)
    /\ UNCHANGED <<seg, toSocks, toClient, leaked>>

\* A segment for an open connection acknowledges a bytes and brings n bytes
\* (cut to the window) and perhaps a FIN.
OpenInput(a, n, fin) ==
    /\ Quiet /\ k.state \in {"ESTABLISHED", "CLOSE_WAIT"}
    /\ n > 0 \/ fin => /\ k.state = "ESTABLISHED"
                       /\ n + (IF fin THEN 1 ELSE 0) <= k.rcv_wnd
                       /\ k.rcvd + n <= MaxUp
    /\ k' = [k EXCEPT !.sndq = Drop(@, a), !.rcvd = @ + n,
                      !.rcv_wnd = @ - n - (IF fin THEN 1 ELSE 0),
                      !.state = IF fin THEN "CLOSE_WAIT" ELSE @,
                      !.peerFin = @ \/ fin]
    /\ seg' = [at |-> "sent", acked |-> a, data |-> Run(k.rcvd, n), fin |-> fin]
    /\ toClient' = toClient + a
    /\ UNCHANGED <<toSocks, leaked>>

\* The pcb states after a segment for a connection that tun2socks has closed:
\* all acknowledges our FIN, data arrives although the receive side is closed.
AfterInput(c, all, data, fin) ==
    CASE data -> "FREED"
      [] ~data /\ c.state = "FIN_WAIT_1" ->
            IF fin THEN (IF all THEN "TIME_WAIT" ELSE "CLOSING")
            ELSE IF all THEN "FIN_WAIT_2" ELSE "FIN_WAIT_1"
      [] ~data /\ c.state = "FIN_WAIT_2" -> IF fin THEN "TIME_WAIT" ELSE "FIN_WAIT_2"
      [] ~data /\ c.state = "CLOSING" -> IF all THEN "TIME_WAIT" ELSE "CLOSING"
      [] ~data /\ c.state = "LAST_ACK" -> IF all THEN "FREED" ELSE "LAST_ACK"

ClosingInput(a, all, data, fin) ==
    /\ Quiet /\ k.state \in {"FIN_WAIT_1", "FIN_WAIT_2", "CLOSING", "LAST_ACK"}
    /\ all => a = Len(k.sndq)
    /\ data \/ fin => k.state \in {"FIN_WAIT_1", "FIN_WAIT_2"}
    /\ LET next == AfterInput(k, all, data, fin)
       IN  k' = [k EXCEPT !.state = next, !.peerFin = @ \/ fin,
                          !.sndq = IF next \in {"FREED", "TIME_WAIT"} THEN <<>> ELSE Drop(@, a)]
    /\ toClient' = toClient + a
    /\ UNCHANGED <<seg, toSocks, leaked>>

\* A RST of the application, an expired retransmission or closing timer of
\* tcp_slowtmr, or a pcb reclaimed by tcp_alloc: err callback, pcb freed.
PcbKilled ==
    /\ Quiet /\ k.state \in Active \cup {"SYN_RCVD"}
    /\ LET freed == tcp_abort(k)
       IN  k' = IF "err" \in k.cb THEN client_err_func(freed) ELSE freed
    /\ UNCHANGED <<seg, toSocks, toClient, leaked>>

TimeWaitExpires ==
    /\ Quiet /\ k.state = "TIME_WAIT"
    /\ k' = tcp_abort(k)
    /\ UNCHANGED <<seg, toSocks, toClient, leaked>>

\* A callback returned ERR_ABRT: tcp_input forgets the segment without
\* freeing recv_data.
Aborted ==
    /\ seg' = NoSegment
    /\ leaked' = (leaked \/ seg.data # <<>>)

\* client_sent_func.
SentCallback(r, mem) ==
    LET c   == [k EXCEPT !.pending = @ - seg.acked]
        out == client_socks_recv_send_out(c, r)
        go  == seg' = [seg EXCEPT !.at = "recv"] /\ UNCHANGED leaked
    IN  /\ seg.at = "sent"
        /\ IF seg.acked = 0 \/ "sent" \notin k.cb THEN k' = k /\ go
           ELSE IF c.rbuf = <<>>
           THEN IF c.socks_closed /\ c.pending = 0
                THEN k' = client_free_client(c, mem) /\ Aborted
                ELSE k' = c /\ go
           ELSE IF out.client_closed THEN k' = out /\ Aborted
           ELSE IF out.rbuf = <<>> /\ ~out.socks_closed
           THEN /\ k' = client_socks_recv_initiate(out)
                /\ seg' = [seg EXCEPT !.at = "sentSync"] /\ UNCHANGED leaked
           ELSE k' = out /\ go
        /\ UNCHANGED <<toSocks, toClient>>

\* client_recv_func with a pbuf, or tcp_recv_null where it was removed.
RecvCallback ==
    LET n == Len(seg.data)
        c == [k EXCEPT !.buf = @ \o seg.data]
        to(stage) == seg' = [seg EXCEPT !.at = stage]
    IN  /\ seg.at = "recv"
        /\ IF n = 0 THEN k' = k /\ to("fin")
           ELSE IF "recv" \notin k.cb THEN k' = tcp_recved(k, n) /\ to("fin")
           ELSE IF n > TcpWnd - Len(k.buf) THEN k' = k /\ to("refused")
           ELSE IF k.buf = <<>> /\ k.socks_up THEN k' = client_send_to_socks(c) /\ to("recvSync")
           ELSE k' = c /\ to("fin")
        /\ UNCHANGED <<toSocks, toClient, leaked>>

\* client_recv_func without a pbuf: the application closed its side.
FinCallback(mem) ==
    LET c == [k EXCEPT !.rcv_wnd = Min2(TcpWnd, @ + 1)]
    IN  /\ seg.at = "fin"
        /\ k' = IF ~seg.fin THEN k
                ELSE IF "recv" \in k.cb THEN client_free_client(c, mem)
                ELSE c
        /\ seg' = NoSegment
        /\ UNCHANGED <<toSocks, toClient, leaked>>

\* SYNC_COMMIT of a callback ran the last job: ERR_ABRT if the client side
\* was freed meanwhile (DEAD_KILLED), else on to the next callback.
SyncEnd ==
    /\ seg.at \in {"acceptSync", "sentSync", "recvSync"} /\ k.jobs = <<>>
    /\ IF seg.at = "acceptSync" THEN seg' = NoSegment /\ UNCHANGED leaked
       ELSE IF k.client_closed THEN Aborted
       ELSE /\ seg' = [seg EXCEPT !.at = IF @ = "sentSync" THEN "recv" ELSE "fin"]
            /\ UNCHANGED leaked
    /\ UNCHANGED <<k, toSocks, toClient>>

-----------------------------------------------------------------------------
(* Events and jobs of the SOCKS connection *)

\* The handshake of BSocksClient ends, from an event or inside SYNC_COMMIT.
Handshaking == k.conn = "handshake" /\ k.jobs = <<>> /\ seg.at \in {"idle", "acceptSync"}

HandshakeDone ==
    /\ Handshaking
    /\ k' = SocksUp(k)
    /\ UNCHANGED <<seg, toSocks, toClient, leaked>>

HandshakeError(mem) ==
    /\ Handshaking
    /\ k' = client_free_socks(k, mem)
    /\ UNCHANGED <<seg, toSocks, toClient, leaked>>

\* connection_fd_handler: sending comes before receiving.
FdReady(events) ==
    /\ Quiet /\ events # {} /\ events \subseteq k.wait
    /\ k' = [k EXCEPT !.wait = @ \ events,
                      !.jobs = (IF "write" \in events THEN <<"send">> ELSE <<>>)
                               \o (IF "read" \in events THEN <<"recv">> ELSE <<>>)]
    /\ UNCHANGED <<seg, toSocks, toClient, leaked>>

Job(j) == k.jobs # <<>> /\ Head(k.jobs) = j

WouldBlock ==
    /\ k.jobs # <<>>
    /\ k' = [k EXCEPT !.jobs = Tail(@),
                      !.wait = @ \cup {IF Head(k.jobs) = "send" THEN "write" ELSE "read"}]
    /\ UNCHANGED <<seg, toSocks, toClient, leaked>>

\* connection_send wrote n bytes; the done job runs next.
Sent(n, mem) ==
    /\ Job("send") /\ n <= k.sending
    /\ k' = client_socks_send_handler_done([k EXCEPT !.jobs = Tail(@)], n, mem)
    /\ toSocks' = toSocks + n
    /\ UNCHANGED <<seg, toClient, leaked>>

\* connection_recv read n bytes; the done job runs next.
Received(n, r) ==
    /\ Job("recv") /\ k.read + n <= MaxDown
    /\ k' = client_socks_recv_handler_done([k EXCEPT !.jobs = Tail(@)], n, r)
    /\ UNCHANGED <<seg, toSocks, toClient, leaked>>

\* End of file (only when reading) or an error of the socket.
SocketError(mem) ==
    /\ k.jobs # <<>>
    /\ k' = client_free_socks(k, mem)
    /\ UNCHANGED <<seg, toSocks, toClient, leaked>>

\* connection_fd_handler: the descriptor reports an error although neither
\* direction waits for it.
IdleError(mem) ==
    /\ Quiet /\ k.conn = "up" /\ k.wait = {}
    /\ k' = client_free_socks(k, mem)
    /\ UNCHANGED <<seg, toSocks, toClient, leaked>>

\* tun2socks leaves its event loop.
Terminate ==
    /\ seg.at = "idle" /\ k.live
    /\ k' = client_murder(k)
    /\ UNCHANGED <<seg, toSocks, toClient, leaked>>

-----------------------------------------------------------------------------
Input ==
    \/ \E a \in 0..Len(k.sndq), n \in 0..TcpWnd, fin \in BOOLEAN : OpenInput(a, n, fin)
    \/ \E a \in 0..Len(k.sndq), all, data, fin \in BOOLEAN : ClosingInput(a, all, data, fin)

Callback ==
    \/ \E r \in Outcome, mem \in BOOLEAN : SentCallback(r, mem)
    \/ RecvCallback
    \/ \E mem \in BOOLEAN : FinCallback(mem)
    \/ SyncEnd

Progress ==
    \/ \E n \in 1..TcpWnd, mem \in BOOLEAN : Sent(n, mem)
    \/ \E n \in 1..RecvBuf, r \in Outcome : Received(n, r)
    \/ \E mem \in BOOLEAN : SocketError(mem)

Next ==
    \/ Accept \/ AcceptFails
    \/ Input \/ Callback
    \/ PcbKilled \/ TimeWaitExpires
    \/ HandshakeDone \/ \E mem \in BOOLEAN : HandshakeError(mem)
    \/ \E events \in SUBSET {"write", "read"} : FdReady(events)
    \/ WouldBlock \/ Progress \/ \E mem \in BOOLEAN : IdleError(mem)
    \/ Terminate

Spec == Init /\ [][Next]_vars

-----------------------------------------------------------------------------
(* Properties *)

\* The client side of the structure is in use.
ClientOpen == k.live /\ ~k.client_closed

\* The pcb and the tcp_client refer to each other exactly while both exist:
\* whenever tun2socks may still touch client->pcb the pcb is open, and no
\* callback stays registered for a structure whose client side was freed,
\* however the handlers nest.
PcbIsValid ==
    /\ ClientOpen => k.state \in {"ESTABLISHED", "CLOSE_WAIT"}
    /\ (k.cb # {}) = ClientOpen

\* "no buffer for data !?!" of client_recv_func never happens: the window
\* lwIP offers never exceeds what client->buf can still take.
NeverRefused == seg.at # "refused"

\* The count of unconfirmed bytes in the structure is what lwIP still holds,
\* so client_sent_func never confirms more than is pending.
PendingIsQueued ==
    ClientOpen => k.pending = Len(k.sndq) + (IF seg.at = "sent" THEN seg.acked ELSE 0)

\* No direction goes to sleep with work left: bytes for SOCKS have a send
\* under way; the socket is being read unless bytes for the client wait for
\* an acknowledgement that must still come.
NoLostWakeup ==
    k.live /\ k.socks_up /\ ~k.socks_closed =>
        /\ k.buf # <<>> => k.sending > 0 /\ ("write" \in k.wait \/ \E i \in DOMAIN k.jobs : k.jobs[i] = "send")
        /\ ~k.client_closed =>
             IF k.rbuf = <<>> THEN "read" \in k.wait \/ \E i \in DOMAIN k.jobs : k.jobs[i] = "recv"
             ELSE k.pending > 0

\* A client that waits after SOCKS closed still has bytes that will be
\* acknowledged: it is not left behind with nothing to wait for.
WaitsForSomething ==
    ClientOpen /\ k.socks_closed /\ seg.at = "idle" => k.pending > 0 /\ "sent" \in k.cb

\* The connection implements the two byte streams of ByteRelay: no byte is
\* lost in the middle, repeated or reordered by the buffers of either side,
\* and the application sees an end of file only after the last byte SOCKS
\* delivered, unless it closed first.
InSegment == IF seg.at \in {"sent", "sentSync", "recv"} THEN seg.data ELSE <<>>

Relay == INSTANCE ByteRelay WITH
    upTaken   <- k.rcvd,
    up        <- IF k.socks_closed THEN <<>> ELSE k.buf \o InSegment,
    upDone    <- toSocks,
    downTaken <- k.read,
    down      <- IF k.client_closed THEN k.sndq ELSE k.sndq \o k.rbuf,
    downDone  <- toClient,
    clientFin <- k.peerFin,
    eof       <- k.finq

RelaySpec == Relay!Spec

\* A pbuf handed to a callback is freed by someone.
NoPbufLeak == ~leaked

\* The reactor runs jobs and callbacks; a socket that is waited for becomes
\* ready, and the SOCKS server takes the bytes or the connection breaks.
Fairness ==
    /\ WF_vars(Callback) /\ WF_vars(Progress \/ WouldBlock)
    /\ WF_vars(HandshakeDone \/ \E mem \in BOOLEAN : HandshakeError(mem))
    /\ SF_vars(\E events \in {{"write"}, {"write", "read"}} : FdReady(events))
    /\ SF_vars(\E n \in 1..TcpWnd, mem \in BOOLEAN : Sent(n, mem))

FairSpec == Spec /\ Fairness

\* A client whose application is gone is released once its buffered bytes
\* went to SOCKS, or SOCKS failed.
ClosedClientIsFreed == k.live /\ k.client_closed ~> ~k.live
=============================================================================
