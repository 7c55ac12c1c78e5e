--------------------------- MODULE TcpClientProofs ---------------------------
(***************************************************************************)
(* Proofs about TcpClient for every size of the window, of the send queue  *)
(* and of the receive buffer, and for every bound on the bytes.            *)
(***************************************************************************)
EXTENDS TcpClient, SequenceTheorems, TLAPS

USE SizesAssumption

-----------------------------------------------------------------------------
(* The inductive invariant *)

Opened == {"ESTABLISHED", "CLOSE_WAIT"}

\* The client side of connection c is in use.
Up(c) == c.live /\ ~c.client_closed

\* The structure of c exists, or its client side was closed before it went.
Held(c) == c.live \/ c.client_closed

\* The SOCKS connection of c moves data.
Flowing(c) == c.live /\ c.socks_up /\ ~c.socks_closed

\* Job j is in queue q, and every job of q is there once.
In(q, j) == \E i \in DOMAIN q : q[i] = j
Once(q) == \A i, j \in DOMAIN q : q[i] = q[j] => i = j

Queued(c, j) == In(c.jobs, j)

\* The pcb is open exactly while the client side is, with the callbacks that
\* the progress of the SOCKS connection calls for.
PcbPart(c) ==
    /\ Up(c) <=> c.state \in Opened
    /\ c.state = "SYN_RCVD" =>
          /\ ~c.live /\ ~c.client_closed /\ ~c.socks_up /\ ~c.socks_closed
          /\ c.conn = "none" /\ c.buf = <<>> /\ c.sndq = <<>>
    /\ ~Up(c) => c.cb = {}
    /\ Up(c) => /\ "err" \in c.cb
                /\ "sent" \in c.cb <=> c.socks_up
                /\ "recv" \in c.cb <=> ~c.socks_closed

\* The two halves of the structure, and the connection below the second.
SocksPart(c) ==
    /\ c.live => c.conn # "none"
    /\ c.live => (c.socks_closed <=> c.conn = "freed")
    /\ c.live /\ ~c.socks_closed => (c.socks_up <=> c.conn = "up")
    /\ ~c.live => c.conn \in {"none", "freed"}
    /\ c.conn # "up" => c.jobs = <<>> /\ c.wait = {} /\ c.sending = 0
    /\ ~c.socks_up => c.rbuf = <<>> /\ c.pending = 0

\* The work under way in each direction.
WorkPart(c) ==
    /\ Once(c.jobs)
    /\ "write" \in c.wait => ~Queued(c, "send")
    /\ "read" \in c.wait => ~Queued(c, "recv")
    /\ c.sending <= Len(c.buf)
    /\ c.sending > 0 <=> "write" \in c.wait \/ Queued(c, "send")
    /\ Flowing(c) /\ c.buf # <<>> => c.sending > 0

\* Whatever waits has something to wait for: a closed client bytes for SOCKS,
\* a client after SOCKS closed and unread bytes an acknowledgement.
WaitPart(c) ==
    /\ c.live /\ c.client_closed => ~c.socks_closed /\ c.buf # <<>>
    /\ Up(c) /\ c.socks_closed => c.socks_up /\ c.pending > 0
    /\ Up(c) /\ c.rbuf # <<>> => c.pending > 0 /\ "read" \notin c.wait /\ ~Queued(c, "recv")
    /\ Up(c) /\ Flowing(c) /\ c.rbuf = <<>> => "read" \in c.wait \/ Queued(c, "recv")

\* The window and the send queue, where a more bytes were acknowledged and d
\* more bytes arrived than the callbacks have been told.
SizePart(c, a, d) ==
    /\ Len(c.sndq) <= SndBuf
    /\ Up(c) => c.pending = Len(c.sndq) + a
    /\ Up(c) /\ ~c.socks_closed => c.rcv_wnd + Len(c.buf) + d <= TcpWnd

Good(c, a, d) == PcbPart(c) /\ SocksPart(c) /\ WorkPart(c) /\ WaitPart(c) /\ SizePart(c, a, d)

\* A connection the handlers may leave behind, and one whose client side they
\* have just closed.
Sound(c, a, d) == c \in Connection /\ Good(c, a, d) /\ Held(c)
Closed(c) == c.client_closed /\ \A a, d : Sound(c, a, d)

\* What tcp_input has not yet told the callbacks of segment s.
Acked(s) == IF s.at = "sent" THEN s.acked ELSE 0
Arrived(s) == (IF s.at \in {"sent", "sentSync", "recv"} THEN Len(s.data) ELSE 0)
              + (IF s.fin THEN 1 ELSE 0)

\* Between its callbacks tcp_input finds the pcb open and no job waiting.
SegmentPart(c, s) ==
    /\ s.at # "refused"
    /\ s.at # "idle" => Held(c)
    /\ s.at \in {"sent", "recv", "fin"} => c.jobs = <<>> /\ Up(c)
    /\ s.at \in {"idle", "acceptSync"} => Acked(s) = 0 /\ Arrived(s) = 0 /\ s.data = <<>>

IInv == TypeOK /\ Good(k, Acked(seg), Arrived(seg)) /\ SegmentPart(k, seg)

-----------------------------------------------------------------------------
(* Sequences *)

Kind == {"send", "recv"}

LEMMA DropProperties ==
    ASSUME NEW s \in Seq(Nat), NEW n \in 0..Len(s)
    PROVE  /\ Drop(s, n) \in Seq(Nat) /\ Len(Drop(s, n)) = Len(s) - n
           /\ SubSeq(s, 1, n) \in Seq(Nat) /\ Len(SubSeq(s, 1, n)) = n
<1>1. Len(s) \in Nat /\ \A i \in 1..Len(s) : s[i] \in Nat
  BY LenProperties
<1>2. Drop(s, n) \in Seq(Nat) /\ Len(Drop(s, n)) = Len(s) - n
  <2>1. \A i \in n + 1 .. Len(s) : s[i] \in Nat
    BY <1>1
  <2> QED BY <1>1, <2>1, SubSeqProperties DEF Drop
<1>3. SubSeq(s, 1, n) \in Seq(Nat) /\ Len(SubSeq(s, 1, n)) = n
  <2>1. \A i \in 1..n : s[i] \in Nat
    BY <1>1
  <2> QED BY <1>1, <2>1, SubSeqProperties
<1> QED BY <1>2, <1>3

LEMMA RunProperties ==
    ASSUME NEW a \in Nat, NEW n \in Nat
    PROVE  Run(a, n) \in Seq(Nat) /\ Len(Run(a, n)) = n
<1>1. Run(a, n) \in [1..n -> Nat]
  BY DEF Run
<1>2. Run(a, n) \in Seq(Nat)
  BY <1>1, SeqDef
<1> QED BY <1>1, <1>2, LenProperties

LEMMA ConcatNat ==
    ASSUME NEW s \in Seq(Nat), NEW t \in Seq(Nat)
    PROVE  s \o t \in Seq(Nat) /\ Len(s \o t) = Len(s) + Len(t)
BY ConcatProperties

LEMMA EmptyNat ==
    /\ <<>> \in Seq(Nat) /\ Len(<<>>) = 0
    /\ \A s \in Seq(Nat) : Len(s) \in Nat /\ (s = <<>> <=> Len(s) = 0)
BY EmptySeq, LenProperties

LEMMA Min2Bounds ==
    ASSUME NEW x \in Nat, NEW y \in Nat
    PROVE  Min2(x, y) \in Nat /\ Min2(x, y) <= x /\ Min2(x, y) <= y
BY DEF Min2

\* Bytes taken from the buffer may be offered to the application again.
LEMMA WindowMoves ==
    ASSUME NEW v \in Nat, NEW w \in Nat, NEW len \in Nat, NEW n \in 0..len, NEW d \in Nat,
           v + len + d <= TcpWnd, w <= v + n
    PROVE  w + (len - n) + d <= TcpWnd
OBVIOUS

LEMMA WindowGrows ==
    ASSUME NEW v \in 0..TcpWnd, NEW n \in Nat
    PROVE  Min2(TcpWnd, v + n) \in 0..TcpWnd /\ Min2(TcpWnd, v + n) <= v + n
BY SizesAssumption DEF Min2

LEMMA WindowShrinks ==
    ASSUME NEW v \in 0..TcpWnd, NEW n \in Nat, NEW f \in {0, 1}, n + f <= v
    PROVE  v - n - f \in 0..TcpWnd
BY SizesAssumption

LEMMA Numbers ==
    ASSUME NEW c \in Connection
    PROVE  /\ c.rcv_wnd \in 0..TcpWnd /\ c.pending \in Nat /\ c.sending \in Nat /\ c.read \in Nat
           /\ c.buf \in Seq(Nat) /\ c.sndq \in Seq(Nat) /\ c.rbuf \in Seq(Nat)
           /\ Len(c.buf) \in Nat /\ Len(c.sndq) \in Nat /\ Len(c.rbuf) \in Nat
<1>1. /\ c.rcv_wnd \in 0..TcpWnd /\ c.pending \in Nat /\ c.sending \in Nat /\ c.read \in Nat
      /\ c.buf \in Seq(Nat) /\ c.sndq \in Seq(Nat) /\ c.rbuf \in Seq(Nat)
  BY DEF Connection
<1> QED BY <1>1, EmptyNat

LEMMA EmptyQueue ==
    <<>> \in Seq(Kind) /\ Once(<<>>) /\ \A j : ~In(<<>>, j)
BY EmptySeq DEF Once, In

LEMMA FrontOfQueue ==
    ASSUME NEW q \in Seq(Kind), Once(q), NEW j \in Kind, ~In(q, j)
    PROVE  /\ <<j>> \o q \in Seq(Kind) /\ <<j>> \o q # <<>>
           /\ Once(<<j>> \o q)
           /\ \A i : In(<<j>> \o q, i) <=> i = j \/ In(q, i)
<1> DEFINE r == <<j>> \o q
<1>1. <<j>> \in Seq(Kind) /\ Len(<<j>>) = 1 /\ <<j>>[1] = j
  OBVIOUS
<1>2. /\ r \in Seq(Kind) /\ Len(r) = 1 + Len(q) /\ Len(q) \in Nat
      /\ \A i \in 1 .. 1 + Len(q) : r[i] = IF i <= 1 THEN <<j>>[i] ELSE q[i - 1]
  BY <1>1, ConcatProperties, LenProperties
<1>3. /\ DOMAIN r = 1 .. 1 + Len(q) /\ DOMAIN q = 1..Len(q)
  BY <1>2, LenProperties
<1>4. r[1] = j /\ \A i \in 2 .. 1 + Len(q) : r[i] = q[i - 1] /\ i - 1 \in DOMAIN q
  BY <1>1, <1>2, <1>3
<1>5. Once(r)
  <2> SUFFICES ASSUME NEW m \in DOMAIN r, NEW n \in DOMAIN r, r[m] = r[n] PROVE m = n
    BY DEF Once
  <2>1. CASE m = 1 \/ n = 1
    BY <1>2, <1>3, <1>4, <2>1 DEF In
  <2>2. CASE m # 1 /\ n # 1
    <3>1. q[m - 1] = q[n - 1] /\ m - 1 \in DOMAIN q /\ n - 1 \in DOMAIN q
      BY <1>2, <1>3, <1>4, <2>2
    <3>2. m - 1 = n - 1
      BY <3>1 DEF Once
    <3> QED BY <1>2, <1>3, <3>2
  <2> QED BY <2>1, <2>2
<1>6. ASSUME NEW i PROVE In(r, i) <=> i = j \/ In(q, i)
  <2>1. In(q, i) => In(r, i)
    <3> SUFFICES ASSUME NEW m \in DOMAIN q, q[m] = i PROVE In(r, i)
      BY DEF In
    <3>1. m + 1 \in DOMAIN r /\ r[m + 1] = q[m]
      BY <1>2, <1>3
    <3> QED BY <3>1 DEF In
  <2>2. In(r, i) => i = j \/ In(q, i)
    BY <1>2, <1>3, <1>4 DEF In
  <2>3. i = j => In(r, i)
    BY <1>2, <1>3, <1>4 DEF In
  <2> QED BY <2>1, <2>2, <2>3
<1>7. r # <<>>
  BY <1>2, EmptySeq
<1> QED BY <1>2, <1>5, <1>6, <1>7

LEMMA TailOfQueue ==
    ASSUME NEW q \in Seq(Kind), Once(q), q # <<>>
    PROVE  /\ Head(q) \in Kind /\ In(q, Head(q))
           /\ Tail(q) \in Seq(Kind) /\ Once(Tail(q))
           /\ \A i : In(Tail(q), i) <=> i # Head(q) /\ In(q, i)
<1>1. /\ Head(q) \in Kind /\ Head(q) = q[1] /\ Tail(q) \in Seq(Kind)
      /\ Len(q) \in Nat /\ Len(q) > 0 /\ Len(Tail(q)) = Len(q) - 1
      /\ \A i \in 1 .. Len(Tail(q)) : Tail(q)[i] = q[i + 1]
  BY HeadTailProperties, EmptySeq, LenProperties
<1>2. DOMAIN q = 1..Len(q) /\ DOMAIN Tail(q) = 1 .. Len(q) - 1
  BY <1>1, LenProperties
<1>3. Once(Tail(q))
  <2> SUFFICES ASSUME NEW m \in DOMAIN Tail(q), NEW n \in DOMAIN Tail(q), Tail(q)[m] = Tail(q)[n]
               PROVE  m = n
    BY DEF Once
  <2>1. q[m + 1] = q[n + 1] /\ m + 1 \in DOMAIN q /\ n + 1 \in DOMAIN q
    BY <1>1, <1>2
  <2>2. m + 1 = n + 1
    BY <2>1 DEF Once
  <2> QED BY <1>1, <1>2, <2>2
<1>4. In(q, Head(q))
  BY <1>1, <1>2 DEF In
<1>5. ASSUME NEW i PROVE In(Tail(q), i) <=> i # Head(q) /\ In(q, i)
  <2>1. ASSUME NEW m \in DOMAIN Tail(q), Tail(q)[m] = i PROVE i # Head(q) /\ In(q, i)
    <3>1. q[m + 1] = i /\ m + 1 \in DOMAIN q /\ m + 1 # 1 /\ 1 \in DOMAIN q
      BY <1>1, <1>2, <2>1
    <3>2. i # q[1]
      BY <3>1 DEF Once
    <3> QED BY <1>1, <3>1, <3>2 DEF In
  <2>2. ASSUME NEW m \in DOMAIN q, q[m] = i, i # Head(q) PROVE In(Tail(q), i)
    <3>1. m # 1 /\ m - 1 \in DOMAIN Tail(q) /\ Tail(q)[m - 1] = i
      BY <1>1, <1>2, <2>2
    <3> QED BY <3>1 DEF In
  <2> QED BY <2>1, <2>2 DEF In
<1> QED BY <1>1, <1>3, <1>4, <1>5

-----------------------------------------------------------------------------
(* The handlers *)

\* A connection whose pcb has just gone, as client_handle_freed_client gets it.
Gone(c) ==
    /\ c \in Connection /\ c.live
    /\ c.state \notin Opened \cup {"SYN_RCVD"} /\ c.cb = {} /\ Len(c.sndq) <= SndBuf
    /\ SocksPart(c) /\ WorkPart(c)

LEMMA HandleFreedTyped ==
    ASSUME NEW c \in Connection
    PROVE  client_handle_freed_client(c) \in Connection /\ client_handle_freed_client(c).client_closed
<1> DEFINE r == client_handle_freed_client(c)
           e == [c EXCEPT !.client_closed = TRUE]
           f == CloseSocks(e)
<1>1. e \in Connection /\ e.client_closed
  BY DEF Connection
<1>2. f \in Connection /\ f.client_closed
  <2> HIDE DEF e
  <2>1. [e EXCEPT !.conn = "freed", !.sending = 0, !.jobs = <<>>, !.wait = {}, !.socks_closed = TRUE] \in Connection
    BY <1>1, EmptyQueue DEF Connection, Kind
  <2>2. f = [e EXCEPT !.conn = "freed", !.sending = 0, !.jobs = <<>>, !.wait = {}, !.socks_closed = TRUE]
    BY <1>1 DEF CloseSocks, BSocksClient_Free, Connection
  <2> QED BY ZenonT(60), <1>1, <2>1, <2>2 DEF Connection
<1>3. r \in {e, client_dealloc(f), client_dealloc(e)}
  BY DEF client_handle_freed_client
<1> HIDE DEF e, f, r
<1>4. ASSUME NEW x \in Connection, x.client_closed
      PROVE  client_dealloc(x) \in Connection /\ client_dealloc(x).client_closed
  BY <1>4 DEF client_dealloc, Connection
<1>5. r \in Connection /\ r.client_closed
  BY <1>1, <1>2, <1>3, <1>4
<1> QED BY <1>5 DEF r

LEMMA HandleFreedCloses ==
    ASSUME NEW c, Gone(c)
    PROVE  Closed(client_handle_freed_client(c))
<1> DEFINE r == client_handle_freed_client(c)
<1>1. r \in Connection /\ r.client_closed
  BY HandleFreedTyped DEF Gone
<1>2. PcbPart(r)
  BY DEF PcbPart, Up, Opened, client_handle_freed_client, client_dealloc, CloseSocks, BSocksClient_Free, Connection, Gone
<1>3. SocksPart(r)
  BY DEF SocksPart, client_handle_freed_client, client_dealloc, CloseSocks, BSocksClient_Free, Connection, Gone
<1>4. WorkPart(r)
  <2>1. r.buf = c.buf
    BY DEF client_handle_freed_client, client_dealloc, CloseSocks, BSocksClient_Free, Connection, Gone
  <2>2. \/ /\ r.jobs = c.jobs /\ r.wait = c.wait /\ r.sending = c.sending
           /\ (Flowing(r) => Flowing(c))
        \/ r.jobs = <<>> /\ r.wait = {} /\ r.sending = 0 /\ r.socks_closed
    BY DEF Flowing, client_handle_freed_client, client_dealloc, CloseSocks, BSocksClient_Free, Connection, Gone
  <2>3. WorkPart(c) /\ Len(c.buf) \in Nat
    BY Numbers DEF Gone
  <2> HIDE DEF r
  <2>4. CASE /\ r.jobs = c.jobs /\ r.wait = c.wait /\ r.sending = c.sending
             /\ (Flowing(r) => Flowing(c))
    BY <2>1, <2>3, <2>4 DEF WorkPart, Queued
  <2>5. CASE r.jobs = <<>> /\ r.wait = {} /\ r.sending = 0 /\ r.socks_closed
    <3>1. Once(r.jobs) /\ \A j : ~Queued(r, j)
      BY <2>5, EmptyQueue DEF Queued
    <3>2. ~Flowing(r) /\ "write" \notin r.wait /\ "read" \notin r.wait
      BY <2>5 DEF Flowing
    <3>3. r.sending <= Len(r.buf) /\ ~(r.sending > 0)
      BY <2>1, <2>3, <2>5
    <3> QED BY <3>1, <3>2, <3>3 DEF WorkPart
  <2> QED BY <2>2, <2>4, <2>5
<1>5. WaitPart(r)
  BY DEF WaitPart, Up, client_handle_freed_client, client_dealloc, CloseSocks, BSocksClient_Free, Connection, Gone
<1>6. \A a, d : SizePart(r, a, d)
  BY DEF SizePart, Up, client_handle_freed_client, client_dealloc, CloseSocks, BSocksClient_Free, Connection, Gone
<1> QED BY <1>1, <1>2, <1>3, <1>4, <1>5, <1>6 DEF Closed, Sound, Good, Held

\* A client that is open and whose two halves are in order.
Present(c) ==
    /\ c \in Connection /\ c.live /\ c.state \in Opened /\ Len(c.sndq) <= SndBuf
    /\ SocksPart(c) /\ WorkPart(c)

\* r and c differ only in their pcbs.
SameClient(r, c) ==
    /\ r.live = c.live /\ r.client_closed = c.client_closed /\ r.buf = c.buf
    /\ r.socks_up = c.socks_up /\ r.socks_closed = c.socks_closed
    /\ r.rbuf = c.rbuf /\ r.pending = c.pending /\ r.conn = c.conn
    /\ r.sending = c.sending /\ r.jobs = c.jobs /\ r.wait = c.wait

LEMMA SameClientParts ==
    ASSUME NEW c, NEW r, SameClient(r, c), SocksPart(c), WorkPart(c)
    PROVE  SocksPart(r) /\ WorkPart(r)
BY DEF SameClient, SocksPart, WorkPart, Queued, Flowing

LEMMA QuietProperties ==
    ASSUME NEW c \in Connection
    PROVE  LET q == [c EXCEPT !.cb = {}]
           IN  /\ q \in Connection /\ q.cb = {} /\ SameClient(q, c)
               /\ q.state = c.state /\ q.sndq = c.sndq /\ q.rcv_wnd = c.rcv_wnd
<1>1. [c EXCEPT !.cb = {}] \in Connection
  BY DEF Connection
<1> QED BY <1>1 DEF Connection, SameClient

LEMMA AbortProperties ==
    ASSUME NEW c \in Connection
    PROVE  LET r == tcp_abort(c)
           IN  r \in Connection /\ r.state = "FREED" /\ r.sndq = <<>> /\ r.cb = {} /\ SameClient(r, c)
<1>1. tcp_abort(c) \in Connection
  <2>1. "FREED" \in PcbState
    BY DEF PcbState
  <2> QED BY <2>1, EmptyNat DEF tcp_abort, Connection
<1> QED BY <1>1 DEF tcp_abort, Connection, SameClient

LEMMA CloseProperties ==
    ASSUME NEW c \in Connection, c.state \in Opened, NEW mem \in BOOLEAN, ~CloseFails(c, mem)
    PROVE  LET r == tcp_close(c, mem)
           IN  /\ r \in Connection /\ r.state \notin Opened \cup {"SYN_RCVD"}
               /\ r.sndq \in {c.sndq, <<>>} /\ r.cb = c.cb /\ SameClient(r, c)
<1> DEFINE rst == [c EXCEPT !.state = IF @ = "ESTABLISHED" THEN "TIME_WAIT" ELSE "FREED", !.sndq = <<>>]
           fin == [c EXCEPT !.state = IF @ = "ESTABLISHED" THEN "FIN_WAIT_1" ELSE "LAST_ACK", !.finq = TRUE]
<1>1. tcp_close(c, mem) = IF c.rcv_wnd # TcpWnd THEN rst ELSE fin
  BY DEF tcp_close, Opened
<1>2. {"TIME_WAIT", "FREED", "FIN_WAIT_1", "LAST_ACK"} \subseteq PcbState
  BY DEF PcbState, Active
<1>3. /\ rst \in Connection /\ rst.state \notin Opened \cup {"SYN_RCVD"}
      /\ rst.sndq = <<>> /\ rst.cb = c.cb /\ SameClient(rst, c)
  <2>1. rst \in Connection
    BY <1>2, EmptyNat DEF Connection
  <2>2. rst.state \notin Opened \cup {"SYN_RCVD"}
    BY DEF Connection, Opened
  <2>3. rst.sndq = <<>> /\ rst.cb = c.cb
    BY DEF Connection
  <2>4. SameClient(rst, c)
    BY DEF Connection, SameClient
  <2> QED BY <2>1, <2>2, <2>3, <2>4
<1>4. /\ fin \in Connection /\ fin.state \notin Opened \cup {"SYN_RCVD"}
      /\ fin.sndq = c.sndq /\ fin.cb = c.cb /\ SameClient(fin, c)
  <2>1. fin \in Connection
    BY <1>2 DEF Connection
  <2>2. fin.state \notin Opened \cup {"SYN_RCVD"}
    BY DEF Connection, Opened
  <2>3. fin.sndq = c.sndq /\ fin.cb = c.cb
    BY DEF Connection
  <2>4. SameClient(fin, c)
    BY DEF Connection, SameClient
  <2> QED BY <2>1, <2>2, <2>3, <2>4
<1> HIDE DEF rst, fin
<1> QED BY <1>1, <1>3, <1>4

LEMMA FreeClientCloses ==
    ASSUME NEW c, Present(c), NEW mem \in BOOLEAN
    PROVE  Closed(client_free_client(c, mem))
<1> DEFINE q == [c EXCEPT !.cb = {}]
           g == IF CloseFails(q, mem) THEN tcp_abort(q) ELSE tcp_close(q, mem)
<1>1. /\ q \in Connection /\ q.cb = {} /\ SameClient(q, c)
      /\ q.state \in Opened /\ q.sndq = c.sndq
  BY QuietProperties DEF Present
<1> HIDE DEF q
<1>2. /\ g \in Connection /\ g.state \notin Opened \cup {"SYN_RCVD"} /\ g.cb = {}
      /\ g.sndq \in {c.sndq, <<>>} /\ SameClient(g, q)
  BY <1>1, AbortProperties, CloseProperties DEF Opened
<1> HIDE DEF g
<1>3. SocksPart(g) /\ WorkPart(g)
  BY <1>1, <1>2, SameClientParts DEF Present
<1>4. Gone(g)
  BY <1>1, <1>2, <1>3, EmptyNat DEF Gone, Present, SameClient
<1>5. Closed(client_handle_freed_client(g))
  BY <1>4, HandleFreedCloses
<1> QED BY <1>5 DEF g, q, client_free_client

LEMMA AbortedIsGone ==
    ASSUME NEW c, Present(c)
    PROVE  Gone(tcp_abort(c)) /\ Gone(tcp_abort([c EXCEPT !.cb = {}]))
<1>1. ASSUME NEW q \in Connection, SameClient(q, c)
      PROVE  Gone(tcp_abort(q))
  <2> DEFINE g == tcp_abort(q)
  <2>1. g \in Connection /\ g.state = "FREED" /\ g.sndq = <<>> /\ g.cb = {} /\ SameClient(g, q)
    BY AbortProperties
  <2> HIDE DEF g
  <2>2. SocksPart(g) /\ WorkPart(g)
    BY <1>1, <2>1, SameClientParts DEF Present
  <2>3. Gone(g)
    BY <1>1, <2>1, <2>2, EmptyNat DEF Gone, Present, SameClient, Opened
  <2> QED BY <2>3 DEF g
<1>2. SameClient(c, c) /\ c \in Connection
  BY DEF SameClient, Present
<1> QED BY <1>1, <1>2, QuietProperties

LEMMA AbortClientCloses ==
    ASSUME NEW c, Present(c)
    PROVE  Closed(client_abort_client(c))
BY AbortedIsGone, HandleFreedCloses DEF client_abort_client

\* What CloseSocks leaves of either side.
LEMMA CloseSocksProperties ==
    ASSUME NEW c \in Connection, SocksPart(c), WorkPart(c)
    PROVE  LET f == CloseSocks(c)
           IN  /\ f \in Connection /\ SocksPart(f) /\ WorkPart(f)
               /\ f.socks_closed /\ f.conn = "freed" /\ f.jobs = <<>>
               /\ f.cb = IF c.socks_up /\ ~c.client_closed THEN c.cb \ {"recv"} ELSE c.cb
               /\ f.state = c.state /\ f.live = c.live /\ f.client_closed = c.client_closed
               /\ f.sndq = c.sndq /\ f.rbuf = c.rbuf /\ f.pending = c.pending
               /\ f.socks_up = c.socks_up /\ f.rcv_wnd = c.rcv_wnd /\ f.buf = c.buf
<1> DEFINE f == CloseSocks(c)
<1>1. f \in Connection
  BY ZenonT(60), EmptyQueue DEF CloseSocks, BSocksClient_Free, Connection, Kind
<1>2. SocksPart(f)
  BY DEF CloseSocks, BSocksClient_Free, Connection, SocksPart
<1>3. WorkPart(f)
  BY EmptyQueue, EmptyNat DEF CloseSocks, BSocksClient_Free, Connection, WorkPart, Queued, Flowing
<1>4. /\ f.socks_closed /\ f.conn = "freed" /\ f.jobs = <<>>
      /\ f.cb = IF c.socks_up /\ ~c.client_closed THEN c.cb \ {"recv"} ELSE c.cb
      /\ f.state = c.state /\ f.live = c.live /\ f.client_closed = c.client_closed
  BY DEF CloseSocks, BSocksClient_Free, Connection
<1>5. /\ f.sndq = c.sndq /\ f.rbuf = c.rbuf /\ f.pending = c.pending
      /\ f.socks_up = c.socks_up /\ f.rcv_wnd = c.rcv_wnd /\ f.buf = c.buf
  BY DEF CloseSocks, BSocksClient_Free, Connection
<1> HIDE DEF f
<1>6. /\ f \in Connection /\ SocksPart(f) /\ WorkPart(f)
      /\ f.socks_closed /\ f.conn = "freed" /\ f.jobs = <<>>
      /\ f.cb = IF c.socks_up /\ ~c.client_closed THEN c.cb \ {"recv"} ELSE c.cb
      /\ f.state = c.state /\ f.live = c.live /\ f.client_closed = c.client_closed
      /\ f.sndq = c.sndq /\ f.rbuf = c.rbuf /\ f.pending = c.pending
      /\ f.socks_up = c.socks_up /\ f.rcv_wnd = c.rcv_wnd /\ f.buf = c.buf
  BY <1>1, <1>2, <1>3, <1>4, <1>5
<1> QED BY <1>6 DEF f

LEMMA DeallocCloses ==
    ASSUME NEW c \in Connection, SocksPart(c), WorkPart(c), c.conn = "freed", c.client_closed,
           c.state \notin Opened \cup {"SYN_RCVD"}, c.cb = {}, Len(c.sndq) <= SndBuf
    PROVE  Closed(client_dealloc(c))
<1> DEFINE r == client_dealloc(c)
<1>1. r \in Connection /\ r.client_closed /\ ~r.live
  BY DEF client_dealloc, Connection
<1>2. PcbPart(r) /\ WaitPart(r) /\ \A a, d : SizePart(r, a, d)
  BY <1>1 DEF client_dealloc, Connection, PcbPart, WaitPart, SizePart, Up
<1>3. SocksPart(r) /\ WorkPart(r)
  BY DEF client_dealloc, Connection, SocksPart, WorkPart, Flowing, Queued
<1> QED BY <1>1, <1>2, <1>3 DEF Closed, Sound, Good, Held

\* client_free_socks of a closed client, whatever is left in its buffer.
LEMMA FreeSocksOfClosed ==
    ASSUME NEW c \in Connection, SocksPart(c), WorkPart(c), c.client_closed, PcbPart(c), Len(c.sndq) <= SndBuf,
           c.live, NEW mem \in BOOLEAN
    PROVE  Closed(client_free_socks(c, mem))
<1> DEFINE f == CloseSocks(c)
<1>1. client_free_socks(c, mem) = client_dealloc(f)
  BY DEF client_free_socks
<1>2. c.state \notin Opened \cup {"SYN_RCVD"} /\ c.cb = {}
  BY DEF PcbPart, Up
<1>3. /\ f \in Connection /\ SocksPart(f) /\ WorkPart(f) /\ f.conn = "freed" /\ f.client_closed
      /\ f.state = c.state /\ f.cb = c.cb /\ f.sndq = c.sndq
  BY CloseSocksProperties
<1> HIDE DEF f
<1>4. Closed(client_dealloc(f))
  BY <1>2, <1>3, DeallocCloses
<1> QED BY <1>1, <1>4

\* client_free_socks of a client in order: it stays for the bytes lwIP holds,
\* or both sides go.
LEMMA FreeSocksIsSound ==
    ASSUME NEW a \in Nat, NEW d \in Nat, NEW c, Sound(c, a, d), c.live, ~c.socks_closed, NEW mem \in BOOLEAN
    PROVE  Sound(client_free_socks(c, mem), a, d)
<1> DEFINE f == CloseSocks(c)
           r == client_free_socks(c, mem)
<1>1. /\ f \in Connection /\ SocksPart(f) /\ WorkPart(f)
      /\ f.socks_closed /\ f.conn = "freed" /\ f.jobs = <<>>
      /\ f.cb = IF c.socks_up /\ ~c.client_closed THEN c.cb \ {"recv"} ELSE c.cb
      /\ f.state = c.state /\ f.live = c.live /\ f.client_closed = c.client_closed
      /\ f.sndq = c.sndq /\ f.rbuf = c.rbuf /\ f.pending = c.pending
      /\ f.socks_up = c.socks_up /\ f.rcv_wnd = c.rcv_wnd /\ f.buf = c.buf
  BY CloseSocksProperties DEF Sound, Good
<1>2. CASE c.client_closed
  <2>1. Closed(r)
    BY <1>2, FreeSocksOfClosed DEF Sound, Good, SizePart
  <2> QED BY <2>1 DEF Closed
<1>3. CASE ~c.client_closed /\ c.socks_up /\ (c.rbuf # <<>> \/ c.pending > 0)
  <2>1. r = f
    BY <1>3 DEF client_free_socks
  <2> HIDE DEF f
  <2>2. Up(c) /\ Up(f) /\ Held(f) /\ ~Flowing(f)
    BY <1>1, <1>3 DEF Up, Held, Flowing
  <2>3. PcbPart(f)
    BY <1>1, <1>3, <2>2 DEF Sound, Good, PcbPart, Opened
  <2>4. WaitPart(f)
    BY <1>1, <1>3, <2>2, EmptyQueue DEF Sound, Good, WaitPart, SocksPart, Queued
  <2>5. SizePart(f, a, d)
    BY <1>1, <2>2 DEF Sound, Good, SizePart
  <2> QED BY <1>1, <2>1, <2>2, <2>3, <2>4, <2>5 DEF Sound, Good
<1>4. CASE ~c.client_closed /\ ~(c.socks_up /\ (c.rbuf # <<>> \/ c.pending > 0))
  <2>1. r = client_free_client(f, mem)
    BY <1>4 DEF client_free_socks
  <2> HIDE DEF f
  <2>2. Present(f)
    BY <1>1, <1>4 DEF Sound, Good, PcbPart, SizePart, Up, Present
  <2>3. Closed(r)
    BY <2>1, <2>2, FreeClientCloses
  <2> QED BY <2>3 DEF Closed
<1> QED BY <1>2, <1>3, <1>4

LEMMA MurderCloses ==
    ASSUME NEW a \in Nat, NEW d \in Nat, NEW c, Sound(c, a, d), c.live
    PROVE  Closed(client_murder(c))
<1> DEFINE q == [c EXCEPT !.cb = {}, !.client_closed = TRUE]
           p == IF c.client_closed THEN c ELSE tcp_abort(q)
           f == IF p.socks_closed THEN p ELSE BSocksClient_Free(p)
<1>0. c \in Connection /\ PcbPart(c) /\ SocksPart(c) /\ WorkPart(c) /\ SizePart(c, a, d)
  BY DEF Sound, Good
<1>1. /\ q \in Connection /\ q.cb = {} /\ q.client_closed /\ q.state = c.state /\ q.live
      /\ SocksPart(q) /\ WorkPart(q)
  <2>1. q \in Connection
    BY <1>0 DEF Connection
  <2>2. q.cb = {} /\ q.client_closed /\ q.state = c.state /\ q.live
    BY <1>0 DEF Connection
  <2>3. SocksPart(q) /\ WorkPart(q)
    BY <1>0 DEF Connection, SocksPart, WorkPart, Flowing, Queued
  <2> QED BY <2>1, <2>2, <2>3
<1> HIDE DEF q
<1>2. /\ p \in Connection /\ p.cb = {} /\ p.client_closed /\ p.live
      /\ p.state \notin Opened \cup {"SYN_RCVD"} /\ Len(p.sndq) <= SndBuf
      /\ SocksPart(p) /\ WorkPart(p)
  <2>1. CASE c.client_closed
    BY <1>0, <2>1 DEF PcbPart, SizePart, Up
  <2>2. CASE ~c.client_closed
    <3>1. /\ p \in Connection /\ p.cb = {} /\ p.state = "FREED" /\ p.sndq = <<>> /\ SameClient(p, q)
      BY <1>1, <2>2, AbortProperties
    <3> HIDE DEF p
    <3>2. SocksPart(p) /\ WorkPart(p)
      BY <1>1, <3>1, SameClientParts
    <3> QED BY <1>1, <3>1, <3>2, EmptyNat DEF SameClient, Opened
  <2> QED BY <2>1, <2>2
<1> HIDE DEF p
<1>3. /\ f \in Connection /\ f.conn = "freed" /\ f.client_closed /\ f.cb = {}
      /\ f.state \notin Opened \cup {"SYN_RCVD"} /\ Len(f.sndq) <= SndBuf
      /\ SocksPart(f) /\ WorkPart(f)
  <2>1. CASE p.socks_closed
    BY <1>2, <2>1 DEF SocksPart
  <2>2. CASE ~p.socks_closed
    <3>1. f = CloseSocks(p)
      BY <1>2, <2>2 DEF CloseSocks, Connection
    <3> HIDE DEF f
    <3>2. /\ f \in Connection /\ SocksPart(f) /\ WorkPart(f)
          /\ f.conn = "freed" /\ f.client_closed = p.client_closed
          /\ f.cb = IF p.socks_up /\ ~p.client_closed THEN p.cb \ {"recv"} ELSE p.cb
          /\ f.state = p.state /\ f.sndq = p.sndq
      BY <1>2, <3>1, CloseSocksProperties
    <3> QED BY <1>2, <3>2
  <2> QED BY <2>1, <2>2
<1> HIDE DEF f
<1>4. Closed(client_dealloc(f))
  BY <1>3, DeallocCloses
<1> QED BY <1>4 DEF f, p, q, client_murder

-----------------------------------------------------------------------------
(* Moving data *)

\* A connection that has served the head of its job queue.
LEMMA ServedProperties ==
    ASSUME NEW c \in Connection, c.jobs # <<>>, Once(c.jobs)
    PROVE  LET t == [c EXCEPT !.jobs = Tail(@)]
           IN  /\ t \in Connection /\ t = [c EXCEPT !.jobs = t.jobs]
               /\ Once(t.jobs) /\ \A j : Queued(t, j) <=> j # Head(c.jobs) /\ Queued(c, j)
<1>1. /\ Tail(c.jobs) \in Seq(Kind) /\ Once(Tail(c.jobs))
      /\ \A j : In(Tail(c.jobs), j) <=> j # Head(c.jobs) /\ In(c.jobs, j)
  <2>1. c.jobs \in Seq(Kind)
    BY DEF Connection, Kind
  <2> QED BY <2>1, TailOfQueue
<1> DEFINE t == [c EXCEPT !.jobs = Tail(@)]
<1>2. t \in Connection /\ t.jobs = Tail(c.jobs)
  BY <1>1 DEF Connection, Kind
<1>3. t = [c EXCEPT !.jobs = t.jobs]
  BY <1>2
<1> QED BY <1>1, <1>2, <1>3 DEF Queued

LEMMA SendToSocksProperties ==
    ASSUME NEW c \in Connection, Once(c.jobs), ~Queued(c, "send")
    PROVE  LET r == client_send_to_socks(c)
           IN  /\ r \in Connection /\ r = [c EXCEPT !.jobs = r.jobs, !.sending = Len(c.buf)]
               /\ Once(r.jobs) /\ r.jobs # <<>>
               /\ \A j : Queued(r, j) <=> j = "send" \/ Queued(c, j)
<1> DEFINE q == <<"send">> \o c.jobs
           r == client_send_to_socks(c)
<1>1. /\ q \in Seq(Kind) /\ Once(q) /\ q # <<>>
      /\ \A j : In(q, j) <=> j = "send" \/ In(c.jobs, j)
  <2>1. c.jobs \in Seq(Kind) /\ "send" \in Kind
    BY DEF Connection, Kind
  <2> QED BY <2>1, FrontOfQueue DEF Queued
<1>2. r = [c EXCEPT !.jobs = q, !.sending = Len(c.buf)]
  BY DEF client_send_to_socks, Connection
<1> HIDE DEF q, r
<1>3. r \in Connection /\ r.jobs = q
  <2>1. Len(c.buf) \in Nat
    BY EmptyNat DEF Connection
  <2> QED BY <1>1, <1>2, <2>1 DEF Connection, Kind
<1>4. r \in Connection /\ r = [c EXCEPT !.jobs = r.jobs, !.sending = Len(c.buf)]
               /\ Once(r.jobs) /\ r.jobs # <<>>
               /\ \A j : Queued(r, j) <=> j = "send" \/ Queued(c, j)
  BY <1>1, <1>2, <1>3 DEF Queued
<1> QED BY <1>4 DEF r

LEMMA RecvInitiateProperties ==
    ASSUME NEW c \in Connection, Once(c.jobs), ~Queued(c, "recv")
    PROVE  LET r == client_socks_recv_initiate(c)
           IN  /\ r \in Connection /\ r = [c EXCEPT !.jobs = r.jobs]
               /\ Once(r.jobs) /\ r.jobs # <<>>
               /\ \A j : Queued(r, j) <=> j = "recv" \/ Queued(c, j)
<1> DEFINE q == <<"recv">> \o c.jobs
           r == client_socks_recv_initiate(c)
<1>1. /\ q \in Seq(Kind) /\ Once(q) /\ q # <<>>
      /\ \A j : In(q, j) <=> j = "recv" \/ In(c.jobs, j)
  <2>1. c.jobs \in Seq(Kind) /\ "recv" \in Kind
    BY DEF Connection, Kind
  <2> QED BY <2>1, FrontOfQueue DEF Queued
<1>2. r = [c EXCEPT !.jobs = q]
  BY DEF client_socks_recv_initiate, Connection
<1> HIDE DEF q, r
<1>3. r \in Connection /\ r.jobs = q
  BY <1>1, <1>2 DEF Connection, Kind
<1>4. r \in Connection /\ r = [c EXCEPT !.jobs = r.jobs]
               /\ Once(r.jobs) /\ r.jobs # <<>>
               /\ \A j : Queued(r, j) <=> j = "recv" \/ Queued(c, j)
  BY <1>1, <1>2, <1>3 DEF Queued
<1> QED BY <1>4 DEF r

\* client_socks_send_handler_done after n bytes of a send were written.
LEMMA SendDoneIsSound ==
    ASSUME NEW a \in Nat, NEW d \in Nat, NEW c, Sound(c, a, d), Flowing(c),
           c.jobs # <<>>, Head(c.jobs) = "send", NEW n \in 1..c.sending, NEW mem \in BOOLEAN
    PROVE  Sound(client_socks_send_handler_done([c EXCEPT !.jobs = Tail(@)], n, mem), a, d)
<1> DEFINE t == [c EXCEPT !.jobs = Tail(@)]
           b == [t EXCEPT !.buf = Drop(@, n), !.sending = 0]
           x == IF t.client_closed THEN b ELSE tcp_recved(b, n)
           r == client_socks_send_handler_done(t, n, mem)
<1> SUFFICES Sound(r, a, d)
  OBVIOUS
<1>0. /\ c \in Connection /\ PcbPart(c) /\ SocksPart(c) /\ WorkPart(c) /\ WaitPart(c) /\ SizePart(c, a, d)
      /\ Held(c)
  BY DEF Sound, Good
<1>1. /\ t \in Connection /\ t = [c EXCEPT !.jobs = t.jobs]
      /\ Once(t.jobs) /\ \A j : Queued(t, j) <=> j # "send" /\ Queued(c, j)
  BY <1>0, ServedProperties DEF WorkPart
<1>2. Queued(c, "send")
  <2>1. c.jobs \in Seq(Kind)
    BY <1>0 DEF Connection, Kind
  <2> QED BY <1>0, <2>1, TailOfQueue DEF WorkPart, Queued
<1> HIDE DEF t
<1>3. /\ n \in 0..Len(c.buf) /\ c.buf \in Seq(Nat) /\ Len(c.buf) \in Nat
      /\ Drop(c.buf, n) \in Seq(Nat) /\ Len(Drop(c.buf, n)) = Len(c.buf) - n
  <2>1. c.buf \in Seq(Nat) /\ c.sending \in Nat /\ c.sending <= Len(c.buf)
    BY <1>0 DEF Connection, WorkPart
  <2>2. n \in 0..Len(c.buf) /\ Len(c.buf) \in Nat
    BY <2>1, EmptyNat
  <2> QED BY <2>1, <2>2, DropProperties
<1> DEFINE w == IF c.client_closed THEN c.rcv_wnd ELSE Min2(TcpWnd, c.rcv_wnd + n)
<1>4. w \in 0..TcpWnd /\ (~c.client_closed => w <= c.rcv_wnd + n)
  <2>1. c.rcv_wnd \in 0..TcpWnd /\ c.sending \in Nat
    BY <1>0, Numbers
  <2>2. n \in Nat
    BY <2>1
  <2> QED BY <2>1, <2>2, WindowGrows
<1>5. x = [c EXCEPT !.jobs = t.jobs, !.buf = Drop(c.buf, n), !.sending = 0, !.rcv_wnd = w]
  <2>1. t.buf = c.buf /\ t.client_closed = c.client_closed /\ t.rcv_wnd = c.rcv_wnd
    BY <1>0, <1>1 DEF Connection
  <2>2. b = [c EXCEPT !.jobs = t.jobs, !.buf = Drop(c.buf, n), !.sending = 0]
    BY <1>0, <1>1, <2>1 DEF Connection
  <2> QED BY ZenonT(60), <1>0, <2>1, <2>2 DEF tcp_recved, Connection
<1>6. r = IF x.buf # <<>> THEN client_send_to_socks(x)
          ELSE IF x.client_closed THEN client_free_socks(x, mem) ELSE x
  BY DEF client_socks_send_handler_done
<1> HIDE DEF x, w, r
<1>7. /\ x \in Connection
      /\ x.buf = Drop(c.buf, n) /\ x.jobs = t.jobs /\ x.sending = 0 /\ x.rcv_wnd = w
      /\ x.live = c.live /\ x.client_closed = c.client_closed /\ x.state = c.state /\ x.cb = c.cb
  BY <1>0, <1>1, <1>3, <1>4, <1>5 DEF Connection
<1>8. /\ x.sndq = c.sndq /\ x.rbuf = c.rbuf /\ x.pending = c.pending /\ x.wait = c.wait
      /\ x.socks_up = c.socks_up /\ x.socks_closed = c.socks_closed /\ x.conn = c.conn
  BY <1>0, <1>5 DEF Connection
<1>9. /\ Up(x) <=> Up(c)
      /\ Flowing(x) /\ Held(x) /\ "write" \notin x.wait
      /\ \A j : Queued(x, j) <=> j # "send" /\ Queued(c, j)
  BY <1>0, <1>1, <1>2, <1>7, <1>8 DEF Up, Flowing, Held, WorkPart, Queued
<1>10. PcbPart(x) /\ SocksPart(x)
  <2>1. PcbPart(x)
    BY <1>0, <1>7, <1>8, <1>9 DEF PcbPart, Flowing
  <2>2. SocksPart(x)
    BY <1>0, <1>7, <1>8, <1>9 DEF SocksPart, Flowing
  <2> QED BY <2>1, <2>2
<1>11. SizePart(x, a, d)
  <2>1. Up(c) /\ ~c.socks_closed => x.rcv_wnd + Len(x.buf) + d <= TcpWnd
    <3>1. c.rcv_wnd \in 0..TcpWnd /\ (Up(c) => ~c.client_closed)
      BY <1>0, Numbers DEF Up
    <3>2. Up(c) /\ ~c.socks_closed => c.rcv_wnd + Len(c.buf) + d <= TcpWnd
      BY <1>0 DEF SizePart
    <3>3. x.rcv_wnd = w /\ Len(x.buf) = Len(c.buf) - n /\ n \in Nat
      BY <1>3, <1>7
    <3>4. w \in Nat /\ c.rcv_wnd \in Nat
      BY <1>4, <3>1
    <3>5. Up(c) /\ ~c.socks_closed => w + (Len(c.buf) - n) + d <= TcpWnd
      BY <1>3, <1>4, <3>1, <3>2, <3>4, WindowMoves
    <3> QED BY <3>3, <3>5
  <2> QED BY <1>0, <1>7, <1>8, <1>9, <2>1 DEF SizePart
<1>12. CASE x.buf # <<>>
  <2> DEFINE y == client_send_to_socks(x)
  <2>1. /\ y \in Connection /\ y = [x EXCEPT !.jobs = y.jobs, !.sending = Len(x.buf)]
        /\ Once(y.jobs) /\ y.jobs # <<>> /\ \A j : Queued(y, j) <=> j = "send" \/ Queued(x, j)
    BY <1>1, <1>7, <1>9, SendToSocksProperties
  <2>2. r = y
    BY <1>6, <1>12
  <2> HIDE DEF y
  <2>3. /\ y.buf = x.buf /\ y.sending = Len(x.buf) /\ y.rcv_wnd = x.rcv_wnd
        /\ y.live = x.live /\ y.client_closed = x.client_closed /\ y.state = x.state /\ y.cb = x.cb
    BY ZenonT(60), <1>7, <2>1 DEF Connection
  <2>4. /\ y.sndq = x.sndq /\ y.rbuf = x.rbuf /\ y.pending = x.pending /\ y.wait = x.wait
        /\ y.socks_up = x.socks_up /\ y.socks_closed = x.socks_closed /\ y.conn = x.conn
    BY ZenonT(60), <1>7, <2>1 DEF Connection
  <2>5. Up(y) <=> Up(x)
    BY <2>3 DEF Up
  <2>6. PcbPart(y) /\ SizePart(y, a, d)
    BY <1>10, <1>11, <2>3, <2>4, <2>5 DEF PcbPart, SizePart
  <2>7. SocksPart(y)
    BY <1>9, <1>10, <2>3, <2>4 DEF SocksPart, Flowing
  <2>8. WorkPart(y)
    <3>1. Len(x.buf) \in Nat /\ Len(x.buf) > 0
      BY <1>7, <1>12, EmptyNat DEF Connection
    <3>2. Once(y.jobs) /\ ~("write" \in y.wait) /\ ("read" \in y.wait => ~Queued(y, "recv"))
      BY <1>0, <1>8, <1>9, <2>1, <2>4 DEF WorkPart
    <3> QED BY <2>1, <2>3, <3>1, <3>2 DEF WorkPart
  <2>9. WaitPart(y) /\ Held(y)
    BY <1>0, <1>7, <1>8, <1>9, <1>12, <2>1, <2>3, <2>4, <2>5 DEF WaitPart, Flowing, Held
  <2> QED BY <2>1, <2>2, <2>6, <2>7, <2>8, <2>9 DEF Sound, Good
<1>13. CASE x.buf = <<>>
  <2>1. WorkPart(x)
    <3>1. x.sending <= Len(x.buf) /\ ~(x.sending > 0)
      BY <1>7, <1>13, EmptyNat
    <3> QED BY <1>0, <1>1, <1>7, <1>8, <1>9, <1>13, <3>1 DEF WorkPart
  <2>2. CASE x.client_closed
    <3>1. Closed(client_free_socks(x, mem))
      BY <1>7, <1>9, <1>10, <1>11, <2>1, <2>2, FreeSocksOfClosed DEF SizePart, Flowing
    <3> QED BY <1>6, <1>13, <2>2, <3>1 DEF Closed
  <2>3. CASE ~x.client_closed
    <3>1. WaitPart(x)
      BY <1>0, <1>7, <1>8, <1>9, <2>3 DEF WaitPart, Flowing
    <3> QED BY <1>6, <1>7, <1>9, <1>10, <1>11, <1>13, <2>1, <2>3, <3>1 DEF Sound, Good
  <2> QED BY <2>2, <2>3
<1> QED BY <1>12, <1>13

\* client_socks_recv_send_out with nothing being read: it closes the client, or
\* passes bytes on and leaves some to be acknowledged if there was any.
SentOut(c, out, d) ==
    \/ Closed(out)
    \/ /\ Present(out) /\ PcbPart(out) /\ SizePart(out, 0, d) /\ Up(out)
       /\ out = [c EXCEPT !.sndq = out.sndq, !.rbuf = out.rbuf, !.pending = out.pending]
       /\ out.jobs = c.jobs /\ out.wait = c.wait /\ out.socks_closed = c.socks_closed
       /\ out.socks_up = c.socks_up /\ out.buf = c.buf
       /\ c.rbuf # <<>> => out.pending > 0

LEMMA SendOutEffect ==
    ASSUME NEW d \in Nat, NEW c, Present(c), PcbPart(c), SizePart(c, 0, d), Up(c),
           c.rbuf # <<>> => c.socks_up, NEW r \in Outcome
    PROVE  SentOut(c, client_socks_recv_send_out(c, r), d)
<1> DEFINE room == Min2(Len(c.rbuf), tcp_sndbuf(c))
           n    == IF r = "mem" THEN 0 ELSE room
           w    == [c EXCEPT !.sndq = @ \o SubSeq(c.rbuf, 1, n), !.rbuf = Drop(@, n), !.pending = @ + n]
           out  == client_socks_recv_send_out(c, r)
<1> SUFFICES SentOut(c, out, d)
  OBVIOUS
<1>a. /\ c \in Connection /\ c.pending \in Nat /\ Len(c.sndq) \in Nat /\ Len(c.rbuf) \in Nat
      /\ c.rbuf \in Seq(Nat) /\ c.sndq \in Seq(Nat)
  BY Numbers DEF Present
<1>0. c \in Connection /\ Len(c.sndq) <= SndBuf /\ c.pending = Len(c.sndq)
  BY <1>a DEF Present, SizePart
<1>1. n \in Nat /\ n <= Len(c.rbuf) /\ n <= SndBuf - Len(c.sndq)
  <2>1. tcp_sndbuf(c) \in Nat /\ tcp_sndbuf(c) = SndBuf - Len(c.sndq)
    BY <1>a, <1>0 DEF tcp_sndbuf
  <2>2. room \in Nat /\ room <= Len(c.rbuf) /\ room <= tcp_sndbuf(c)
    BY <1>a, <2>1, Min2Bounds
  <2> HIDE DEF room
  <2> DEFINE free == tcp_sndbuf(c)
             len == Len(c.rbuf)
  <2>a. free \in Nat /\ len \in Nat /\ room \in Nat /\ room <= len /\ room <= free
    BY <1>a, <2>1, <2>2
  <2> HIDE DEF free, len
  <2>b. n = 0 \/ n = room
    OBVIOUS
  <2> HIDE DEF n
  <2>c. n \in Nat /\ n <= len /\ n <= free
    BY <2>a, <2>b
  <2>3. n \in Nat /\ n <= Len(c.rbuf) /\ n <= tcp_sndbuf(c)
    BY <2>c DEF free, len
  <2> QED BY <2>1, <2>3
<1>2. out = IF r = "fail" \/ (w.rbuf # <<>> /\ w.pending = 0) THEN client_abort_client(w) ELSE w
  BY DEF client_socks_recv_send_out, Writable, Present, Opened
<1> HIDE DEF n
<1> DEFINE part == SubSeq(c.rbuf, 1, n)
           rest == Drop(c.rbuf, n)
<1>3. /\ part \in Seq(Nat) /\ Len(part) = n
      /\ rest \in Seq(Nat) /\ Len(rest) = Len(c.rbuf) - n
  <2>1. n \in 0..Len(c.rbuf)
    BY <1>a, <1>1
  <2> QED BY <1>a, <2>1, DropProperties
<1>4. c.sndq \o part \in Seq(Nat) /\ Len(c.sndq \o part) = Len(c.sndq) + n
  BY <1>a, <1>3, ConcatNat
<1>5. w = [c EXCEPT !.sndq = c.sndq \o part, !.rbuf = rest, !.pending = c.pending + n]
  BY <1>0 DEF Connection
<1> HIDE DEF part, rest, w, out
<1>6. w \in Connection /\ w.sndq = c.sndq \o part /\ w.rbuf = rest /\ w.pending = c.pending + n
  <2>1. c.pending + n \in Nat
    BY SMTT(60), <1>a, <1>1
  <2> QED BY <1>0, <1>3, <1>4, <1>5, <2>1 DEF Connection
<1>7. /\ w.live = c.live /\ w.client_closed = c.client_closed /\ w.state = c.state /\ w.cb = c.cb
      /\ w.rcv_wnd = c.rcv_wnd /\ w.buf = c.buf /\ w.socks_up = c.socks_up
      /\ w.socks_closed = c.socks_closed
  BY <1>0, <1>5 DEF Connection
<1>8. w.conn = c.conn /\ w.sending = c.sending /\ w.jobs = c.jobs /\ w.wait = c.wait
  BY <1>0, <1>5 DEF Connection
<1>9. /\ w.rbuf # <<>> => c.rbuf # <<>>
      /\ w.pending > 0 => c.socks_up
      /\ w.pending # 0 => w.pending > 0
      /\ c.rbuf # <<>> /\ w.rbuf = <<>> => w.pending > 0
  <2>1. (c.rbuf = <<>> <=> Len(c.rbuf) = 0) /\ (w.rbuf = <<>> <=> Len(w.rbuf) = 0)
    BY <1>a, <1>3, <1>6, EmptyNat
  <2>2. c.pending > 0 => c.socks_up
    BY DEF Present, SocksPart
  <2>3. c.rbuf = <<>> => n = 0
    BY <1>a, <1>1, <2>1
  <2>4. w.pending = c.pending + n /\ Len(w.rbuf) = Len(c.rbuf) - n
    BY <1>3, <1>6
  <2>5. w.pending > 0 => c.socks_up
    BY <1>a, <1>1, <2>2, <2>3, <2>4
  <2> QED BY <1>a, <1>1, <2>1, <2>4, <2>5
<1>10. Present(w)
  <2>1. SocksPart(w)
    <3>1. ~w.socks_up => w.rbuf = <<>> /\ w.pending = 0
      BY <1>6, <1>7, <1>9
    <3> QED BY <1>7, <1>8, <3>1 DEF Present, SocksPart
  <2>2. WorkPart(w)
    BY <1>7, <1>8 DEF Present, WorkPart, Queued, Flowing
  <2>3. Len(w.sndq) <= SndBuf
    BY <1>a, <1>0, <1>1, <1>4, <1>6
  <2> QED BY <1>6, <1>7, <2>1, <2>2, <2>3 DEF Present
<1>11. CASE r = "fail" \/ (w.rbuf # <<>> /\ w.pending = 0)
  BY <1>2, <1>10, <1>11, AbortClientCloses DEF SentOut
<1>12. CASE ~(r = "fail" \/ (w.rbuf # <<>> /\ w.pending = 0))
  <2>1. out = w
    BY <1>2, <1>12
  <2>2. Up(w)
    BY <1>7 DEF Up
  <2>3. PcbPart(w)
    BY <1>7, <2>2 DEF PcbPart, Present, Opened
  <2>4. SizePart(w, 0, d)
    BY <1>0, <1>1, <1>4, <1>6, <1>7, <1>10, <1>a, <2>2 DEF SizePart, Present
  <2>5. w = [c EXCEPT !.sndq = w.sndq, !.rbuf = w.rbuf, !.pending = w.pending]
    BY <1>5, <1>6
  <2>6. c.rbuf # <<>> => w.pending > 0
    BY <1>9, <1>12
  <2> QED BY <1>7, <1>8, <1>10, <2>1, <2>2, <2>3, <2>4, <2>5, <2>6 DEF SentOut
<1> QED BY <1>11, <1>12

\* The next read begins when all bytes of the last one are with lwIP.
LEMMA InitiateIsSound ==
    ASSUME NEW d \in Nat, NEW c, Present(c), PcbPart(c), SizePart(c, 0, d), Up(c),
           ~Queued(c, "recv"), "read" \notin c.wait, c.rbuf = <<>>, c.socks_up, ~c.socks_closed
    PROVE  /\ Sound(client_socks_recv_initiate(c), 0, d)
           /\ Up(client_socks_recv_initiate(c))
<1> DEFINE y == client_socks_recv_initiate(c)
<1>0. c \in Connection /\ SocksPart(c) /\ WorkPart(c)
  BY DEF Present
<1>1. /\ y \in Connection /\ y = [c EXCEPT !.jobs = y.jobs]
      /\ Once(y.jobs) /\ \A j : Queued(y, j) <=> j = "recv" \/ Queued(c, j)
  BY <1>0, RecvInitiateProperties DEF WorkPart
<1> HIDE DEF y
<1>2. /\ y.live = c.live /\ y.client_closed = c.client_closed /\ y.state = c.state
      /\ y.cb = c.cb /\ y.rcv_wnd = c.rcv_wnd /\ y.buf = c.buf /\ y.socks_up = c.socks_up
  BY <1>0, <1>1 DEF Connection
<1>3. /\ y.socks_closed = c.socks_closed /\ y.conn = c.conn /\ y.sending = c.sending
      /\ y.wait = c.wait /\ y.sndq = c.sndq /\ y.pending = c.pending /\ y.rbuf = c.rbuf
  BY ZenonT(60), <1>0, <1>1 DEF Connection
<1>4. Up(y) /\ Held(y) /\ Flowing(c)
  BY <1>2 DEF Up, Held, Flowing
<1>5. PcbPart(y) /\ SizePart(y, 0, d)
  BY <1>2, <1>3, <1>4 DEF PcbPart, SizePart
<1>6. SocksPart(y)
  BY <1>0, <1>2, <1>3, <1>4 DEF SocksPart, Flowing
<1>7. WorkPart(y)
  BY <1>0, <1>1, <1>2, <1>3 DEF WorkPart, Flowing
<1>8. WaitPart(y)
  BY <1>1, <1>2, <1>3, <1>4 DEF WaitPart, Up
<1>9. Sound(y, 0, d) /\ Up(y)
  BY <1>1, <1>4, <1>5, <1>6, <1>7, <1>8 DEF Sound, Good
<1> QED BY <1>9 DEF y

\* client_socks_recv_handler_done after n bytes were read.
LEMMA RecvDoneIsSound ==
    ASSUME NEW d \in Nat, NEW c, Sound(c, 0, d), Flowing(c),
           c.jobs # <<>>, Head(c.jobs) = "recv", NEW n \in Nat \ {0}, NEW r \in Outcome
    PROVE  Sound(client_socks_recv_handler_done([c EXCEPT !.jobs = Tail(@)], n, r), 0, d)
<1> DEFINE t   == [c EXCEPT !.jobs = Tail(@)]
           got == [t EXCEPT !.read = @ + n]
           g   == [got EXCEPT !.rbuf = Run(t.read, n)]
           out == client_socks_recv_send_out(g, r)
           res == client_socks_recv_handler_done(t, n, r)
<1> SUFFICES Sound(res, 0, d)
  OBVIOUS
<1>0. /\ c \in Connection /\ PcbPart(c) /\ SocksPart(c) /\ WorkPart(c) /\ WaitPart(c) /\ SizePart(c, 0, d)
      /\ Held(c)
  BY DEF Sound, Good
<1>1. /\ t \in Connection /\ t = [c EXCEPT !.jobs = t.jobs]
      /\ Once(t.jobs) /\ \A j : Queued(t, j) <=> j # "recv" /\ Queued(c, j)
  BY <1>0, ServedProperties DEF WorkPart
<1>2. Queued(c, "recv") /\ "read" \notin c.wait
  <2>1. c.jobs \in Seq(Kind)
    BY <1>0 DEF Connection, Kind
  <2> QED BY <1>0, <2>1, TailOfQueue DEF WorkPart, Queued
<1>3. res = IF t.client_closed THEN got
            ELSE IF ~out.client_closed /\ out.rbuf = <<>> THEN client_socks_recv_initiate(out)
            ELSE out
  BY DEF client_socks_recv_handler_done
<1> HIDE DEF t, res
<1>4. /\ got \in Connection /\ got = [c EXCEPT !.jobs = t.jobs, !.read = c.read + n]
  <2>0. c.read \in Nat /\ t.read = c.read
    BY <1>0, <1>1 DEF Connection
  <2>1. c.read \in Nat /\ t.read = c.read /\ c.read + n \in Nat
    BY <2>0
  <2>2. got = [c EXCEPT !.jobs = t.jobs, !.read = c.read + n]
    BY <1>0, <1>1, <2>1 DEF Connection
  <2>3. t.jobs \in Seq({"send", "recv"})
    BY <1>1 DEF Connection
  <2> HIDE DEF got
  <2> DEFINE m == c.read + n
  <2>4. m \in Nat /\ got = [c EXCEPT !.jobs = t.jobs, !.read = m]
    BY <2>1, <2>2
  <2> HIDE DEF m
  <2>5. got \in Connection
    BY <1>0, <2>3, <2>4 DEF Connection
  <2> QED BY <2>2, <2>5
<1> DEFINE bytes == Run(t.read, n)
<1>5. bytes \in Seq(Nat) /\ bytes # <<>>
  <2>1. t.read \in Nat /\ n \in Nat
    BY <1>1, Numbers
  <2>2. bytes \in Seq(Nat) /\ Len(bytes) = n
    BY <2>1, RunProperties
  <2> QED BY <2>2, EmptyNat
<1> HIDE DEF got, bytes
<1>6. g \in Connection /\ g.rbuf = bytes
  BY ZenonT(60), <1>4, <1>5 DEF bytes, Connection
<1>7. /\ g.jobs = t.jobs /\ g.live = c.live /\ g.client_closed = c.client_closed /\ g.state = c.state
      /\ g.cb = c.cb /\ g.rcv_wnd = c.rcv_wnd /\ g.buf = c.buf /\ g.socks_up = c.socks_up
  BY <1>0, <1>4, <1>6 DEF Connection
<1>8. /\ g.socks_closed = c.socks_closed /\ g.conn = c.conn /\ g.sending = c.sending
      /\ g.wait = c.wait /\ g.sndq = c.sndq /\ g.pending = c.pending
  BY <1>0, <1>4, <1>6 DEF Connection
<1>9. CASE t.client_closed
  <2>1. res = got
    BY <1>3, <1>9
  <2>2. /\ got.jobs = t.jobs /\ got.live = c.live /\ got.client_closed = c.client_closed /\ got.state = c.state
        /\ got.cb = c.cb /\ got.rcv_wnd = c.rcv_wnd /\ got.buf = c.buf /\ got.socks_up = c.socks_up
    BY <1>0, <1>4 DEF Connection
  <2>3. /\ got.socks_closed = c.socks_closed /\ got.conn = c.conn /\ got.sending = c.sending
        /\ got.wait = c.wait /\ got.sndq = c.sndq /\ got.pending = c.pending /\ got.rbuf = c.rbuf
    BY <1>0, <1>4 DEF Connection
  <2>4. c.client_closed /\ ~Up(c) /\ ~Up(got)
    BY <1>0, <1>1, <1>9, <2>2 DEF Connection, Up
  <2>5. PcbPart(got) /\ SizePart(got, 0, d) /\ Held(got)
    BY <1>0, <2>2, <2>3, <2>4 DEF PcbPart, SizePart, Held
  <2>6. SocksPart(got)
    BY <1>0, <2>2, <2>3 DEF SocksPart, Flowing
  <2>7. WorkPart(got)
    <3>1. \A j : Queued(got, j) <=> j # "recv" /\ Queued(c, j)
      BY <1>1, <2>2 DEF Queued
    <3>2. Once(got.jobs)
      BY <1>1, <2>2
    <3> QED BY <1>0, <2>2, <2>3, <3>1, <3>2 DEF WorkPart, Flowing
  <2>8. WaitPart(got)
    BY <1>0, <2>2, <2>3, <2>4 DEF WaitPart
  <2> QED BY <1>4, <2>1, <2>5, <2>6, <2>7, <2>8 DEF Sound, Good
<1>10. CASE ~t.client_closed
  <2>0. Up(c) /\ Up(g)
    BY <1>0, <1>1, <1>7, <1>10 DEF Connection, Up, Flowing
  <2>1. \A j : Queued(g, j) <=> j # "recv" /\ Queued(c, j)
    BY <1>1, <1>7 DEF Queued
  <2>2. Present(g)
    <3>1. SocksPart(g)
      BY <1>0, <1>7, <1>8 DEF SocksPart, Flowing
    <3>2. WorkPart(g)
      BY <1>0, <1>1, <1>7, <1>8, <2>1 DEF WorkPart, Flowing
    <3> QED BY <1>0, <1>6, <1>7, <1>8, <2>0, <3>1, <3>2 DEF Present, Up, PcbPart, SizePart
  <2>3. PcbPart(g) /\ SizePart(g, 0, d) /\ g.socks_up /\ g.rbuf # <<>>
    BY <1>0, <1>5, <1>6, <1>7, <1>8, <2>0 DEF PcbPart, SizePart, Flowing
  <2> HIDE DEF g
  <2>a. SentOut(g, out, d)
    BY <2>0, <2>2, <2>3, SendOutEffect
  <2> HIDE DEF out
  <2>4. \/ Closed(out)
        \/ /\ Present(out) /\ PcbPart(out) /\ SizePart(out, 0, d) /\ Up(out)
           /\ out.jobs = g.jobs /\ out.wait = g.wait /\ out.socks_closed = g.socks_closed
           /\ out.socks_up = g.socks_up /\ out.pending > 0
    BY <2>3, <2>a DEF SentOut
  <2>5. CASE Closed(out)
    BY <1>3, <1>10, <2>5 DEF Closed
  <2>6. CASE ~Closed(out)
    <3>1. /\ out \in Connection /\ ~out.client_closed /\ Held(out)
          /\ SocksPart(out) /\ WorkPart(out) /\ ~Queued(out, "recv") /\ "read" \notin out.wait
      BY <1>2, <1>8, <2>1, <2>4, <2>6 DEF Present, Up, Held, Queued
    <3>2. CASE out.rbuf = <<>>
      <4>1. res = client_socks_recv_initiate(out)
        BY <1>3, <1>10, <3>1, <3>2
      <4>2. out.socks_up /\ ~out.socks_closed
        BY <1>7, <1>8, <2>4, <2>6 DEF Flowing
      <4> QED BY <2>4, <2>6, <3>1, <3>2, <4>1, <4>2, InitiateIsSound
    <3>3. CASE out.rbuf # <<>>
      <4>1. res = out
        BY <1>3, <1>10, <3>3
      <4>2. WaitPart(out)
        BY <1>7, <1>8, <2>4, <2>6, <3>1, <3>3 DEF WaitPart, Flowing
      <4> QED BY <2>4, <2>6, <3>1, <4>1, <4>2 DEF Sound, Good
    <3> QED BY <3>2, <3>3
  <2> QED BY <2>5, <2>6
<1> QED BY <1>9, <1>10

-----------------------------------------------------------------------------
(* Steps *)

LEMMA Counts ==
    ASSUME NEW s \in Segment
    PROVE  Acked(s) \in Nat /\ Arrived(s) \in Nat /\ s.acked \in Nat /\ s.data \in Seq(Nat)
<1>1. s.acked \in Nat /\ s.data \in Seq(Nat)
  BY DEF Segment
<1>2. Len(s.data) \in Nat
  BY <1>1, EmptyNat
<1>3. Acked(s) \in Nat
  BY <1>1 DEF Acked
<1> DEFINE x == IF s.at \in {"sent", "sentSync", "recv"} THEN Len(s.data) ELSE 0
           y == IF s.fin THEN 1 ELSE 0
<1>4. x \in Nat /\ y \in Nat
  BY <1>2
<1> HIDE DEF x, y
<1>5. x + y \in Nat
  BY <1>4
<1> QED BY <1>1, <1>3, <1>5 DEF Arrived, x, y

LEMMA NoSegmentCounts ==
    /\ NoSegment \in Segment /\ NoSegment.at = "idle"
    /\ Acked(NoSegment) = 0 /\ Arrived(NoSegment) = 0 /\ NoSegment.data = <<>>
<1>1. NoSegment \in Segment
  BY EmptyNat DEF NoSegment, Segment, Stage
<1> QED BY <1>1 DEF NoSegment, Acked, Arrived

LEMMA InitIInv == Init => IInv
<1> SUFFICES ASSUME Init PROVE IInv
  OBVIOUS
<1>1. k \in Connection
  BY EmptyNat, EmptyQueue DEF Init, Connection, PcbState, Active, Kind
<1>2. TypeOK
  BY <1>1, NoSegmentCounts DEF Init, TypeOK
<1>3. PcbPart(k)
  BY DEF Init, PcbPart, Up, Opened
<1>4. SocksPart(k) /\ WaitPart(k)
  BY DEF Init, SocksPart, WaitPart, Up
<1>5. WorkPart(k)
  BY EmptyNat, EmptyQueue DEF Init, WorkPart, Queued, Flowing
<1>6. SizePart(k, 0, 0)
  BY EmptyNat DEF Init, SizePart, Up
<1>7. SegmentPart(k, seg)
  BY NoSegmentCounts DEF Init, SegmentPart
<1> QED BY <1>2, <1>3, <1>4, <1>5, <1>6, <1>7, NoSegmentCounts DEF IInv, Good, Init

\* A step that leaves the segment alone while no callback is due.
LEMMA OffSegment ==
    ASSUME IInv, seg.at \notin {"sent", "recv", "fin"},
           k' \in Connection, Good(k', 0, Arrived(seg)), Held(k') \/ seg.at = "idle",
           seg' = seg, toSocks' \in Nat, toClient' \in Nat, leaked' \in BOOLEAN
    PROVE  IInv'
<1>1. TypeOK'
  BY DEF IInv, TypeOK
<1>2. Acked(seg) = 0
  BY DEF Acked
<1>3. Good(k', Acked(seg'), Arrived(seg'))
  BY <1>2
<1>4. SegmentPart(k', seg')
  BY DEF IInv, SegmentPart
<1> QED BY <1>1, <1>3, <1>4 DEF IInv

\* A job belongs to a SOCKS connection that moves data.
LEMMA JobFlows ==
    ASSUME IInv, k.jobs # <<>>
    PROVE  /\ Sound(k, 0, Arrived(seg)) /\ Flowing(k) /\ Held(k)
           /\ seg.at \notin {"sent", "recv", "fin"} /\ Arrived(seg) \in Nat
<1>1. seg.at \notin {"sent", "recv", "fin"} /\ Acked(seg) = 0
  BY DEF IInv, SegmentPart, Acked
<1>2. Flowing(k)
  BY DEF IInv, Good, SocksPart, Flowing, TypeOK, Connection
<1> QED BY <1>1, <1>2, Counts DEF IInv, Sound, Flowing, Held, TypeOK

LEMMA SentStep ==
    ASSUME IInv, NEW n \in 1..TcpWnd, NEW mem \in BOOLEAN, Sent(n, mem)
    PROVE  IInv'
<1>1. k.jobs # <<>> /\ Head(k.jobs) = "send" /\ n \in 1..k.sending
  BY Numbers DEF Sent, Job, IInv, TypeOK
<1>2. /\ Sound(k, 0, Arrived(seg)) /\ Flowing(k) /\ Held(k)
      /\ seg.at \notin {"sent", "recv", "fin"} /\ Arrived(seg) \in Nat
  BY <1>1, JobFlows
<1>3. Sound(k', 0, Arrived(seg))
  BY <1>1, <1>2, SendDoneIsSound DEF Sent
<1>4. toSocks' \in Nat /\ toClient' \in Nat /\ leaked' \in BOOLEAN /\ seg' = seg
  BY DEF Sent, IInv, TypeOK
<1> QED BY <1>2, <1>3, <1>4, OffSegment DEF Sound

LEMMA ReceivedStep ==
    ASSUME IInv, NEW n \in 1..RecvBuf, NEW r \in Outcome, Received(n, r)
    PROVE  IInv'
<1>1. k.jobs # <<>> /\ Head(k.jobs) = "recv" /\ n \in Nat \ {0}
  BY DEF Received, Job
<1>2. /\ Sound(k, 0, Arrived(seg)) /\ Flowing(k) /\ Held(k)
      /\ seg.at \notin {"sent", "recv", "fin"} /\ Arrived(seg) \in Nat
  BY <1>1, JobFlows
<1>3. Sound(k', 0, Arrived(seg))
  BY <1>1, <1>2, RecvDoneIsSound DEF Received
<1>4. toSocks' \in Nat /\ toClient' \in Nat /\ leaked' \in BOOLEAN /\ seg' = seg
  BY DEF Received, IInv, TypeOK
<1> QED BY <1>2, <1>3, <1>4, OffSegment DEF Sound

LEMMA SocketErrorStep ==
    ASSUME IInv, NEW mem \in BOOLEAN, SocketError(mem)
    PROVE  IInv'
<1>1. /\ Sound(k, 0, Arrived(seg)) /\ Flowing(k) /\ Held(k)
      /\ seg.at \notin {"sent", "recv", "fin"} /\ Arrived(seg) \in Nat
  BY JobFlows DEF SocketError
<1>2. Sound(k', 0, Arrived(seg))
  BY <1>1, FreeSocksIsSound DEF SocketError, Flowing
<1>3. toSocks' \in Nat /\ toClient' \in Nat /\ leaked' \in BOOLEAN /\ seg' = seg
  BY DEF SocketError, IInv, TypeOK
<1> QED BY <1>1, <1>2, <1>3, OffSegment DEF Sound

\* The reactor is between events: nothing of a segment is under way.
LEMMA IdleFacts ==
    ASSUME IInv, seg.at \in {"idle", "acceptSync"}
    PROVE  /\ k \in Connection /\ Good(k, 0, 0)
           /\ Arrived(seg) = 0 /\ (k.live => Sound(k, 0, 0))
BY DEF IInv, SegmentPart, TypeOK, Sound, Held

LEMMA TerminateStep == IInv /\ Terminate => IInv'
<1> SUFFICES ASSUME IInv, Terminate PROVE IInv'
  OBVIOUS
<1>1. Sound(k, 0, 0) /\ Arrived(seg) = 0 /\ k.live /\ seg.at = "idle"
  BY IdleFacts DEF Terminate
<1>2. Sound(k', 0, 0)
  BY <1>1, MurderCloses DEF Terminate, Closed
<1>3. toSocks' \in Nat /\ toClient' \in Nat /\ leaked' \in BOOLEAN /\ seg' = seg
  BY DEF Terminate, IInv, TypeOK
<1> QED BY <1>1, <1>2, <1>3, OffSegment DEF Sound

LEMMA HandshakeErrorStep ==
    ASSUME IInv, NEW mem \in BOOLEAN, HandshakeError(mem)
    PROVE  IInv'
<1>1. k.live /\ ~k.socks_closed
  BY DEF HandshakeError, Handshaking, IInv, Good, SocksPart, TypeOK, Connection
<1>2. Sound(k, 0, 0) /\ Arrived(seg) = 0 /\ seg.at \in {"idle", "acceptSync"}
  BY <1>1, IdleFacts DEF HandshakeError, Handshaking
<1>3. Sound(k', 0, 0)
  BY <1>1, <1>2, FreeSocksIsSound DEF HandshakeError
<1>4. toSocks' \in Nat /\ toClient' \in Nat /\ leaked' \in BOOLEAN /\ seg' = seg
  BY DEF HandshakeError, IInv, TypeOK
<1> QED BY <1>2, <1>3, <1>4, OffSegment DEF Sound

LEMMA IdleErrorStep ==
    ASSUME IInv, NEW mem \in BOOLEAN, IdleError(mem)
    PROVE  IInv'
<1>1. k.live /\ ~k.socks_closed
  BY DEF IdleError, IInv, Good, SocksPart, TypeOK, Connection
<1>2. Sound(k, 0, 0) /\ Arrived(seg) = 0 /\ seg.at = "idle"
  BY <1>1, IdleFacts DEF IdleError, Quiet
<1>3. Sound(k', 0, 0)
  BY <1>1, <1>2, FreeSocksIsSound DEF IdleError
<1>4. toSocks' \in Nat /\ toClient' \in Nat /\ leaked' \in BOOLEAN /\ seg' = seg
  BY DEF IdleError, IInv, TypeOK
<1> QED BY <1>2, <1>3, <1>4, OffSegment DEF Sound

LEMMA AcceptStep == IInv /\ Accept => IInv'
<1> SUFFICES ASSUME IInv, Accept PROVE IInv'
  OBVIOUS
<1>1. seg.at = "idle" /\ k \in Connection /\ Good(k, 0, 0) /\ Arrived(seg) = 0 /\ k.jobs = <<>>
  BY IdleFacts DEF Accept, Quiet
<1>2. /\ ~k.client_closed /\ ~k.socks_up /\ ~k.socks_closed
      /\ k.conn = "none" /\ k.buf = <<>> /\ k.sndq = <<>>
      /\ k.rbuf = <<>> /\ k.pending = 0 /\ k.wait = {} /\ k.sending = 0
  BY <1>1 DEF Accept, Good, PcbPart, SocksPart
<1>3. k' \in Connection
  BY ZenonT(60), <1>1 DEF Accept, Connection, PcbState, Active
<1>4. /\ k'.state = "ESTABLISHED" /\ k'.live /\ k'.cb = {"err", "recv"} /\ k'.conn = "handshake"
      /\ ~k'.client_closed /\ ~k'.socks_up /\ ~k'.socks_closed /\ k'.rcv_wnd = k.rcv_wnd
  BY <1>1, <1>2 DEF Accept, Connection
<1>5. /\ k'.buf = <<>> /\ k'.sndq = <<>> /\ k'.rbuf = <<>> /\ k'.pending = 0
      /\ k'.wait = {} /\ k'.sending = 0 /\ k'.jobs = <<>>
  BY <1>1, <1>2 DEF Accept, Connection
<1>6. PcbPart(k') /\ SocksPart(k') /\ WaitPart(k')
  BY <1>4, <1>5 DEF PcbPart, SocksPart, WaitPart, Up, Flowing, Opened
<1>7. WorkPart(k')
  BY <1>4, <1>5, EmptyNat, EmptyQueue DEF WorkPart, Queued, Flowing
<1>8. SizePart(k', 0, 0)
  BY <1>1, <1>4, <1>5, EmptyNat, Numbers DEF SizePart
<1>9. /\ seg' \in Segment /\ seg'.at = "acceptSync"
      /\ Acked(seg') = 0 /\ Arrived(seg') = 0 /\ seg'.data = <<>>
  <2>1. seg \in Segment /\ seg' = [seg EXCEPT !.at = "acceptSync"] /\ seg.data = <<>> /\ seg.at = "idle"
    BY <1>1 DEF Accept, IInv, TypeOK, SegmentPart
  <2>2. seg' \in Segment /\ seg'.at = "acceptSync" /\ seg'.data = <<>> /\ seg'.fin = seg.fin
    BY <2>1 DEF Segment, Stage
  <2> QED BY <1>1, <2>1, <2>2 DEF Acked, Arrived
<1>10. SegmentPart(k', seg')
  BY <1>4, <1>9 DEF SegmentPart, Held
<1>11. TypeOK'
  BY <1>3, <1>9 DEF Accept, IInv, TypeOK
<1> QED BY <1>6, <1>7, <1>8, <1>9, <1>10, <1>11 DEF IInv, Good

\* A pcb that has no client any more, or none yet, changes freely.
LEMMA OrphanPcb ==
    ASSUME NEW c \in Connection, Good(c, 0, 0), ~Up(c),
           NEW r \in Connection, SameClient(r, c), r.cb = {}, Len(r.sndq) <= SndBuf,
           r.state \notin Opened \cup {"SYN_RCVD"}
    PROVE  Good(r, 0, 0)
<1>1. SocksPart(r) /\ WorkPart(r) /\ ~Up(r)
  BY SameClientParts DEF Good, Up, SameClient
<1>2. PcbPart(r) /\ SizePart(r, 0, 0)
  BY <1>1 DEF PcbPart, SizePart
<1>3. WaitPart(r)
  BY <1>1 DEF Good, WaitPart, SameClient
<1> QED BY <1>1, <1>2, <1>3 DEF Good

LEMMA PcbGoneStep ==
    ASSUME IInv, AcceptFails \/ TimeWaitExpires \/ PcbKilled
    PROVE  IInv'
<1>1. /\ seg.at = "idle" /\ k \in Connection /\ Good(k, 0, 0) /\ Arrived(seg) = 0
      /\ k.state \in Active \cup {"SYN_RCVD", "TIME_WAIT"}
  BY IdleFacts DEF AcceptFails, TimeWaitExpires, PcbKilled, Quiet
<1> DEFINE g == tcp_abort(k)
<1>2. k' = IF "err" \in k.cb THEN client_err_func(g) ELSE g
  <2>1. k.state \in {"SYN_RCVD", "TIME_WAIT"} => k.cb = {}
    BY <1>1 DEF Good, PcbPart, Opened
  <2> QED BY <2>1 DEF AcceptFails, TimeWaitExpires, PcbKilled
<1>3. /\ g \in Connection /\ g.state = "FREED" /\ g.sndq = <<>> /\ g.cb = {} /\ SameClient(g, k)
  BY <1>1, AbortProperties
<1>4. k' \in Connection /\ Good(k', 0, 0)
  <2>1. CASE Up(k)
    <3>1. Present(k)
      BY <1>1, <2>1 DEF Present, Good, PcbPart, SizePart, Up
    <3>2. Gone(g)
      BY <3>1, AbortedIsGone
    <3> HIDE DEF g
    <3>3. Closed(client_handle_freed_client(g))
      BY <3>2, HandleFreedCloses
    <3>4. "err" \in k.cb
      BY <1>1, <2>1 DEF Good, PcbPart
    <3> QED BY <1>2, <3>3, <3>4 DEF client_err_func, Closed, Sound
  <2>2. CASE ~Up(k)
    <3> HIDE DEF g
    <3>1. k' = g
      BY <1>1, <1>2, <2>2 DEF Good, PcbPart
    <3>2. Len(g.sndq) <= SndBuf /\ g.state \notin Opened \cup {"SYN_RCVD"}
      BY <1>3, EmptyNat DEF Opened
    <3> QED BY <1>1, <1>3, <2>2, <3>1, <3>2, OrphanPcb
  <2> QED BY <2>1, <2>2
<1>5. toSocks' \in Nat /\ toClient' \in Nat /\ leaked' \in BOOLEAN /\ seg' = seg
  BY DEF AcceptFails, TimeWaitExpires, PcbKilled, IInv, TypeOK
<1> QED BY <1>1, <1>4, <1>5, OffSegment

LEMMA ClosingInputStep ==
    ASSUME IInv, NEW a \in 0..Len(k.sndq), NEW all \in BOOLEAN, NEW data \in BOOLEAN, NEW fin \in BOOLEAN,
           ClosingInput(a, all, data, fin)
    PROVE  IInv'
<1>1. /\ seg.at = "idle" /\ k \in Connection /\ Good(k, 0, 0) /\ Arrived(seg) = 0
      /\ k.state \in {"FIN_WAIT_1", "FIN_WAIT_2", "CLOSING", "LAST_ACK"}
  BY IdleFacts DEF ClosingInput, Quiet
<1> DEFINE next == AfterInput(k, all, data, fin)
           q == IF next \in {"FREED", "TIME_WAIT"} THEN <<>> ELSE Drop(k.sndq, a)
<1>2. next \in {"FREED", "TIME_WAIT", "CLOSING", "FIN_WAIT_1", "FIN_WAIT_2", "LAST_ACK"}
  BY <1>1 DEF AfterInput
<1> HIDE DEF next
<1>3. q \in Seq(Nat) /\ Len(q) <= SndBuf
  <2>1. k.sndq \in Seq(Nat) /\ Len(k.sndq) \in Nat /\ Len(k.sndq) <= SndBuf
    BY <1>1, Numbers DEF Good, SizePart
  <2>2. Drop(k.sndq, a) \in Seq(Nat) /\ Len(Drop(k.sndq, a)) = Len(k.sndq) - a
    BY <2>1, DropProperties
  <2> QED BY <2>1, <2>2, EmptyNat
<1>4. k' = [k EXCEPT !.state = next, !.peerFin = @ \/ fin, !.sndq = q]
  BY <1>1 DEF ClosingInput, next, Connection
<1> HIDE DEF q
<1>5. k' \in Connection /\ k'.state = next /\ k'.sndq = q /\ k'.cb = k.cb
  <2>1. next \in PcbState
    BY <1>2 DEF PcbState, Active
  <2>2. (k.peerFin \/ fin) \in BOOLEAN
    BY <1>1 DEF Connection
  <2> QED BY ZenonT(60), <1>1, <1>3, <1>4, <2>1, <2>2 DEF Connection
<1>6. SameClient(k', k)
  BY <1>1, <1>4 DEF SameClient, Connection
<1>7. ~Up(k) /\ k.cb = {}
  BY <1>1 DEF Good, PcbPart, Opened
<1>8. Good(k', 0, 0)
  <2>1. k'.state \notin Opened \cup {"SYN_RCVD"}
    BY <1>2, <1>5 DEF Opened
  <2> QED BY <1>1, <1>3, <1>5, <1>6, <1>7, <2>1, OrphanPcb
<1>9. toSocks' \in Nat /\ toClient' \in Nat /\ leaked' \in BOOLEAN /\ seg' = seg
  <2>1. a \in Nat
    OBVIOUS
  <2> QED BY <2>1 DEF ClosingInput, IInv, TypeOK
<1> QED BY <1>1, <1>5, <1>8, <1>9, OffSegment

\* A step of the SOCKS side that changes the jobs, the awaited events and no
\* other field.
LEMMA JobsMove ==
    ASSUME NEW a, NEW d, NEW c, Sound(c, a, d), NEW q \in Seq(Kind), Once(q), NEW w \in SUBSET {"write", "read"},
           c.conn = "up",
           "write" \in w => ~In(q, "send"), "read" \in w => ~In(q, "recv"),
           "write" \in w \/ In(q, "send") <=> "write" \in c.wait \/ In(c.jobs, "send"),
           "read" \in w \/ In(q, "recv") <=> "read" \in c.wait \/ In(c.jobs, "recv")
    PROVE  Sound([c EXCEPT !.wait = w, !.jobs = q], a, d)
<1> DEFINE r == [c EXCEPT !.wait = w, !.jobs = q]
<1>0. c \in Connection /\ PcbPart(c) /\ SocksPart(c) /\ WorkPart(c) /\ WaitPart(c) /\ SizePart(c, a, d) /\ Held(c)
  BY DEF Sound, Good
<1>1. r \in Connection
  BY <1>0 DEF Connection, Kind
<1>2. /\ r.jobs = q /\ r.wait = w /\ r.live = c.live /\ r.client_closed = c.client_closed
      /\ r.state = c.state /\ r.cb = c.cb /\ r.rcv_wnd = c.rcv_wnd /\ r.buf = c.buf
  BY <1>0 DEF Connection
<1>3. /\ r.socks_up = c.socks_up /\ r.socks_closed = c.socks_closed /\ r.conn = c.conn
      /\ r.sending = c.sending /\ r.sndq = c.sndq /\ r.pending = c.pending /\ r.rbuf = c.rbuf
  BY <1>0 DEF Connection
<1> HIDE DEF r
<1>4. (Up(r) <=> Up(c)) /\ (Flowing(r) <=> Flowing(c)) /\ Held(r)
  BY <1>0, <1>2, <1>3 DEF Up, Flowing, Held
<1>5. PcbPart(r) /\ SizePart(r, a, d)
  BY <1>0, <1>2, <1>3, <1>4 DEF PcbPart, SizePart
<1>6. SocksPart(r)
  BY <1>0, <1>2, <1>3 DEF SocksPart
<1>7. WorkPart(r)
  BY <1>0, <1>2, <1>3, <1>4 DEF WorkPart, Queued
<1>8. WaitPart(r)
  BY <1>0, <1>2, <1>3, <1>4 DEF WaitPart, Queued
<1>9. Sound(r, a, d)
  BY <1>1, <1>4, <1>5, <1>6, <1>7, <1>8 DEF Sound, Good
<1> QED BY <1>9 DEF r

LEMMA WouldBlockStep == IInv /\ WouldBlock => IInv'
<1> SUFFICES ASSUME IInv, WouldBlock PROVE IInv'
  OBVIOUS
<1>1. /\ Sound(k, 0, Arrived(seg)) /\ Flowing(k) /\ Held(k)
      /\ seg.at \notin {"sent", "recv", "fin"} /\ Arrived(seg) \in Nat
  BY JobFlows DEF WouldBlock
<1>2. k \in Connection /\ k.jobs # <<>> /\ Once(k.jobs) /\ k.jobs \in Seq(Kind) /\ k.wait \in SUBSET {"write", "read"}
      /\ SocksPart(k) /\ WorkPart(k)
  BY <1>1 DEF WouldBlock, Sound, Good, WorkPart, Connection, Kind
<1> DEFINE e == IF Head(k.jobs) = "send" THEN "write" ELSE "read"
           q == Tail(k.jobs)
           w == k.wait \cup {e}
<1>3. k' = [k EXCEPT !.wait = w, !.jobs = q]
  BY <1>2 DEF WouldBlock, Connection
<1>4. /\ Head(k.jobs) \in Kind /\ In(k.jobs, Head(k.jobs)) /\ q \in Seq(Kind) /\ Once(q)
      /\ \A i : In(q, i) <=> i # Head(k.jobs) /\ In(k.jobs, i)
  BY <1>2, TailOfQueue
<1> HIDE DEF q
<1>5. k.conn = "up" /\ w \in SUBSET {"write", "read"}
  BY <1>2 DEF SocksPart
<1>6. /\ "write" \in w => ~In(q, "send")
      /\ "read" \in w => ~In(q, "recv")
      /\ "write" \in w \/ In(q, "send") <=> "write" \in k.wait \/ In(k.jobs, "send")
      /\ "read" \in w \/ In(q, "recv") <=> "read" \in k.wait \/ In(k.jobs, "recv")
  BY <1>2, <1>4 DEF Kind, WorkPart, Queued
<1> HIDE DEF w
<1>7. Sound(k', 0, Arrived(seg))
  BY <1>1, <1>3, <1>4, <1>5, <1>6, JobsMove
<1>8. toSocks' \in Nat /\ toClient' \in Nat /\ leaked' \in BOOLEAN /\ seg' = seg
  BY DEF WouldBlock, IInv, TypeOK
<1> QED BY <1>1, <1>7, <1>8, OffSegment DEF Sound

LEMMA FdReadyStep ==
    ASSUME IInv, NEW events \in SUBSET {"write", "read"}, FdReady(events)
    PROVE  IInv'
<1>1. /\ seg.at = "idle" /\ k \in Connection /\ Good(k, 0, 0) /\ Arrived(seg) = 0
      /\ k.jobs = <<>> /\ events \subseteq k.wait /\ events # {} /\ k.wait \in SUBSET {"write", "read"}
  BY IdleFacts DEF FdReady, Quiet, Connection
<1>2. k.conn = "up" /\ k.live /\ Sound(k, 0, 0)
  <2>1. k.conn = "up" /\ k.live
    BY <1>1 DEF Good, SocksPart, Connection
  <2> QED BY <1>1, <2>1 DEF Sound, Held
<1> DEFINE q == (IF "write" \in events THEN <<"send">> ELSE <<>>)
                \o (IF "read" \in events THEN <<"recv">> ELSE <<>>)
           w == k.wait \ events
<1>3. k' = [k EXCEPT !.wait = w, !.jobs = q]
  BY DEF FdReady
<1>4. /\ q \in Seq(Kind) /\ Once(q)
      /\ In(q, "send") <=> "write" \in events
      /\ In(q, "recv") <=> "read" \in events
  <2>1. /\ <<"recv">> \o <<>> = <<"recv">> /\ <<"send">> \o <<>> = <<"send">>
        /\ <<>> \o <<"recv">> = <<"recv">> /\ <<>> \o <<>> = <<>>
    <3>1. <<"recv">> \in Seq(Kind) /\ <<"send">> \in Seq(Kind) /\ <<>> \in Seq(Kind)
      BY DEF Kind
    <3> QED BY <3>1, ConcatEmptySeq
  <2>2. /\ <<"recv">> \in Seq(Kind) /\ Once(<<"recv">>)
        /\ \A i : In(<<"recv">>, i) <=> i = "recv"
    <3>1. "recv" \in Kind /\ <<>> \in Seq(Kind) /\ Once(<<>>) /\ ~In(<<>>, "recv")
      BY EmptyQueue DEF Kind
    <3>2. /\ <<"recv">> \o <<>> \in Seq(Kind) /\ Once(<<"recv">> \o <<>>)
          /\ \A i : In(<<"recv">> \o <<>>, i) <=> i = "recv" \/ In(<<>>, i)
      BY <3>1, FrontOfQueue
    <3> QED BY <2>1, <3>2, EmptyQueue
  <2>3. /\ <<"send">> \in Seq(Kind) /\ Once(<<"send">>)
        /\ \A i : In(<<"send">>, i) <=> i = "send"
    <3>1. "send" \in Kind /\ <<>> \in Seq(Kind) /\ Once(<<>>) /\ ~In(<<>>, "send")
      BY EmptyQueue DEF Kind
    <3>2. /\ <<"send">> \o <<>> \in Seq(Kind) /\ Once(<<"send">> \o <<>>)
          /\ \A i : In(<<"send">> \o <<>>, i) <=> i = "send" \/ In(<<>>, i)
      BY <3>1, FrontOfQueue
    <3> QED BY <2>1, <3>2, EmptyQueue
  <2>4. /\ <<"send">> \o <<"recv">> \in Seq(Kind) /\ Once(<<"send">> \o <<"recv">>)
        /\ \A i : In(<<"send">> \o <<"recv">>, i) <=> i = "send" \/ i = "recv"
    <3>1. "send" \in Kind
      BY DEF Kind
    <3> QED BY <2>2, <3>1, FrontOfQueue
  <2> QED BY <2>1, <2>2, <2>3, <2>4, <1>1
<1> HIDE DEF q
<1>5. \A j : ~In(k.jobs, j)
  BY <1>1, EmptyQueue
<1>6. /\ w \in SUBSET {"write", "read"}
      /\ "write" \in w => ~In(q, "send")
      /\ "read" \in w => ~In(q, "recv")
      /\ "write" \in w \/ In(q, "send") <=> "write" \in k.wait \/ In(k.jobs, "send")
      /\ "read" \in w \/ In(q, "recv") <=> "read" \in k.wait \/ In(k.jobs, "recv")
  BY <1>1, <1>4, <1>5
<1> HIDE DEF w
<1>7. Sound(k', 0, 0)
  BY <1>2, <1>3, <1>4, <1>6, JobsMove
<1>8. toSocks' \in Nat /\ toClient' \in Nat /\ leaked' \in BOOLEAN /\ seg' = seg
  BY DEF FdReady, IInv, TypeOK
<1> QED BY <1>1, <1>7, <1>8, OffSegment DEF Sound

LEMMA HandshakeDoneStep == IInv /\ HandshakeDone => IInv'
<1> SUFFICES ASSUME IInv, HandshakeDone PROVE IInv'
  OBVIOUS
<1>1. /\ seg.at \in {"idle", "acceptSync"} /\ Arrived(seg) = 0 /\ k \in Connection /\ Good(k, 0, 0)
      /\ k.jobs = <<>> /\ k.conn = "handshake"
  BY IdleFacts DEF HandshakeDone, Handshaking
<1>2. /\ k.live /\ ~k.socks_closed /\ ~k.socks_up /\ k.wait = {} /\ k.sending = 0
      /\ k.rbuf = <<>> /\ k.pending = 0
  BY <1>1 DEF Good, SocksPart
<1> DEFINE cb == IF k.client_closed THEN k.cb ELSE k.cb \cup {"sent"}
           u == [k EXCEPT !.conn = "up", !.socks_up = TRUE, !.cb = cb]
           s == IF k.buf # <<>> THEN client_send_to_socks(u) ELSE u
<1>3. k' = IF k.client_closed THEN s ELSE client_socks_recv_initiate(s)
  BY <1>1 DEF HandshakeDone, SocksUp, Connection
<1>4. cb \in SUBSET {"err", "recv", "sent"}
  BY <1>1 DEF Connection
<1> HIDE DEF cb
<1>5. u \in Connection /\ u.conn = "up" /\ u.socks_up /\ u.cb = cb /\ u.jobs = <<>> /\ u.buf = k.buf
  BY <1>1, <1>4 DEF Connection
<1>6. /\ u.live /\ ~u.socks_closed /\ u.wait = {} /\ u.sending = 0 /\ u.rbuf = <<>> /\ u.pending = 0
      /\ u.client_closed = k.client_closed /\ u.state = k.state /\ u.sndq = k.sndq /\ u.rcv_wnd = k.rcv_wnd
  BY <1>1, <1>2 DEF Connection
<1> HIDE DEF u
<1>7. /\ s \in Connection /\ Once(s.jobs)
      /\ s = [u EXCEPT !.jobs = s.jobs, !.sending = s.sending]
      /\ s.sending = Len(k.buf)
      /\ \A j : Queued(s, j) <=> j = "send" /\ k.buf # <<>>
  <2>0. Once(u.jobs) /\ \A j : ~Queued(u, j)
    BY <1>5, EmptyQueue DEF Queued
  <2>1. CASE k.buf # <<>>
    <3> DEFINE y == client_send_to_socks(u)
    <3>1. /\ y \in Connection /\ y = [u EXCEPT !.jobs = y.jobs, !.sending = Len(u.buf)]
          /\ Once(y.jobs) /\ \A j : Queued(y, j) <=> j = "send" \/ Queued(u, j)
      BY <1>5, <2>0, SendToSocksProperties
    <3>2. s = y
      BY <2>1
    <3> HIDE DEF y, s
    <3>3. y.sending = Len(k.buf)
      BY ZenonT(60), <1>5, <3>1 DEF Connection
    <3> QED BY <1>5, <2>0, <2>1, <3>1, <3>2, <3>3
  <2>2. CASE k.buf = <<>>
    <3>1. s = u /\ Len(k.buf) = 0
      BY <2>2, EmptyNat
    <3> HIDE DEF s
    <3>2. u = [u EXCEPT !.jobs = u.jobs, !.sending = u.sending]
      BY <1>5 DEF Connection
    <3> QED BY <1>5, <1>6, <2>0, <2>2, <3>1, <3>2
  <2> QED BY <2>1, <2>2
<1> HIDE DEF s
<1>8. /\ s.conn = "up" /\ s.socks_up /\ s.cb = cb /\ s.buf = k.buf
      /\ s.live /\ ~s.socks_closed /\ s.wait = {} /\ s.rbuf = <<>> /\ s.pending = 0
  BY ZenonT(60), <1>5, <1>6, <1>7 DEF Connection
<1>9. /\ s.client_closed = k.client_closed /\ s.state = k.state /\ s.sndq = k.sndq /\ s.rcv_wnd = k.rcv_wnd
  BY ZenonT(60), <1>5, <1>6, <1>7 DEF Connection
<1>10. (Up(s) <=> Up(k)) /\ (Up(s) <=> ~k.client_closed) /\ Held(s) /\ Flowing(s)
  BY <1>2, <1>8, <1>9 DEF Up, Held, Flowing
<1>11. SocksPart(s)
  BY <1>8 DEF SocksPart
<1>12. WorkPart(s)
  <2>1. Len(k.buf) \in Nat /\ (k.buf = <<>> <=> Len(k.buf) = 0)
    BY <1>1, Numbers, EmptyNat
  <2> QED BY <1>7, <1>8, <2>1 DEF WorkPart
<1>13. PcbPart(s)
  BY <1>1, <1>2, <1>8, <1>9, <1>10 DEF Good, PcbPart, cb, Opened
<1>14. SizePart(s, 0, 0)
  BY <1>1, <1>2, <1>8, <1>9, <1>10 DEF Good, SizePart
<1>15. Sound(k', 0, 0)
  <2>1. CASE k.client_closed
    <3>1. WaitPart(s)
      BY <1>1, <1>2, <1>8, <1>9, <1>10, <2>1 DEF Good, WaitPart
    <3> QED BY <1>3, <1>7, <1>10, <1>11, <1>12, <1>13, <1>14, <2>1, <3>1 DEF Sound, Good
  <2>2. CASE ~k.client_closed
    <3>1. Present(s)
      BY <1>7, <1>8, <1>10, <1>11, <1>12, <1>13, <1>14, <2>2 DEF Present, PcbPart, SizePart
    <3>2. ~Queued(s, "recv") /\ "read" \notin s.wait
      BY <1>7, <1>8
    <3> QED BY <1>3, <1>8, <1>10, <1>13, <1>14, <2>2, <3>1, <3>2, InitiateIsSound
  <2> QED BY <2>1, <2>2
<1>16. toSocks' \in Nat /\ toClient' \in Nat /\ leaked' \in BOOLEAN /\ seg' = seg
  BY DEF HandshakeDone, IInv, TypeOK
<1> QED BY <1>1, <1>15, <1>16, OffSegment DEF Sound

\* A callback that moves on to the next one.
LEMMA OnSegment ==
    ASSUME IInv, NEW c, c \in Connection, Good(c, Acked(seg'), Arrived(seg')), Held(c),
           k' = c, seg' \in Segment,
           seg'.at \in {"sent", "recv", "fin"} => c.jobs = <<>> /\ Up(c),
           seg'.at \notin {"refused", "idle", "acceptSync"} \/ seg' = NoSegment,
           toSocks' \in Nat, toClient' \in Nat, leaked' \in BOOLEAN
    PROVE  IInv'
<1>1. TypeOK'
  BY DEF TypeOK
<1>2. SegmentPart(k', seg')
  BY NoSegmentCounts DEF SegmentPart
<1> QED BY <1>1, <1>2 DEF IInv

LEMMA OpenInputStep ==
    ASSUME IInv, NEW a \in 0..Len(k.sndq), NEW n \in 0..TcpWnd, NEW fin \in BOOLEAN, OpenInput(a, n, fin)
    PROVE  IInv'
<1>1. /\ seg.at = "idle" /\ k \in Connection /\ Good(k, 0, 0) /\ k.jobs = <<>> /\ k.state \in Opened
  BY IdleFacts DEF OpenInput, Quiet, Opened
<1>2. /\ k.rcv_wnd \in 0..TcpWnd /\ k.rcvd \in Nat /\ k.sndq \in Seq(Nat) /\ Len(k.sndq) \in Nat
      /\ Len(k.buf) \in Nat /\ Up(k) /\ Len(k.sndq) <= SndBuf /\ k.pending = Len(k.sndq)
      /\ (~k.socks_closed => k.rcv_wnd + Len(k.buf) <= TcpWnd)
  <2>1. Up(k)
    BY <1>1 DEF Good, PcbPart
  <2>2. /\ k.rcv_wnd \in 0..TcpWnd /\ k.sndq \in Seq(Nat) /\ Len(k.sndq) \in Nat /\ Len(k.buf) \in Nat
    BY <1>1, Numbers
  <2>3. k.rcvd \in Nat
    BY <1>1 DEF Connection
  <2> QED BY <1>1, <2>1, <2>2, <2>3 DEF Good, SizePart
<1> DEFINE f == IF fin THEN 1 ELSE 0
           q == Drop(k.sndq, a)
           v == k.rcv_wnd - n - f
           m == k.rcvd + n
           st == IF fin THEN "CLOSE_WAIT" ELSE k.state
           data == Run(k.rcvd, n)
<1>3. q \in Seq(Nat) /\ Len(q) = Len(k.sndq) - a /\ a \in Nat
  BY SMTT(60), <1>2, DropProperties
<1>4. f \in {0, 1} /\ v \in 0..TcpWnd /\ m \in Nat /\ n \in Nat
  <2>1. f \in {0, 1} /\ n + f <= k.rcv_wnd
    BY <1>2 DEF OpenInput
  <2>2. k.rcv_wnd \in 0..TcpWnd /\ m \in Nat /\ n \in Nat
    BY <1>2
  <2> HIDE DEF f
  <2> QED BY <2>1, <2>2, WindowShrinks
<1>5. data \in Seq(Nat) /\ Len(data) = n
  BY <1>2, <1>4, RunProperties
<1>6. /\ seg' = [at |-> "sent", acked |-> a, data |-> data, fin |-> fin]
      /\ k' = [k EXCEPT !.sndq = q, !.rcvd = m, !.rcv_wnd = v, !.state = st, !.peerFin = @ \/ fin]
  BY <1>1 DEF OpenInput, Connection
<1>7. seg' \in Segment /\ seg'.at = "sent" /\ Acked(seg') = a /\ Arrived(seg') = n + f
  <2> HIDE DEF data
  <2>1. /\ seg' \in Segment /\ seg'.at = "sent" /\ seg'.acked = a /\ seg'.data = data /\ seg'.fin = fin
    BY <1>3, <1>5, <1>6 DEF Segment, Stage
  <2> QED BY <1>5, <2>1 DEF Acked, Arrived
<1> HIDE DEF f, q, v, m, data
<1>8. k' \in Connection /\ k'.sndq = q /\ k'.rcv_wnd = v /\ k'.state = st /\ k'.cb = k.cb
  <2>1. st \in PcbState
    BY <1>1 DEF PcbState, Active, Opened
  <2>2. (k.peerFin \/ fin) \in BOOLEAN
    BY <1>1 DEF Connection
  <2> HIDE DEF st
  <2> QED BY ZenonT(60), <1>1, <1>3, <1>4, <1>6, <2>1, <2>2 DEF Connection
<1>9. SameClient(k', k) /\ st \in Opened
  BY <1>1, <1>6 DEF SameClient, Connection, Opened
<1> HIDE DEF st
<1>10. Up(k') /\ Held(k') /\ k'.jobs = <<>> /\ SocksPart(k') /\ WorkPart(k')
  BY <1>1, <1>2, <1>9, SameClientParts DEF Good, Up, Held, SameClient
<1>11. PcbPart(k') /\ WaitPart(k')
  <2>1. PcbPart(k')
    BY <1>1, <1>2, <1>8, <1>9, <1>10 DEF Good, PcbPart, SameClient, Opened
  <2>2. WaitPart(k')
    BY <1>1, <1>2, <1>9, <1>10 DEF Good, WaitPart, SameClient, Flowing, Queued
  <2> QED BY <2>1, <2>2
<1>12. SizePart(k', Acked(seg'), Arrived(seg'))
  <2>1. Len(q) <= SndBuf /\ k.pending = Len(q) + a
    BY <1>2, <1>3
  <2>2. v = k.rcv_wnd - n - f
    BY DEF v
  <2>3. ~k.socks_closed => v + Len(k.buf) + (n + f) <= TcpWnd
    BY <1>2, <1>4, <2>2
  <2> QED BY <1>7, <1>8, <1>9, <2>1, <2>3 DEF SizePart, SameClient
<1>13. Good(k', Acked(seg'), Arrived(seg'))
  BY <1>10, <1>11, <1>12 DEF Good
<1>14. toSocks' \in Nat /\ toClient' \in Nat /\ leaked' \in BOOLEAN
  BY SMTT(60), <1>3 DEF OpenInput, IInv, TypeOK
<1> QED BY <1>7, <1>8, <1>10, <1>13, <1>14, OnSegment

\* The sizes of the segment when tcp_input goes to another stage.
LEMMA NextStage ==
    ASSUME NEW s \in Segment, NEW stage \in Stage
    PROVE  LET t == [s EXCEPT !.at = stage]
           IN  /\ t \in Segment /\ t.at = stage /\ t.data = s.data /\ t.fin = s.fin
               /\ stage # "sent" => Acked(t) = 0
               /\ s.at \in {"sent", "sentSync", "recv"} /\ stage \in {"sent", "sentSync", "recv"}
                    => Arrived(t) = Arrived(s)
               /\ s.at \notin {"sent", "sentSync", "recv"} /\ stage \notin {"sent", "sentSync", "recv"}
                    => Arrived(t) = Arrived(s)
               /\ s.at = "recv" /\ stage \notin {"sent", "sentSync", "recv"}
                    => Arrived(t) + Len(s.data) = Arrived(s)
<1> DEFINE t == [s EXCEPT !.at = stage]
<1>1. t \in Segment /\ t.at = stage /\ t.data = s.data /\ t.fin = s.fin
  BY DEF Segment
<1> HIDE DEF t
<1>2. stage # "sent" => Acked(t) = 0
  BY <1>1 DEF Acked
<1>3. Len(s.data) \in Nat /\ Arrived(s) \in Nat
  BY Counts, EmptyNat
<1>4. /\ s.at \in {"sent", "sentSync", "recv"} /\ stage \in {"sent", "sentSync", "recv"}
            => Arrived(t) = Arrived(s)
      /\ s.at \notin {"sent", "sentSync", "recv"} /\ stage \notin {"sent", "sentSync", "recv"}
            => Arrived(t) = Arrived(s)
  BY <1>1 DEF Arrived
<1>5. s.at = "recv" /\ stage \notin {"sent", "sentSync", "recv"} => Arrived(t) + Len(s.data) = Arrived(s)
  <2> SUFFICES ASSUME s.at = "recv", stage \notin {"sent", "sentSync", "recv"}
               PROVE  Arrived(t) + Len(s.data) = Arrived(s)
    OBVIOUS
  <2> DEFINE f == IF s.fin THEN 1 ELSE 0
  <2>1. f \in Nat /\ Arrived(s) = Len(s.data) + f /\ Arrived(t) = 0 + f
    BY <1>1 DEF Arrived
  <2> HIDE DEF f
  <2> QED BY <1>3, <2>1
<1>6. /\ t \in Segment /\ t.at = stage /\ t.data = s.data /\ t.fin = s.fin
      /\ stage # "sent" => Acked(t) = 0
      /\ s.at \in {"sent", "sentSync", "recv"} /\ stage \in {"sent", "sentSync", "recv"}
           => Arrived(t) = Arrived(s)
      /\ s.at \notin {"sent", "sentSync", "recv"} /\ stage \notin {"sent", "sentSync", "recv"}
           => Arrived(t) = Arrived(s)
      /\ s.at = "recv" /\ stage \notin {"sent", "sentSync", "recv"}
           => Arrived(t) + Len(s.data) = Arrived(s)
  BY <1>1, <1>2, <1>4, <1>5
<1> QED BY <1>6 DEF t

LEMMA SyncEndStep == IInv /\ SyncEnd => IInv'
<1> SUFFICES ASSUME IInv, SyncEnd PROVE IInv'
  OBVIOUS
<1>1. /\ k \in Connection /\ seg \in Segment /\ k.jobs = <<>> /\ Held(k) /\ k' = k
      /\ seg.at \in {"acceptSync", "sentSync", "recvSync"} /\ Acked(seg) = 0
      /\ Good(k, 0, Arrived(seg))
  BY DEF SyncEnd, IInv, TypeOK, SegmentPart, Acked
<1>2. toSocks' \in Nat /\ toClient' \in Nat /\ leaked' \in BOOLEAN
  BY DEF SyncEnd, Aborted, IInv, TypeOK
<1>3. CASE seg.at = "acceptSync"
  <2>1. seg' = NoSegment /\ Arrived(seg) = 0
    BY <1>3 DEF SyncEnd, IInv, SegmentPart
  <2> QED BY <1>1, <1>2, <2>1, NoSegmentCounts, OnSegment
<1>4. CASE seg.at # "acceptSync" /\ k.client_closed
  <2>1. seg' = NoSegment
    BY <1>4 DEF SyncEnd, Aborted
  <2>2. Good(k, 0, 0)
    BY <1>1, <1>4 DEF Good, SizePart, Up
  <2> QED BY <1>1, <1>2, <2>1, <2>2, NoSegmentCounts, OnSegment
<1>5. CASE seg.at # "acceptSync" /\ ~k.client_closed
  <2> DEFINE stage == IF seg.at = "sentSync" THEN "recv" ELSE "fin"
  <2>1. seg' = [seg EXCEPT !.at = stage] /\ stage \in Stage /\ Up(k)
    BY <1>1, <1>5 DEF SyncEnd, Stage, Segment, Up, Held
  <2>2. seg' \in Segment /\ seg'.at = stage /\ Acked(seg') = 0 /\ Arrived(seg') = Arrived(seg)
    BY <1>1, <1>5, <2>1, NextStage
  <2> QED BY <1>1, <1>2, <2>1, <2>2, OnSegment
<1> QED BY <1>3, <1>4, <1>5

\* The state in which tcp_input calls client_sent_func, client_recv_func with a
\* pbuf, and client_recv_func without one.
LEMMA StageFacts ==
    ASSUME IInv, seg.at \in {"sent", "recv", "fin"}
    PROVE  /\ k \in Connection /\ seg \in Segment /\ k.jobs = <<>> /\ Up(k) /\ Held(k) /\ Present(k)
           /\ Good(k, Acked(seg), Arrived(seg)) /\ Arrived(seg) \in Nat /\ Acked(seg) \in Nat
<1>1. /\ k \in Connection /\ seg \in Segment /\ k.jobs = <<>> /\ Up(k) /\ Held(k)
      /\ Good(k, Acked(seg), Arrived(seg))
  BY DEF IInv, TypeOK, SegmentPart
<1>2. Present(k)
  BY <1>1 DEF Present, Good, PcbPart, SizePart, Up
<1> QED BY <1>1, <1>2, Counts

LEMMA SentCallbackStep ==
    ASSUME IInv, NEW r \in Outcome, NEW mem \in BOOLEAN, SentCallback(r, mem)
    PROVE  IInv'
<1>0. /\ seg.at = "sent" /\ k \in Connection /\ seg \in Segment /\ k.jobs = <<>> /\ Up(k) /\ Held(k)
      /\ Good(k, Acked(seg), Arrived(seg)) /\ Arrived(seg) \in Nat /\ Acked(seg) = seg.acked
      /\ seg.acked \in Nat /\ Present(k)
  BY StageFacts, Counts DEF SentCallback, Acked
<1>1. toSocks' \in Nat /\ toClient' \in Nat /\ leaked' \in BOOLEAN
  BY DEF SentCallback, Aborted, IInv, TypeOK
<1> DEFINE d == Arrived(seg)
           c == [k EXCEPT !.pending = @ - seg.acked]
           out == client_socks_recv_send_out(c, r)
           go == seg' = [seg EXCEPT !.at = "recv"]
<1>2. go => seg' \in Segment /\ seg'.at = "recv" /\ Acked(seg') = 0 /\ Arrived(seg') = d
  <2>1. "recv" \in Stage
    BY DEF Stage
  <2> QED BY <1>0, <2>1, NextStage
<1>3. ASSUME NEW x, k' = x, x \in Connection, Good(x, 0, d), Up(x), x.jobs = <<>>, go
      PROVE  IInv'
  BY <1>1, <1>2, <1>3, OnSegment DEF Held, Up
<1>4. ASSUME NEW x, k' = x, Closed(x), seg' = NoSegment
      PROVE  IInv'
  <2>1. x \in Connection /\ Good(x, 0, 0) /\ Held(x)
    BY <1>4 DEF Closed, Sound
  <2> QED BY <1>1, <1>4, <2>1, NoSegmentCounts, OnSegment
<1>5. /\ k.pending \in Nat /\ Len(k.sndq) \in Nat /\ Len(k.sndq) <= SndBuf
      /\ k.pending = Len(k.sndq) + seg.acked
  BY <1>0, Numbers DEF Good, SizePart
<1> DEFINE left == k.pending - seg.acked
<1>6. left = Len(k.sndq) /\ left \in Nat
  BY <1>0, <1>5
<1>7. c = [k EXCEPT !.pending = left]
  BY <1>0 DEF Connection
<1>8. CASE seg.acked = 0 \/ "sent" \notin k.cb
  <2>1. k' = k /\ go
    BY <1>8 DEF SentCallback
  <2>2. seg.acked = 0
    <3>1. "sent" \notin k.cb => k.pending = 0
      BY <1>0 DEF Good, PcbPart, SocksPart
    <3> QED BY <1>0, <1>5, <1>8, <3>1
  <2> HIDE DEF go
  <2> QED BY <1>0, <1>3, <2>1, <2>2
<1>9. CASE ~(seg.acked = 0 \/ "sent" \notin k.cb)
  <2>0. k.socks_up
    BY <1>0, <1>9 DEF Good, PcbPart
  <2>1. /\ c.rbuf = <<>> /\ c.socks_closed /\ c.pending = 0
            => k' = client_free_client(c, mem) /\ seg' = NoSegment
        /\ c.rbuf = <<>> /\ ~(c.socks_closed /\ c.pending = 0) => k' = c /\ go
        /\ c.rbuf # <<>> /\ out.client_closed => k' = out /\ seg' = NoSegment
        /\ c.rbuf # <<>> /\ ~out.client_closed /\ out.rbuf = <<>> /\ ~out.socks_closed
            => k' = client_socks_recv_initiate(out) /\ seg' = [seg EXCEPT !.at = "sentSync"]
        /\ c.rbuf # <<>> /\ ~out.client_closed /\ ~(out.rbuf = <<>> /\ ~out.socks_closed)
            => k' = out /\ go
    BY <1>9 DEF SentCallback, Aborted
  <2> HIDE DEF out, go, c
  <2>2. c \in Connection /\ c.pending = left /\ c.sndq = k.sndq /\ c.rcv_wnd = k.rcv_wnd
        /\ c.live = k.live /\ c.client_closed = k.client_closed /\ c.state = k.state /\ c.cb = k.cb
    BY <1>0, <1>6, <1>7 DEF Connection
  <2>3. /\ c.jobs = k.jobs /\ c.wait = k.wait /\ c.buf = k.buf /\ c.rbuf = k.rbuf /\ c.sending = k.sending
        /\ c.socks_up = k.socks_up /\ c.socks_closed = k.socks_closed /\ c.conn = k.conn
    BY <1>0, <1>7 DEF Connection
  <2>4. Up(c)
    BY <1>0, <2>2 DEF Up
  <2>5. SocksPart(c) /\ WorkPart(c)
    <3>1. SocksPart(c)
      BY <1>0, <2>0, <2>2, <2>3 DEF Good, SocksPart
    <3>2. WorkPart(c)
      BY <1>0, <2>2, <2>3 DEF Good, WorkPart, Queued, Flowing
    <3> QED BY <3>1, <3>2
  <2>6. PcbPart(c) /\ SizePart(c, 0, d)
    <3>1. PcbPart(c)
      BY <1>0, <2>2, <2>3, <2>4 DEF Good, PcbPart
    <3>2. SizePart(c, 0, d)
      BY <1>0, <1>6, <2>2, <2>3 DEF Good, SizePart, Up
    <3> QED BY <3>1, <3>2
  <2>7. Present(c)
    BY <1>0, <2>2, <2>5 DEF Present
  <2>8. CASE c.rbuf = <<>>
    <3>1. CASE c.socks_closed /\ c.pending = 0
      BY <1>4, <2>1, <2>7, <2>8, <3>1, FreeClientCloses
    <3>2. CASE ~(c.socks_closed /\ c.pending = 0)
      <4>1. c.pending \in Nat
        BY <1>6, <2>2
      <4>2. WaitPart(c)
        BY <1>0, <2>0, <2>2, <2>3, <2>4, <2>8, <3>2, <4>1 DEF Good, WaitPart, Up, Flowing, Queued
      <4>3. Good(c, 0, d)
        BY <2>5, <2>6, <4>2 DEF Good
      <4> QED BY <1>0, <1>3, <2>1, <2>2, <2>3, <2>4, <2>8, <3>2, <4>3
    <3> QED BY <3>1, <3>2
  <2>9. CASE c.rbuf # <<>>
    <3>0. ~Queued(c, "recv") /\ "read" \notin c.wait
      BY <1>0, <2>3, <2>9 DEF Good, WaitPart, Queued
    <3>1. SentOut(c, out, d)
      BY <1>0, <2>0, <2>3, <2>4, <2>6, <2>7, SendOutEffect DEF out
    <3>2. CASE Closed(out)
      BY <1>4, <2>1, <2>9, <3>2 DEF Closed
    <3>3. CASE ~Closed(out)
      <4>1. /\ Present(out) /\ PcbPart(out) /\ SizePart(out, 0, d) /\ Up(out) /\ out \in Connection
            /\ out.jobs = c.jobs /\ out.wait = c.wait /\ out.socks_closed = c.socks_closed
            /\ out.socks_up = c.socks_up /\ out.buf = c.buf /\ out.pending > 0 /\ ~out.client_closed
            /\ SocksPart(out) /\ WorkPart(out)
        BY <2>9, <3>1, <3>3 DEF SentOut, Present, Up
      <4>2. ~Queued(out, "recv") /\ "read" \notin out.wait
        BY <3>0, <4>1 DEF Queued
      <4>3. CASE out.rbuf = <<>> /\ ~out.socks_closed
        <5> DEFINE y == client_socks_recv_initiate(out)
        <5>1. k' = y /\ seg' = [seg EXCEPT !.at = "sentSync"]
          BY <2>1, <2>9, <4>1, <4>3
        <5>2. Sound(y, 0, d) /\ Up(y)
          BY <1>0, <2>0, <2>3, <4>1, <4>2, <4>3, InitiateIsSound
        <5>3. seg' \in Segment /\ seg'.at = "sentSync" /\ Acked(seg') = 0 /\ Arrived(seg') = d
          <6>1. "sentSync" \in Stage
            BY DEF Stage
          <6> QED BY <1>0, <5>1, <6>1, NextStage
        <5> HIDE DEF y
        <5> QED BY <1>1, <5>1, <5>2, <5>3, OnSegment DEF Sound
      <4>4. CASE ~(out.rbuf = <<>> /\ ~out.socks_closed)
        <5>1. WaitPart(out)
          BY <2>0, <2>3, <4>1, <4>2, <4>4 DEF WaitPart, Flowing
        <5>2. Good(out, 0, d)
          BY <4>1, <5>1 DEF Good
        <5> QED BY <1>0, <1>3, <2>1, <2>3, <2>9, <4>1, <4>4, <5>2
      <4> QED BY <4>3, <4>4
    <3> QED BY <3>2, <3>3
  <2> QED BY <2>8, <2>9
<1> QED BY <1>8, <1>9

\* Once SOCKS is closed the window no longer measures the buffer.
LEMMA ClosedWindow ==
    ASSUME NEW d, NEW e, NEW c, Good(c, 0, d), Up(c), c.socks_closed,
           NEW r, SameClient(r, c), r.state = c.state, r.cb = c.cb, r.sndq = c.sndq
    PROVE  Good(r, 0, e)
<1>1. SocksPart(r) /\ WorkPart(r) /\ Up(r) /\ r.socks_closed
  BY SameClientParts DEF Good, Up, SameClient
<1>2. PcbPart(r)
  BY <1>1 DEF Good, PcbPart, SameClient, Opened
<1>3. WaitPart(r) /\ SizePart(r, 0, e)
  BY <1>1 DEF Good, WaitPart, SizePart, SameClient, Flowing, Queued
<1> QED BY <1>1, <1>2, <1>3 DEF Good

LEMMA RecvCallbackStep == IInv /\ RecvCallback => IInv'
<1> SUFFICES ASSUME IInv, RecvCallback PROVE IInv'
  OBVIOUS
<1>0. /\ seg.at = "recv" /\ k \in Connection /\ seg \in Segment /\ k.jobs = <<>> /\ Up(k) /\ Held(k)
      /\ Good(k, 0, Arrived(seg)) /\ Arrived(seg) \in Nat /\ Present(k)
  BY StageFacts DEF RecvCallback, Acked
<1>1. toSocks' \in Nat /\ toClient' \in Nat /\ leaked' \in BOOLEAN
  BY DEF RecvCallback, IInv, TypeOK
<1> DEFINE n == Len(seg.data)
           c == [k EXCEPT !.buf = @ \o seg.data]
           to(stage) == seg' = [seg EXCEPT !.at = stage]
<1>2. seg.data \in Seq(Nat) /\ n \in Nat /\ k.buf \in Seq(Nat) /\ Len(k.buf) \in Nat /\ k.rcv_wnd \in 0..TcpWnd
  BY <1>0, Counts, EmptyNat, Numbers
<1>3. /\ n = 0 => k' = k /\ to("fin")
      /\ n # 0 /\ "recv" \notin k.cb => k' = tcp_recved(k, n) /\ to("fin")
      /\ n # 0 /\ "recv" \in k.cb /\ n > TcpWnd - Len(k.buf) => k' = k /\ to("refused")
      /\ n # 0 /\ "recv" \in k.cb /\ ~(n > TcpWnd - Len(k.buf)) /\ k.buf = <<>> /\ k.socks_up
           => k' = client_send_to_socks(c) /\ to("recvSync")
      /\ n # 0 /\ "recv" \in k.cb /\ ~(n > TcpWnd - Len(k.buf)) /\ ~(k.buf = <<>> /\ k.socks_up)
           => k' = c /\ to("fin")
  BY DEF RecvCallback
<1>4. ASSUME NEW stage \in {"fin", "recvSync"}, to(stage)
      PROVE  /\ seg' \in Segment /\ seg'.at = stage /\ Acked(seg') = 0
             /\ Arrived(seg') \in Nat /\ Arrived(seg') + n = Arrived(seg)
  <2>1. stage \in Stage
    BY DEF Stage
  <2>2. /\ seg' \in Segment /\ seg'.at = stage /\ Acked(seg') = 0
        /\ Arrived(seg') + n = Arrived(seg)
    BY <1>0, <1>4, <2>1, NextStage
  <2> QED BY <2>2, Counts
<1> HIDE DEF to
<1>5. CASE n = 0
  <2>1. /\ k' = k /\ seg' \in Segment /\ seg'.at = "fin" /\ Acked(seg') = 0
        /\ Arrived(seg') \in Nat /\ Arrived(seg') + n = Arrived(seg)
    BY <1>3, <1>4, <1>5
  <2>2. Arrived(seg') = Arrived(seg)
    BY <1>5, <2>1
  <2> QED BY <1>0, <1>1, <2>1, <2>2, OnSegment
<1>6. CASE n # 0 /\ "recv" \notin k.cb
  <2> DEFINE x == tcp_recved(k, n)
             v == Min2(TcpWnd, k.rcv_wnd + n)
  <2>1. /\ k' = x /\ seg' \in Segment /\ seg'.at = "fin" /\ Acked(seg') = 0
    BY <1>3, <1>4, <1>6
  <2>2. v \in 0..TcpWnd
    BY <1>2 DEF Min2
  <2>3. x = [k EXCEPT !.rcv_wnd = v]
    BY <1>0 DEF tcp_recved, Connection
  <2> HIDE DEF v, x
  <2>4. x \in Connection /\ x.state = k.state /\ x.cb = k.cb /\ x.sndq = k.sndq
    BY <1>0, <2>2, <2>3 DEF Connection
  <2>5. SameClient(x, k)
    BY <1>0, <2>3 DEF Connection, SameClient
  <2>6. k.socks_closed
    BY <1>0, <1>6 DEF Good, PcbPart
  <2>7. Good(x, 0, Arrived(seg'))
    BY <1>0, <2>4, <2>5, <2>6, ClosedWindow
  <2>8. x.jobs = <<>> /\ Up(x) /\ Held(x)
    BY <1>0, <2>5 DEF SameClient, Up, Held
  <2> QED BY <1>1, <2>1, <2>4, <2>7, <2>8, OnSegment
<1>7. ~(n # 0 /\ "recv" \in k.cb /\ n > TcpWnd - Len(k.buf))
  <2>1. "recv" \in k.cb => k.rcv_wnd + Len(k.buf) + Arrived(seg) <= TcpWnd
    BY <1>0 DEF Good, PcbPart, SizePart
  <2>2. "fin" \in Stage
    BY DEF Stage
  <2> DEFINE t == [seg EXCEPT !.at = "fin"]
  <2>3. t \in Segment /\ Arrived(t) + n = Arrived(seg)
    BY <1>0, <2>2, NextStage
  <2>4. Arrived(t) \in Nat
    BY <2>3, Counts
  <2> HIDE DEF t, n
  <2>5. "recv" \in k.cb => k.rcv_wnd + Len(k.buf) + Arrived(t) + n <= TcpWnd
    BY <1>0, <1>2, <2>1, <2>3, <2>4
  <2> QED BY <1>2, <2>4, <2>5
<1>8. CASE n # 0 /\ "recv" \in k.cb /\ ~(n > TcpWnd - Len(k.buf))
  <2> DEFINE b == k.buf \o seg.data
  <2>1. b \in Seq(Nat) /\ Len(b) = Len(k.buf) + n
    BY <1>2, ConcatNat
  <2>2. c = [k EXCEPT !.buf = b]
    BY <1>0 DEF Connection
  <2> HIDE DEF b, c
  <2>3. c \in Connection /\ c.buf = b /\ c.state = k.state /\ c.cb = k.cb /\ c.sndq = k.sndq /\ c.rcv_wnd = k.rcv_wnd
    BY <1>0, <2>1, <2>2 DEF Connection
  <2>4. /\ c.live = k.live /\ c.client_closed = k.client_closed /\ c.jobs = k.jobs /\ c.wait = k.wait
        /\ c.rbuf = k.rbuf /\ c.sending = k.sending /\ c.pending = k.pending
        /\ c.socks_up = k.socks_up /\ c.socks_closed = k.socks_closed /\ c.conn = k.conn
    BY <1>0, <2>2 DEF Connection
  <2>5. Up(c) /\ Held(c) /\ (Flowing(c) <=> Flowing(k)) /\ ~k.socks_closed
    BY <1>0, <1>8, <2>4 DEF Up, Held, Flowing, Good, PcbPart
  <2>6. PcbPart(c) /\ WaitPart(c)
    <3>1. PcbPart(c)
      BY <1>0, <2>3, <2>4, <2>5 DEF Good, PcbPart, Opened
    <3>2. WaitPart(c)
      BY <1>0, <2>4, <2>5 DEF Good, WaitPart, Queued, Up
    <3> QED BY <3>1, <3>2
  <2>7. SocksPart(c)
    BY <1>0, <2>4 DEF Good, SocksPart
  <2>8. \A e \in Nat : e + n = Arrived(seg) => SizePart(c, 0, e)
    <3> SUFFICES ASSUME NEW e \in Nat, e + n = Arrived(seg) PROVE SizePart(c, 0, e)
      OBVIOUS
    <3>1. k.rcv_wnd + Len(k.buf) + Arrived(seg) <= TcpWnd
      BY <1>0, <2>5 DEF Good, SizePart
    <3> HIDE DEF n
    <3>2. k.rcv_wnd + (Len(k.buf) + n) + e <= TcpWnd
      BY <1>2, <3>1
    <3> QED BY <1>0, <2>1, <2>3, <2>4, <2>5, <3>2 DEF Good, SizePart
  <2>9. \A j : ~Queued(c, j) /\ ~Queued(k, j)
    BY <1>0, <2>4, EmptyQueue DEF Queued
  <2>10. Len(b) \in Nat /\ Len(b) > 0 /\ Len(k.buf) <= Len(b)
    <3>1. n \in Nat \ {0} /\ Len(k.buf) \in Nat /\ Len(b) = Len(k.buf) + n
      BY <1>2, <1>8, <2>1
    <3> HIDE DEF n
    <3> QED BY <3>1
  <2>11. k.sending \in Nat /\ k.sending <= Len(k.buf)
    BY <1>0, Numbers DEF Good, WorkPart
  <2>12. CASE k.buf = <<>> /\ k.socks_up
    <3> DEFINE y == client_send_to_socks(c)
    <3>1. /\ k' = y /\ seg' \in Segment /\ seg'.at = "recvSync" /\ Acked(seg') = 0
          /\ Arrived(seg') \in Nat /\ Arrived(seg') + n = Arrived(seg)
      BY <1>3, <1>4, <1>8, <2>12 DEF c
    <3>2. /\ y \in Connection /\ y = [c EXCEPT !.jobs = y.jobs, !.sending = Len(c.buf)]
          /\ Once(y.jobs) /\ \A j : Queued(y, j) <=> j = "send" \/ Queued(c, j)
      BY ZenonT(60), <1>0, <2>3, <2>4, <2>9, EmptyQueue, SendToSocksProperties
    <3> HIDE DEF y
    <3>3. /\ y.sending = Len(b) /\ y.buf = b /\ y.state = c.state /\ y.cb = c.cb /\ y.sndq = c.sndq
          /\ y.rcv_wnd = c.rcv_wnd /\ y.live = c.live /\ y.client_closed = c.client_closed
      BY <2>3, <3>2 DEF Connection
    <3>4. /\ y.wait = c.wait /\ y.rbuf = c.rbuf /\ y.pending = c.pending
          /\ y.socks_up = c.socks_up /\ y.socks_closed = c.socks_closed /\ y.conn = c.conn
      BY <2>3, <3>2 DEF Connection
    <3>5. Up(y) /\ Held(y)
      BY <2>5, <3>3 DEF Up, Held
    <3>6. PcbPart(y) /\ SizePart(y, 0, Arrived(seg'))
      BY <2>3, <2>5, <2>6, <2>8, <3>1, <3>3, <3>4, <3>5 DEF PcbPart, SizePart
    <3>7. SocksPart(y)
      BY <2>4, <2>5, <2>7, <2>12, <3>3, <3>4 DEF SocksPart, Up
    <3>8. WorkPart(y)
      <4>1. ~("write" \in y.wait)
        <5>1. Len(k.buf) = 0
          BY <2>12, EmptyNat
        <5>2. k.sending = 0
          BY <2>11, <5>1
        <5> QED BY <1>0, <2>4, <3>4, <5>2 DEF Good, WorkPart
      <4> QED BY <2>9, <2>10, <3>2, <3>3, <4>1 DEF WorkPart
    <3>9. WaitPart(y)
      BY <2>5, <2>6, <3>2, <3>3, <3>4, <3>5 DEF WaitPart, Flowing, Up
    <3>10. Good(y, 0, Arrived(seg'))
      BY <3>6, <3>7, <3>8, <3>9 DEF Good
    <3> QED BY <1>1, <3>1, <3>2, <3>5, <3>10, OnSegment
  <2>13. CASE ~(k.buf = <<>> /\ k.socks_up)
    <3>1. /\ k' = c /\ seg' \in Segment /\ seg'.at = "fin" /\ Acked(seg') = 0
          /\ Arrived(seg') \in Nat /\ Arrived(seg') + n = Arrived(seg)
      BY <1>3, <1>4, <1>8, <2>13 DEF c
    <3>2. WorkPart(c)
      <4>1. c.sending <= Len(c.buf)
        BY <1>2, <2>3, <2>4, <2>10, <2>11
      <4>2. Flowing(k) => k.buf # <<>>
        BY <2>13 DEF Flowing
      <4> QED BY <1>0, <2>4, <2>5, <4>1, <4>2 DEF Good, WorkPart, Queued
    <3>3. Good(c, 0, Arrived(seg'))
      BY <2>6, <2>7, <2>8, <3>1, <3>2 DEF Good
    <3> QED BY <1>0, <1>1, <2>3, <2>4, <2>5, <3>1, <3>3, OnSegment
  <2> QED BY <2>12, <2>13
<1> QED BY <1>5, <1>6, <1>7, <1>8

LEMMA FinCallbackStep ==
    ASSUME IInv, NEW mem \in BOOLEAN, FinCallback(mem)
    PROVE  IInv'
<1>0. /\ seg.at = "fin" /\ k \in Connection /\ seg \in Segment /\ k.jobs = <<>> /\ Up(k) /\ Held(k)
      /\ Good(k, 0, Arrived(seg)) /\ Arrived(seg) \in Nat /\ Present(k)
  BY StageFacts DEF FinCallback, Acked
<1>1. toSocks' \in Nat /\ toClient' \in Nat /\ leaked' \in BOOLEAN /\ seg' = NoSegment
  BY DEF FinCallback, IInv, TypeOK
<1> DEFINE v == Min2(TcpWnd, k.rcv_wnd + 1)
           c == [k EXCEPT !.rcv_wnd = v]
<1>2. k' = IF ~seg.fin THEN k ELSE IF "recv" \in k.cb THEN client_free_client(c, mem) ELSE c
  BY <1>0 DEF FinCallback, Connection
<1>3. v \in 0..TcpWnd
  <2>1. k.rcv_wnd \in 0..TcpWnd
    BY <1>0, Numbers
  <2> QED BY <2>1 DEF Min2
<1> HIDE DEF v
<1>4. c \in Connection /\ c.state = k.state /\ c.cb = k.cb /\ c.sndq = k.sndq
  BY <1>0, <1>3 DEF Connection
<1>5. SameClient(c, k)
  BY <1>0 DEF Connection, SameClient
<1> HIDE DEF c
<1>6. k' \in Connection /\ Good(k', 0, 0) /\ Held(k')
  <2>1. CASE ~seg.fin
    <3>1. Arrived(seg) = 0
      BY <1>0, <2>1 DEF Arrived
    <3> QED BY <1>0, <1>2, <2>1, <3>1
  <2>2. CASE seg.fin /\ "recv" \in k.cb
    <3>1. Present(c)
      BY <1>0, <1>4, <1>5, SameClientParts DEF Present, SameClient
    <3>2. Closed(k')
      BY <1>2, <2>2, <3>1, FreeClientCloses
    <3> QED BY <3>2 DEF Closed, Sound
  <2>3. CASE seg.fin /\ "recv" \notin k.cb
    <3>1. k.socks_closed
      BY <1>0, <2>3 DEF Good, PcbPart
    <3> QED BY <1>0, <1>2, <1>4, <1>5, <2>3, <3>1, ClosedWindow DEF SameClient, Held
  <2> QED BY <2>1, <2>2, <2>3
<1> QED BY <1>1, <1>6, NoSegmentCounts, OnSegment

LEMMA StutterStep == IInv /\ UNCHANGED vars => IInv'
<1> SUFFICES ASSUME IInv, UNCHANGED vars PROVE IInv'
  OBVIOUS
<1>1. k' = k /\ seg' = seg /\ TypeOK'
  BY DEF vars, IInv, TypeOK
<1>2. Good(k', Acked(seg'), Arrived(seg')) /\ SegmentPart(k', seg')
  BY <1>1 DEF IInv
<1> QED BY <1>1, <1>2 DEF IInv

LEMMA NextIInv == IInv /\ [Next]_vars => IInv'
<1> SUFFICES ASSUME IInv, [Next]_vars PROVE IInv'
  OBVIOUS
<1>1. CASE Accept
  BY <1>1, AcceptStep
<1>2. CASE AcceptFails \/ PcbKilled \/ TimeWaitExpires
  BY <1>2, PcbGoneStep
<1>3. CASE Input
  BY <1>3, OpenInputStep, ClosingInputStep DEF Input
<1>4. CASE Callback
  BY <1>4, SentCallbackStep, RecvCallbackStep, FinCallbackStep, SyncEndStep DEF Callback
<1>5. CASE HandshakeDone \/ \E mem \in BOOLEAN : HandshakeError(mem)
  BY <1>5, HandshakeDoneStep, HandshakeErrorStep
<1>6. CASE \E events \in SUBSET {"write", "read"} : FdReady(events)
  BY <1>6, FdReadyStep
<1>7. CASE WouldBlock \/ Progress
  BY <1>7, WouldBlockStep, SentStep, ReceivedStep, SocketErrorStep DEF Progress
<1>8. CASE \E mem \in BOOLEAN : IdleError(mem)
  BY <1>8, IdleErrorStep
<1>9. CASE Terminate
  BY <1>9, TerminateStep
<1>10. CASE UNCHANGED vars
  BY <1>10, StutterStep
<1> QED BY <1>1, <1>2, <1>3, <1>4, <1>5, <1>6, <1>7, <1>8, <1>9, <1>10 DEF Next

-----------------------------------------------------------------------------
(* The theorems *)

\* IInv holds in every reachable state.
THEOREM Inductive == Spec => []IInv
<1>1. Init => IInv
  BY InitIInv
<1>2. IInv /\ [Next]_vars => IInv'
  BY NextIInv
<1> QED BY <1>1, <1>2, PTL DEF Spec

\* TypeOK: every connection stays within its record, whichever handlers nest.
THEOREM TcpTypeCorrect == Spec => []TypeOK
<1>1. IInv => TypeOK
  BY DEF IInv
<1> QED BY <1>1, Inductive, PTL

\* PcbIsValid: client_sent_func, client_recv_func and the SOCKS handlers touch
\* the pcb only while it is open, and no callback of a closed client remains.
THEOREM PcbStaysValid == Spec => []PcbIsValid
<1>1. IInv => PcbIsValid
  <2> SUFFICES ASSUME IInv PROVE PcbIsValid
    OBVIOUS
  <2>1. PcbPart(k) /\ (Up(k) <=> ClientOpen)
    BY DEF IInv, Good, Up, ClientOpen
  <2>2. ClientOpen => k.state \in {"ESTABLISHED", "CLOSE_WAIT"}
    BY <2>1 DEF PcbPart, Opened
  <2>3. k.cb # {} <=> ClientOpen
    BY <2>1 DEF PcbPart
  <2>4. ClientOpen \in BOOLEAN
    BY DEF ClientOpen
  <2> QED BY <2>2, <2>3, <2>4 DEF PcbIsValid
<1> QED BY <1>1, Inductive, PTL

\* NeverRefused: the window lwIP offers never exceeds the room in client->buf, so
\* client_recv_func never reports "no buffer for data !?!".
THEOREM WindowFitsBuffer == Spec => []NeverRefused
<1>1. IInv => NeverRefused
  BY DEF IInv, SegmentPart, NeverRefused
<1> QED BY <1>1, Inductive, PTL

\* PendingIsQueued: socks_recv_tcp_pending counts what lwIP holds.
THEOREM PendingCounts == Spec => []PendingIsQueued
<1>1. IInv => PendingIsQueued
  <2> SUFFICES ASSUME IInv, ClientOpen
               PROVE  k.pending = Len(k.sndq) + (IF seg.at = "sent" THEN seg.acked ELSE 0)
    BY DEF PendingIsQueued
  <2>1. Up(k) /\ SizePart(k, Acked(seg), Arrived(seg))
    BY DEF IInv, Good, Up, ClientOpen
  <2> QED BY <2>1 DEF SizePart, Acked
<1> QED BY <1>1, Inductive, PTL

\* NoLostWakeup: neither direction of a connection sleeps with work left.
THEOREM WakeupsAreKept == Spec => []NoLostWakeup
<1>1. IInv => NoLostWakeup
  <2> SUFFICES ASSUME IInv, k.live, k.socks_up, ~k.socks_closed
               PROVE  /\ k.buf # <<>> => k.sending > 0 /\ ("write" \in k.wait \/ In(k.jobs, "send"))
                      /\ ~k.client_closed =>
                            IF k.rbuf = <<>> THEN "read" \in k.wait \/ In(k.jobs, "recv")
                            ELSE k.pending > 0
    BY DEF NoLostWakeup, In
  <2> QED BY DEF IInv, Good, WorkPart, WaitPart, Flowing, Up, Queued
<1> QED BY <1>1, Inductive, PTL

\* WaitsForSomething: a client left after its SOCKS connection closed is still
\* owed an acknowledgement and has the callback that hears of it.
THEOREM WaitsAreJustified == Spec => []WaitsForSomething
<1>1. IInv => WaitsForSomething
  <2> SUFFICES ASSUME IInv, ClientOpen, k.socks_closed
               PROVE  k.pending > 0 /\ "sent" \in k.cb
    BY DEF WaitsForSomething
  <2> QED BY DEF IInv, Good, PcbPart, WaitPart, Up, ClientOpen
<1> QED BY <1>1, Inductive, PTL
=============================================================================
