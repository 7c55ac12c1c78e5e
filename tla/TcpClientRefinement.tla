------------------------- MODULE TcpClientRefinement -------------------------
(***************************************************************************)
(* Proof that TcpClient implements ByteRelay: the two byte streams of a    *)
(* connection pass through tun2socks in order, without gaps and without    *)
(* repetition, and the end of file follows the last byte.                  *)
(***************************************************************************)
EXTENDS TcpClientProofs

-----------------------------------------------------------------------------
(* What the buffers hold *)

\* s holds consecutive bytes of a stream, beginning after byte a.
IsRun(s, a) == s = Run(a, Len(s))

\* The bytes of segment s that client->buf has not taken.
InSeg(s) == IF s.at \in {"sent", "sentSync", "recv"} THEN s.data ELSE <<>>

\* The number of bytes of either stream that the relay holds.
UpLen(c, s) == IF c.socks_closed THEN 0 ELSE Len(c.buf) + Len(InSeg(s))
DownLen(c) == IF c.client_closed THEN Len(c.sndq) ELSE Len(c.sndq) + Len(c.rbuf)

\* Towards SOCKS, where ts bytes were written: what is held follows them, and
\* reaches up to the last byte received while the client is open.
UpHeld(c, s, ts) ==
    /\ ts <= c.rcvd
    /\ ~c.socks_closed =>
          /\ IsRun(c.buf, ts) /\ IsRun(InSeg(s), ts + Len(c.buf))
          /\ ts + Len(c.buf) + Len(InSeg(s)) <= c.rcvd
          /\ Up(c) \/ c.state = "SYN_RCVD" => ts + Len(c.buf) + Len(InSeg(s)) = c.rcvd

\* Towards the application, which acknowledged tc bytes.
DownHeld(c, tc) ==
    /\ IsRun(c.sndq, tc) /\ tc + Len(c.sndq) <= c.read
    /\ ~c.client_closed =>
          /\ IsRun(c.rbuf, tc + Len(c.sndq))
          /\ tc + Len(c.sndq) + Len(c.rbuf) = c.read

\* The end of the streams: a FIN of ours is queued only when both sides of the
\* structure are closed, and a pcb that is closed has a closed client.
EndHeld(c, s) ==
    /\ c.finq => c.client_closed /\ c.socks_closed
    /\ s.fin => c.peerFin
    /\ ~c.client_closed => Up(c) \/ c.state \in {"SYN_RCVD", "FREED"}

Relays(c, s, ts, tc) == UpHeld(c, s, ts) /\ DownHeld(c, tc) /\ EndHeld(c, s)

RInv == IInv /\ Relays(k, seg, toSocks, toClient)

\* What a step of the connection does to the lengths: the byte counts only
\* grow, by no more than was held, and a forgotten tail stays forgotten.
UpStep(c, s, ts, r, t, us) ==
    /\ us \in ts .. ts + UpLen(c, s)
    /\ r.rcvd >= c.rcvd
    /\ ts + UpLen(c, s) < c.rcvd => us + UpLen(r, t) <= ts + UpLen(c, s)

DownStep(c, tc, r, uc) ==
    /\ uc \in tc .. tc + DownLen(c)
    /\ r.read >= c.read
    /\ tc + DownLen(c) < c.read => uc + DownLen(r) <= tc + DownLen(c)

EndStep(c, r, uc) ==
    /\ c.peerFin => r.peerFin
    /\ c.finq => r.finq /\ r.read = c.read
    /\ r.finq /\ ~c.finq => uc + DownLen(r) = r.read \/ r.peerFin

RStep(c, s, ts, tc, r, t, us, uc) ==
    UpStep(c, s, ts, r, t, us) /\ DownStep(c, tc, r, uc) /\ EndStep(c, r, uc)

-----------------------------------------------------------------------------
(* Runs of bytes *)

LEMMA RunElements ==
    ASSUME NEW s \in Seq(Nat), NEW a \in Nat
    PROVE  IsRun(s, a) <=> \A i \in 1..Len(s) : s[i] = a + i
<1>1. Len(s) \in Nat
  BY EmptyNat
<1>2. IsRun(s, a) => \A i \in 1..Len(s) : s[i] = a + i
  BY <1>1 DEF IsRun, Run
<1>3. ASSUME \A i \in 1..Len(s) : s[i] = a + i PROVE IsRun(s, a)
  <2>1. Run(a, Len(s)) \in Seq(Nat) /\ Len(Run(a, Len(s))) = Len(s)
    BY <1>1, RunProperties
  <2>2. \A i \in 1..Len(s) : s[i] = Run(a, Len(s))[i]
    BY <1>3 DEF Run
  <2> QED BY <2>1, <2>2, SeqEqual DEF IsRun
<1> QED BY <1>2, <1>3

LEMMA EmptyRun ==
    ASSUME NEW a \in Nat
    PROVE  IsRun(<<>>, a)
<1>1. <<>> \in Seq(Nat) /\ \A i \in 1..Len(<<>>) : <<>>[i] = a + i
  BY EmptyNat
<1> QED BY <1>1, RunElements

LEMMA NewRun ==
    ASSUME NEW a \in Nat, NEW n \in Nat
    PROVE  IsRun(Run(a, n), a)
BY RunProperties DEF IsRun

LEMMA ConcatElements ==
    ASSUME NEW s \in Seq(Nat), NEW t \in Seq(Nat)
    PROVE  /\ s \o t \in Seq(Nat) /\ Len(s \o t) = Len(s) + Len(t)
           /\ \A i \in 1 .. Len(s) + Len(t) : (s \o t)[i] = IF i <= Len(s) THEN s[i] ELSE t[i - Len(s)]
BY ConcatProperties

LEMMA JoinRuns ==
    ASSUME NEW s \in Seq(Nat), NEW t \in Seq(Nat), NEW a \in Nat
    PROVE  IsRun(s \o t, a) <=> IsRun(s, a) /\ IsRun(t, a + Len(s))
<1>1. Len(s) \in Nat /\ Len(t) \in Nat
  BY EmptyNat
<1> DEFINE u == s \o t
           m == Len(s)
           n == Len(t)
<1>2. /\ u \in Seq(Nat) /\ Len(u) = m + n
      /\ \A i \in 1 .. m + n : u[i] = IF i <= m THEN s[i] ELSE t[i - m]
  BY ConcatElements
<1>3. m \in Nat /\ n \in Nat /\ a + m \in Nat
  BY <1>1
<1>4. /\ IsRun(u, a) <=> \A i \in 1 .. m + n : u[i] = a + i
      /\ IsRun(s, a) <=> \A i \in 1..m : s[i] = a + i
      /\ IsRun(t, a + m) <=> \A i \in 1..n : t[i] = a + m + i
  BY ZenonT(60), <1>2, <1>3, RunElements
<1> HIDE DEF u, m, n
<1>5. ASSUME \A i \in 1 .. m + n : u[i] = a + i
      PROVE  (\A i \in 1..m : s[i] = a + i) /\ (\A i \in 1..n : t[i] = a + m + i)
  <2>1. ASSUME NEW i \in 1..m PROVE s[i] = a + i
    <3>1. i \in 1 .. m + n /\ i <= m
      BY <1>3
    <3> QED BY <1>2, <1>5, <3>1
  <2>2. ASSUME NEW i \in 1..n PROVE t[i] = a + m + i
    <3>1. m + i \in 1 .. m + n /\ ~(m + i <= m) /\ (m + i) - m = i
      BY <1>3
    <3>2. u[m + i] = t[i] /\ u[m + i] = a + (m + i)
      BY <1>2, <1>5, <3>1
    <3> QED BY <1>3, <3>2
  <2> QED BY <2>1, <2>2
<1>6. ASSUME \A i \in 1..m : s[i] = a + i, \A i \in 1..n : t[i] = a + m + i
      PROVE  \A i \in 1 .. m + n : u[i] = a + i
  <2> SUFFICES ASSUME NEW i \in 1 .. m + n PROVE u[i] = a + i
    OBVIOUS
  <2>1. CASE i <= m
    <3>1. i \in 1..m
      BY <1>3, <2>1
    <3>2. u[i] = s[i] /\ s[i] = a + i
      BY <1>2, <1>6, <2>1, <3>1
    <3> QED BY <3>2
  <2>2. CASE ~(i <= m)
    <3>1. i - m \in 1..n
      BY <1>3, <2>2
    <3>2. u[i] = t[i - m] /\ t[i - m] = a + m + (i - m)
      BY <1>2, <1>6, <2>2, <3>1
    <3> QED BY <1>3, <3>2
  <2> QED BY <2>1, <2>2
<1>7. IsRun(u, a) <=> IsRun(s, a) /\ IsRun(t, a + m)
  BY <1>4, <1>5, <1>6
<1> QED BY <1>7 DEF u, m

\* The two parts a sequence is cut into.
LEMMA CutSeq ==
    ASSUME NEW s \in Seq(Nat), NEW n \in 0..Len(s)
    PROVE  s = SubSeq(s, 1, n) \o Drop(s, n)
<1>1. Len(s) \in Nat /\ \A i \in 1..Len(s) : s[i] \in Nat
  BY LenProperties
<1> DEFINE p == SubSeq(s, 1, n)
           q == Drop(s, n)
<1>2. /\ p \in Seq(Nat) /\ Len(p) = n /\ \A i \in 1..n : p[i] = s[i]
  <2>1. \A i \in 1..n : s[i] \in Nat
    BY <1>1
  <2>2. \A i \in 1 .. n - 1 + 1 : SubSeq(s, 1, n)[i] = s[1 + i - 1]
    BY <2>1, SubSeqProperties
  <2> QED BY <1>1, <2>2, DropProperties
<1>3. /\ q \in Seq(Nat) /\ Len(q) = Len(s) - n /\ \A i \in 1 .. Len(s) - n : q[i] = s[n + i]
  <2>1. \A i \in n + 1 .. Len(s) : s[i] \in Nat
    BY <1>1
  <2>2. \A i \in 1 .. Len(s) - (n + 1) + 1 : q[i] = s[(n + 1) + i - 1]
    BY <1>1, <2>1, SubSeqProperties DEF Drop
  <2> QED BY <1>1, <2>2, DropProperties
<1> HIDE DEF p, q
<1>4. /\ p \o q \in Seq(Nat) /\ Len(p \o q) = n + (Len(s) - n)
      /\ \A i \in 1 .. n + (Len(s) - n) : (p \o q)[i] = IF i <= n THEN p[i] ELSE q[i - n]
  <2>1. /\ p \o q \in Seq(Nat) /\ Len(p \o q) = Len(p) + Len(q)
        /\ \A i \in 1 .. Len(p) + Len(q) : (p \o q)[i] = IF i <= Len(p) THEN p[i] ELSE q[i - Len(p)]
    BY <1>2, <1>3, ConcatElements
  <2>2. Len(p) = n /\ Len(q) = Len(s) - n
    BY <1>2, <1>3
  <2> QED BY <2>1, <2>2
<1>5. Len(p \o q) = Len(s)
  BY <1>1, <1>4
<1>6. ASSUME NEW i \in 1..Len(s) PROVE s[i] = (p \o q)[i]
  <2>1. CASE i <= n
    BY <1>1, <1>2, <1>4, <2>1
  <2>2. CASE ~(i <= n)
    <3>1. i - n \in 1 .. Len(s) - n /\ n + (i - n) = i
      BY <1>1, <2>2
    <3>2. i \in 1 .. n + (Len(s) - n)
      BY <1>1
    <3>3. (p \o q)[i] = q[i - n]
      BY <1>4, <2>2, <3>2
    <3>4. q[i - n] = s[n + (i - n)]
      BY <1>3, <3>1
    <3> QED BY <3>1, <3>3, <3>4
  <2> QED BY <2>1, <2>2
<1>7. s = p \o q
  BY <1>4, <1>5, <1>6, SeqEqual
<1> QED BY <1>7 DEF p, q

LEMMA CutRun ==
    ASSUME NEW s \in Seq(Nat), NEW n \in 0..Len(s), NEW a \in Nat, IsRun(s, a)
    PROVE  IsRun(SubSeq(s, 1, n), a) /\ IsRun(Drop(s, n), a + n)
<1>1. /\ SubSeq(s, 1, n) \in Seq(Nat) /\ Drop(s, n) \in Seq(Nat) /\ Len(SubSeq(s, 1, n)) = n
  BY DropProperties
<1>2. IsRun(SubSeq(s, 1, n) \o Drop(s, n), a)
  BY CutSeq
<1> QED BY <1>1, <1>2, JoinRuns

-----------------------------------------------------------------------------
(* Streams that stay as they are, or lose a tail *)

\* Facts about numbers, for lengths of sequences.
LEMMA Sums ==
    \A x, y \in Nat : x + y \in Nat /\ x <= x + y
OBVIOUS

LEMMA StreamNumbers ==
    ASSUME NEW c \in Connection, NEW s \in Segment
    PROVE  /\ c.rcvd \in Nat /\ c.read \in Nat /\ Len(c.buf) \in Nat /\ Len(c.sndq) \in Nat
           /\ Len(c.rbuf) \in Nat /\ InSeg(s) \in Seq(Nat) /\ Len(InSeg(s)) \in Nat
           /\ c.buf \in Seq(Nat) /\ c.sndq \in Seq(Nat) /\ c.rbuf \in Seq(Nat)
           /\ UpLen(c, s) \in Nat /\ DownLen(c) \in Nat
<1>1. /\ c.rcvd \in Nat /\ c.read \in Nat
  BY DEF Connection
<1>2. /\ Len(c.buf) \in Nat /\ Len(c.sndq) \in Nat /\ Len(c.rbuf) \in Nat
      /\ c.buf \in Seq(Nat) /\ c.sndq \in Seq(Nat) /\ c.rbuf \in Seq(Nat)
  BY Numbers
<1>3. InSeg(s) \in Seq(Nat)
  BY Counts, EmptyNat DEF InSeg
<1>4. Len(InSeg(s)) \in Nat
  BY <1>3, EmptyNat
<1>5. UpLen(c, s) \in Nat /\ DownLen(c) \in Nat
  <2>1. Len(c.buf) + Len(InSeg(s)) \in Nat /\ Len(c.sndq) + Len(c.rbuf) \in Nat
    BY <1>2, <1>4, Sums
  <2> QED BY <1>2, <2>1 DEF UpLen, DownLen
<1> QED BY <1>1, <1>2, <1>3, <1>4, <1>5

LEMMA UpKept ==
    ASSUME NEW c \in Connection, NEW r \in Connection, NEW s \in Segment, NEW t \in Segment, NEW ts \in Nat,
           UpHeld(c, s, ts), r.rcvd = c.rcvd,
           ~r.socks_closed => ~c.socks_closed /\ r.buf = c.buf /\ InSeg(t) \in {InSeg(s), <<>>},
           ~r.socks_closed /\ (Up(r) \/ r.state = "SYN_RCVD")
              => (Up(c) \/ c.state = "SYN_RCVD") /\ InSeg(t) = InSeg(s)
    PROVE  UpHeld(r, t, ts) /\ UpStep(c, s, ts, r, t, ts)
<1>1. /\ c.rcvd \in Nat /\ Len(c.buf) \in Nat /\ Len(InSeg(s)) \in Nat /\ Len(InSeg(t)) \in Nat
      /\ UpLen(c, s) \in Nat /\ UpLen(r, t) \in Nat
  BY StreamNumbers
<1>2. CASE r.socks_closed
  <2>1. UpHeld(r, t, ts)
    BY <1>2 DEF UpHeld
  <2>2. UpLen(r, t) = 0
    BY <1>2 DEF UpLen
  <2> QED BY <1>1, <2>1, <2>2 DEF UpStep
<1>3. CASE ~r.socks_closed
  <2>1. /\ IsRun(c.buf, ts) /\ IsRun(InSeg(s), ts + Len(c.buf))
        /\ ts + Len(c.buf) + Len(InSeg(s)) <= c.rcvd /\ r.buf = c.buf
        /\ InSeg(t) \in {InSeg(s), <<>>}
        /\ Up(c) \/ c.state = "SYN_RCVD" => ts + Len(c.buf) + Len(InSeg(s)) = c.rcvd
    BY <1>3 DEF UpHeld
  <2>2. IsRun(InSeg(t), ts + Len(c.buf))
    BY <1>1, <2>1, EmptyRun
  <2>3. Len(InSeg(t)) <= Len(InSeg(s))
    BY <1>1, <2>1, EmptyNat
  <2>4. ts + Len(c.buf) + Len(InSeg(t)) <= c.rcvd
    BY <1>1, <2>1, <2>3
  <2>5. UpHeld(r, t, ts)
    BY <1>3, <2>1, <2>2, <2>4 DEF UpHeld
  <2>6. UpLen(r, t) <= UpLen(c, s)
    BY <1>1, <1>3, <2>1, <2>3 DEF UpLen
  <2> QED BY <1>1, <2>5, <2>6 DEF UpStep
<1> QED BY <1>2, <1>3

LEMMA DownKept ==
    ASSUME NEW c \in Connection, NEW r \in Connection, NEW tc \in Nat,
           DownHeld(c, tc), r.read = c.read,
           r.sndq = c.sndq \/ (r.sndq = <<>> /\ r.client_closed),
           ~r.client_closed => ~c.client_closed /\ r.rbuf = c.rbuf
    PROVE  DownHeld(r, tc) /\ DownStep(c, tc, r, tc)
<1>1. /\ c.read \in Nat /\ Len(c.sndq) \in Nat /\ Len(c.rbuf) \in Nat /\ Len(r.sndq) \in Nat
      /\ Len(r.rbuf) \in Nat /\ DownLen(c) \in Nat /\ DownLen(r) \in Nat
  BY Numbers, NoSegmentCounts, StreamNumbers
<1>2. IsRun(r.sndq, tc) /\ Len(r.sndq) <= Len(c.sndq)
  BY SMTT(60), <1>1, EmptyRun, EmptyNat DEF DownHeld
<1>3. tc + Len(r.sndq) <= r.read
  BY SMTT(60), <1>1, <1>2 DEF DownHeld
<1>4. DownHeld(r, tc)
  BY <1>2, <1>3 DEF DownHeld
<1>5. DownLen(r) <= DownLen(c)
  <2> DEFINE x == Len(c.sndq)
             y == Len(c.rbuf)
             z == Len(r.sndq)
  <2>1. /\ x \in Nat /\ y \in Nat /\ z \in Nat /\ z <= x
        /\ r.client_closed => DownLen(r) = z /\ DownLen(c) \in {x, x + y}
        /\ ~r.client_closed => DownLen(r) = x + y /\ DownLen(c) = x + y
    BY <1>1, <1>2 DEF DownLen
  <2> HIDE DEF x, y, z
  <2> QED BY <2>1
<1> QED BY <1>1, <1>4, <1>5 DEF DownStep

\* r has the fields of c that the streams are made of.
Alike(r, c) ==
    /\ r.rcvd = c.rcvd /\ r.read = c.read /\ r.peerFin = c.peerFin /\ r.finq = c.finq
    /\ r.buf = c.buf /\ r.rbuf = c.rbuf /\ r.sndq = c.sndq
    /\ r.socks_closed = c.socks_closed /\ r.client_closed = c.client_closed
    /\ r.live = c.live /\ r.state = c.state

LEMMA AlikeRelays ==
    ASSUME NEW c \in Connection, NEW r \in Connection, NEW s \in Segment, NEW t \in Segment,
           NEW ts \in Nat, NEW tc \in Nat, Relays(c, s, ts, tc), Alike(r, c),
           InSeg(t) = InSeg(s), t.fin => s.fin
    PROVE  Relays(r, t, ts, tc) /\ RStep(c, s, ts, tc, r, t, ts, tc)
<1>1. UpHeld(r, t, ts) /\ UpStep(c, s, ts, r, t, ts)
  BY UpKept DEF Alike, Relays, Up
<1>2. DownHeld(r, tc) /\ DownStep(c, tc, r, tc)
  BY DownKept DEF Alike, Relays
<1>3. EndHeld(r, t) /\ EndStep(c, r, tc)
  BY DEF EndHeld, EndStep, Alike, Relays, Up
<1> QED BY <1>1, <1>2, <1>3 DEF Relays, RStep

\* The handlers that close the client side keep the streams and forget a tail.
Closing(c, r) ==
    /\ r.client_closed
    /\ r.rcvd = c.rcvd /\ r.read = c.read /\ r.peerFin = c.peerFin
    /\ r.buf = c.buf /\ r.rbuf = c.rbuf /\ r.sndq \in {c.sndq, <<>>}
    /\ c.socks_closed => r.socks_closed
    /\ c.finq => r.finq
    /\ r.finq => r.socks_closed

\* Nothing is left for the application.
Drained(c) == ~c.client_closed /\ Len(c.sndq) = 0 /\ Len(c.rbuf) = 0

LEMMA ClosingRelays ==
    ASSUME NEW c \in Connection, NEW r \in Connection, NEW s \in Segment, NEW t \in Segment,
           NEW ts \in Nat, NEW tc \in Nat, Relays(c, s, ts, tc), Closing(c, r), r.state # "SYN_RCVD",
           InSeg(t) \in {InSeg(s), <<>>}, t.fin => s.fin,
           r.finq => c.finq \/ c.peerFin \/ Drained(c)
    PROVE  Relays(r, t, ts, tc) /\ RStep(c, s, ts, tc, r, t, ts, tc)
<1>1. UpHeld(r, t, ts) /\ UpStep(c, s, ts, r, t, ts)
  <2>1. ~Up(r)
    BY DEF Closing, Up
  <2> QED BY <2>1, UpKept DEF Closing, Relays
<1>2. DownHeld(r, tc) /\ DownStep(c, tc, r, tc)
  BY DownKept DEF Closing, Relays
<1>3. EndHeld(r, t)
  BY DEF EndHeld, Closing, Relays
<1>4. EndStep(c, r, tc)
  <2>1. Drained(c) => tc + DownLen(r) = r.read
    <3> SUFFICES ASSUME Drained(c) PROVE tc + DownLen(r) = r.read
      OBVIOUS
    <3>1. c.read \in Nat /\ tc + Len(c.sndq) + Len(c.rbuf) = c.read
      BY Numbers DEF Relays, DownHeld, Drained
    <3>2. DownLen(r) = 0
      BY EmptyNat DEF Drained, Closing, DownLen
    <3> QED BY <3>1, <3>2 DEF Drained, Closing
  <2> QED BY <2>1 DEF EndStep, Closing
<1> QED BY <1>1, <1>2, <1>3, <1>4 DEF Relays, RStep

-----------------------------------------------------------------------------
(* What the handlers do to the streams *)

\* r and c hold the same bytes and ends.
Same(r, c) ==
    /\ r.rcvd = c.rcvd /\ r.read = c.read /\ r.peerFin = c.peerFin /\ r.finq = c.finq
    /\ r.buf = c.buf /\ r.rbuf = c.rbuf

LEMMA HandleFreedStreams ==
    ASSUME NEW c \in Connection
    PROVE  LET r == client_handle_freed_client(c)
           IN  /\ r.client_closed /\ Same(r, c) /\ r.sndq = c.sndq
               /\ c.socks_closed \/ c.buf = <<>> => r.socks_closed
<1> DEFINE closed == [c EXCEPT !.client_closed = TRUE]
           freed == client_dealloc(CloseSocks(closed))
           r == client_handle_freed_client(c)
<1>1. /\ closed \in Connection /\ closed.client_closed /\ closed.sndq = c.sndq
      /\ closed.socks_closed = c.socks_closed /\ Same(closed, c)
  BY DEF Connection, Same
<1>2. \/ r = closed /\ c.buf # <<>> /\ ~c.socks_closed
      \/ r = freed
      \/ r = client_dealloc(closed) /\ c.socks_closed
  BY <1>1 DEF client_handle_freed_client, Same
<1> HIDE DEF closed, r
<1>3. freed.client_closed /\ freed.sndq = closed.sndq /\ freed.socks_closed /\ Same(freed, closed)
  <2>1. freed.client_closed /\ freed.sndq = closed.sndq /\ freed.socks_closed
    BY <1>1 DEF client_dealloc, CloseSocks, BSocksClient_Free, Connection
  <2>2. Same(freed, closed)
    BY <1>1 DEF client_dealloc, CloseSocks, BSocksClient_Free, Connection, Same
  <2> QED BY <2>1, <2>2
<1> DEFINE gone == client_dealloc(closed)
<1>4. /\ gone.client_closed /\ gone.sndq = closed.sndq /\ gone.socks_closed = closed.socks_closed
      /\ Same(gone, closed)
  BY <1>1 DEF client_dealloc, Connection, Same
<1> HIDE DEF freed, gone
<1>5. /\ r.client_closed /\ Same(r, c) /\ r.sndq = c.sndq
      /\ c.socks_closed \/ c.buf = <<>> => r.socks_closed
  BY <1>1, <1>2, <1>3, <1>4 DEF Same, gone
<1> QED BY <1>5 DEF r

LEMMA AbortStreams ==
    ASSUME NEW c \in Connection
    PROVE  /\ tcp_abort(c) \in Connection /\ Same(tcp_abort(c), c) /\ tcp_abort(c).sndq = <<>>
           /\ tcp_abort(c).socks_closed = c.socks_closed
<1>1. tcp_abort(c) \in Connection /\ tcp_abort(c).sndq = <<>> /\ tcp_abort(c).socks_closed = c.socks_closed
  BY AbortProperties DEF SameClient
<1>2. Same(tcp_abort(c), c)
  BY DEF tcp_abort, Connection, Same
<1> QED BY <1>1, <1>2

LEMMA QuietStreams ==
    ASSUME NEW c \in Connection
    PROVE  LET q == [c EXCEPT !.cb = {}]
           IN  q \in Connection /\ Same(q, c) /\ q.sndq = c.sndq /\ q.socks_closed = c.socks_closed
               /\ q.rcv_wnd = c.rcv_wnd /\ q.state = c.state
<1>1. Same([c EXCEPT !.cb = {}], c)
  BY DEF Connection, Same
<1> QED BY <1>1, QuietProperties DEF SameClient

\* Closing with the pcb already gone.
LEMMA GoneClosing ==
    ASSUME NEW c \in Connection, ~c.finq
    PROVE  /\ Closing(c, client_abort_client(c))
           /\ Closing(c, client_handle_freed_client(tcp_abort(c)))
           /\ ~client_abort_client(c).finq /\ ~client_handle_freed_client(tcp_abort(c)).finq
<1>1. ASSUME NEW q \in Connection, Same(q, c), q.socks_closed = c.socks_closed
      PROVE  LET r == client_handle_freed_client(tcp_abort(q)) IN Closing(c, r) /\ ~r.finq
  <2> DEFINE g == tcp_abort(q)
             r == client_handle_freed_client(g)
  <2>1. g \in Connection /\ Same(g, q) /\ g.sndq = <<>> /\ g.socks_closed = q.socks_closed
    BY AbortStreams
  <2> HIDE DEF g
  <2>2. /\ r.client_closed /\ Same(r, g) /\ r.sndq = g.sndq
        /\ g.socks_closed \/ g.buf = <<>> => r.socks_closed
    BY <2>1, HandleFreedStreams
  <2> HIDE DEF r
  <2>3. Closing(c, r) /\ ~r.finq
    BY <1>1, <2>1, <2>2 DEF Closing, Same
  <2> QED BY <2>3 DEF r, g
<1>2. Same(c, c)
  BY DEF Same
<1>3. [c EXCEPT !.cb = {}] \in Connection /\ Same([c EXCEPT !.cb = {}], c)
      /\ [c EXCEPT !.cb = {}].socks_closed = c.socks_closed
  BY QuietStreams
<1> DEFINE q == [c EXCEPT !.cb = {}]
<1> HIDE DEF q
<1>4. Closing(c, client_handle_freed_client(tcp_abort(c))) /\ ~client_handle_freed_client(tcp_abort(c)).finq
  BY <1>1, <1>2
<1>5. Closing(c, client_handle_freed_client(tcp_abort(q))) /\ ~client_handle_freed_client(tcp_abort(q)).finq
  BY <1>1, <1>3 DEF q
<1> QED BY <1>4, <1>5 DEF q, client_abort_client

\* A FIN is queued only when the window is fully open, so nothing is left for
\* SOCKS and that side is closed too.
LEMMA FreeClientClosing ==
    ASSUME NEW c \in Connection, c.state \in Opened, ~c.finq, NEW mem \in BOOLEAN,
           c.rcv_wnd = TcpWnd => c.socks_closed \/ c.buf = <<>>
    PROVE  Closing(c, client_free_client(c, mem))
<1> DEFINE q == [c EXCEPT !.cb = {}]
           g == IF CloseFails(q, mem) THEN tcp_abort(q) ELSE tcp_close(q, mem)
           r == client_handle_freed_client(g)
<1>1. /\ q \in Connection /\ Same(q, c) /\ q.sndq = c.sndq /\ q.socks_closed = c.socks_closed
      /\ q.rcv_wnd = c.rcv_wnd /\ q.state = c.state
  BY QuietStreams
<1> HIDE DEF q
<1>2. /\ g \in Connection /\ g.socks_closed = q.socks_closed
      /\ g.sndq \in {q.sndq, <<>>} /\ g.buf = q.buf /\ g.rbuf = q.rbuf
      /\ g.rcvd = q.rcvd /\ g.read = q.read /\ g.peerFin = q.peerFin
      /\ g.finq = q.finq \/ q.rcv_wnd = TcpWnd
  <2>1. CASE CloseFails(q, mem)
    BY <1>1, <2>1, AbortStreams DEF Same
  <2>2. CASE ~CloseFails(q, mem)
    <3>1. g = tcp_close(q, mem)
      BY <2>2
    <3>2. g \in Connection /\ g.sndq \in {q.sndq, <<>>} /\ SameClient(g, q)
      BY <1>1, <2>2, <3>1, CloseProperties
    <3>3. /\ g.rcvd = q.rcvd /\ g.read = q.read /\ g.peerFin = q.peerFin
      BY <1>1, <3>1 DEF tcp_close, Connection
    <3>4. g.finq = q.finq \/ q.rcv_wnd = TcpWnd
      BY <1>1, <3>1 DEF tcp_close, Connection
    <3> HIDE DEF g
    <3> QED BY <3>2, <3>3, <3>4 DEF SameClient
  <2> QED BY <2>1, <2>2
<1> HIDE DEF g
<1>3. /\ r.client_closed /\ Same(r, g) /\ r.sndq = g.sndq
      /\ g.socks_closed \/ g.buf = <<>> => r.socks_closed
  BY <1>2, HandleFreedStreams
<1> HIDE DEF r
<1>4. Closing(c, r)
  BY <1>1, <1>2, <1>3 DEF Closing, Same
<1> QED BY <1>4 DEF r, g, q, client_free_client

LEMMA CloseSocksStreams ==
    ASSUME NEW c \in Connection, SocksPart(c), WorkPart(c)
    PROVE  LET f == CloseSocks(c)
           IN  /\ f \in Connection /\ Same(f, c) /\ f.sndq = c.sndq /\ f.socks_closed
               /\ f.client_closed = c.client_closed /\ f.state = c.state /\ f.rcv_wnd = c.rcv_wnd
               /\ f.live = c.live
<1>1. Same(CloseSocks(c), c)
  BY DEF CloseSocks, BSocksClient_Free, Connection, Same
<1> QED BY <1>1, CloseSocksProperties

LEMMA DeallocStreams ==
    ASSUME NEW c \in Connection
    PROVE  LET r == client_dealloc(c)
           IN  /\ r \in Connection /\ Same(r, c) /\ r.sndq = c.sndq /\ r.socks_closed = c.socks_closed
               /\ r.client_closed = c.client_closed /\ r.state = c.state /\ ~r.live
<1>1. client_dealloc(c) \in Connection /\ Same(client_dealloc(c), c)
  BY DEF client_dealloc, Connection, Same
<1> QED BY <1>1 DEF client_dealloc, Connection

\* client_free_socks: SOCKS is closed, and the client too when it is drained.
LEMMA FreeSocksStreams ==
    ASSUME NEW c \in Connection, SocksPart(c), WorkPart(c), c.finq => c.client_closed,
           ~c.client_closed => c.state \in Opened, NEW mem \in BOOLEAN
    PROVE  LET r == client_free_socks(c, mem)
           IN  \/ /\ ~c.client_closed /\ ~r.client_closed /\ r.socks_closed /\ Same(r, c)
                  /\ r.sndq = c.sndq /\ r.state = c.state /\ r.live = c.live
               \/ /\ Closing(c, r) /\ r.socks_closed
                  /\ r.finq => c.finq \/ (c.rbuf = <<>> /\ ~(c.pending > 0)) \/ ~c.socks_up
<1> DEFINE f == CloseSocks(c)
           r == client_free_socks(c, mem)
<1>1. /\ f \in Connection /\ Same(f, c) /\ f.sndq = c.sndq /\ f.socks_closed
      /\ f.client_closed = c.client_closed /\ f.state = c.state /\ f.live = c.live
  BY CloseSocksStreams
<1>2. r = IF c.socks_up /\ (c.rbuf # <<>> \/ c.pending > 0) /\ ~c.client_closed THEN f
          ELSE IF ~c.client_closed THEN client_free_client(f, mem) ELSE client_dealloc(f)
  BY DEF client_free_socks
<1> HIDE DEF f, r
<1>3. CASE c.client_closed
  <2>1. Closing(c, r) /\ r.socks_closed /\ r.finq = c.finq
    BY <1>1, <1>2, <1>3, DeallocStreams DEF Closing, Same
  <2> QED BY <2>1 DEF r
<1>4. CASE ~c.client_closed /\ c.socks_up /\ (c.rbuf # <<>> \/ c.pending > 0)
  BY <1>1, <1>2, <1>4 DEF r
<1>5. CASE ~c.client_closed /\ ~(c.socks_up /\ (c.rbuf # <<>> \/ c.pending > 0))
  <2>1. Closing(f, r)
    BY <1>1, <1>2, <1>5, FreeClientClosing DEF Same
  <2>2. Closing(c, r) /\ r.socks_closed
    BY <1>1, <2>1 DEF Closing, Same
  <2> QED BY <1>5, <2>2 DEF r
<1> QED BY <1>3, <1>4, <1>5

LEMMA MurderClosing ==
    ASSUME NEW c \in Connection, SocksPart(c), WorkPart(c), c.finq => c.client_closed /\ c.socks_closed
    PROVE  Closing(c, client_murder(c)) /\ client_murder(c).finq = c.finq
<1> DEFINE q == [c EXCEPT !.cb = {}, !.client_closed = TRUE]
           a == IF c.client_closed THEN c ELSE tcp_abort(q)
           f == IF a.socks_closed THEN a ELSE BSocksClient_Free(a)
           r == client_dealloc(f)
<1>1. q \in Connection /\ q.client_closed /\ Same(q, c) /\ q.socks_closed = c.socks_closed
  <2>1. q \in Connection
    BY DEF Connection
  <2>2. q.client_closed /\ Same(q, c) /\ q.socks_closed = c.socks_closed
    BY DEF Connection, Same
  <2> QED BY <2>1, <2>2
<1> HIDE DEF q
<1>2. /\ a \in Connection /\ a.client_closed /\ Same(a, c) /\ a.socks_closed = c.socks_closed
      /\ a.sndq \in {c.sndq, <<>>}
  <2>1. CASE c.client_closed
    BY <2>1 DEF Same
  <2>2. CASE ~c.client_closed
    BY <1>1, <2>2, AbortStreams, AbortProperties DEF Same, SameClient
  <2> QED BY <2>1, <2>2
<1> HIDE DEF a
<1>3. /\ f \in Connection /\ f.client_closed /\ Same(f, a) /\ (a.socks_closed => f.socks_closed)
      /\ f.sndq = a.sndq
  <2>1. CASE a.socks_closed
    BY <1>2, <2>1 DEF Same
  <2>2. CASE ~a.socks_closed
    <3>1. f = BSocksClient_Free(a)
      BY <2>2
    <3>2. f \in Connection
      BY ZenonT(60), <1>2, <3>1, EmptyQueue DEF BSocksClient_Free, Connection, Kind
    <3>3. f.client_closed /\ f.socks_closed /\ f.sndq = a.sndq /\ Same(f, a)
      BY <1>2, <3>1 DEF BSocksClient_Free, Connection, Same
    <3> HIDE DEF f
    <3> QED BY <3>2, <3>3
  <2> QED BY <2>1, <2>2
<1> HIDE DEF f
<1>4. r.client_closed /\ Same(r, f) /\ r.sndq = f.sndq /\ r.socks_closed = f.socks_closed
  BY <1>3, DeallocStreams
<1>5. r = client_murder(c)
  BY DEF client_murder, f, a, q
<1> HIDE DEF r
<1>6. Closing(c, r) /\ r.finq = c.finq
  BY <1>2, <1>3, <1>4 DEF Closing, Same
<1> QED BY <1>5, <1>6

-----------------------------------------------------------------------------
(* Steps of the SOCKS side and of the life cycle *)

\* The step keeps the streams and moves them as ByteRelay allows.
Relayed ==
    /\ Relays(k', seg', toSocks', toClient')
    /\ RStep(k, seg, toSocks, toClient, k', seg', toSocks', toClient')

LEMMA StepTypes ==
    ASSUME RInv, IInv'
    PROVE  /\ k \in Connection /\ k' \in Connection /\ seg \in Segment /\ seg' \in Segment
           /\ toSocks \in Nat /\ toClient \in Nat /\ toSocks' \in Nat /\ toClient' \in Nat
           /\ IInv /\ Relays(k, seg, toSocks, toClient)
           /\ k'.client_closed => k'.state # "SYN_RCVD"
BY DEF RInv, IInv, TypeOK, Good, PcbPart

LEMMA SendAlike ==
    ASSUME NEW c \in Connection
    PROVE  Alike(client_send_to_socks(c), c)
BY DEF client_send_to_socks, Connection, Alike

LEMMA InitiateAlike ==
    ASSUME NEW c \in Connection
    PROVE  Alike(client_socks_recv_initiate(c), c)
BY DEF client_socks_recv_initiate, Connection, Alike

LEMMA AlikeTransitive ==
    ASSUME NEW a, NEW b, NEW c, Alike(a, b), Alike(b, c)
    PROVE  Alike(a, c)
BY DEF Alike

LEMMA AlikeStep ==
    ASSUME RInv, IInv', Alike(k', k), seg' = seg, toSocks' = toSocks, toClient' = toClient
    PROVE  Relayed
BY StepTypes, AlikeRelays DEF Relayed

LEMMA QuietRelayed ==
    ASSUME RInv, IInv',
           HandshakeDone \/ WouldBlock \/ \E events \in SUBSET {"write", "read"} : FdReady(events)
    PROVE  Relayed
<1>0. k \in Connection /\ IInv
  BY StepTypes
<1>1. Alike(k', k)
  <2>1. CASE WouldBlock
    BY <1>0, <2>1 DEF WouldBlock, Alike, Connection
  <2>2. ASSUME NEW events \in SUBSET {"write", "read"}, FdReady(events) PROVE Alike(k', k)
    BY <1>0, <2>2 DEF FdReady, Alike, Connection
  <2>3. CASE HandshakeDone
    <3> DEFINE cb == IF k.client_closed THEN k.cb ELSE k.cb \cup {"sent"}
               u == [k EXCEPT !.conn = "up", !.socks_up = TRUE, !.cb = cb]
               s == IF k.buf # <<>> THEN client_send_to_socks(u) ELSE u
    <3>1. k' = IF k.client_closed THEN s ELSE client_socks_recv_initiate(s)
      BY <1>0, <2>3 DEF HandshakeDone, SocksUp, Connection
    <3>2. cb \in SUBSET {"err", "recv", "sent"}
      BY <1>0 DEF Connection
    <3> HIDE DEF cb
    <3>3. u \in Connection /\ Alike(u, k) /\ u.jobs = <<>>
      <4>1. u \in Connection
        BY <1>0, <3>2 DEF Connection
      <4>2. Alike(u, k) /\ u.jobs = <<>>
        BY <1>0, <2>3 DEF Connection, Alike, HandshakeDone, Handshaking
      <4> QED BY <4>1, <4>2
    <3> HIDE DEF u
    <3>4. s \in Connection /\ Alike(s, k)
      <4>1. Once(u.jobs) /\ ~Queued(u, "send")
        BY <3>3, EmptyQueue DEF Queued
      <4>2. client_send_to_socks(u) \in Connection
        BY <3>3, <4>1, SendToSocksProperties
      <4>3. Alike(client_send_to_socks(u), k)
        BY <3>3, SendAlike, AlikeTransitive
      <4> QED BY <3>3, <4>2, <4>3
    <3> HIDE DEF s
    <3>5. Alike(client_socks_recv_initiate(s), k)
      BY <3>4, InitiateAlike, AlikeTransitive
    <3> QED BY <3>1, <3>4, <3>5
  <2> QED BY <2>1, <2>2, <2>3
<1>2. seg' = seg /\ toSocks' = toSocks /\ toClient' = toClient
  BY DEF HandshakeDone, WouldBlock, FdReady
<1> QED BY <1>1, <1>2, AlikeStep

LEMMA AcceptRelayed ==
    ASSUME RInv, IInv', Accept
    PROVE  Relayed
<1>0. /\ k \in Connection /\ k' \in Connection /\ seg \in Segment /\ seg' \in Segment
      /\ toSocks \in Nat /\ toClient \in Nat /\ Relays(k, seg, toSocks, toClient)
  BY StepTypes
<1>1. toSocks' = toSocks /\ toClient' = toClient /\ k.state = "SYN_RCVD" /\ seg.at = "idle"
      /\ seg' = [seg EXCEPT !.at = "acceptSync"]
  BY DEF Accept, Quiet
<1>2. Same(k', k) /\ k'.sndq = k.sndq /\ k'.socks_closed = k.socks_closed /\ k'.client_closed = k.client_closed
  BY <1>0 DEF Accept, Connection, Same
<1>3. k'.state = "ESTABLISHED" /\ k'.live
  BY <1>0 DEF Accept, Connection
<1>4. InSeg(seg') = InSeg(seg) /\ seg'.fin = seg.fin
  BY <1>0, <1>1 DEF Segment, InSeg
<1>5. UpHeld(k', seg', toSocks) /\ UpStep(k, seg, toSocks, k', seg', toSocks)
  BY <1>0, <1>1, <1>2, <1>4, UpKept DEF Same, Relays
<1>6. DownHeld(k', toClient) /\ DownStep(k, toClient, k', toClient)
  BY <1>0, <1>2, DownKept DEF Same, Relays
<1>7. EndHeld(k', seg') /\ EndStep(k, k', toClient)
  BY <1>0, <1>2, <1>3, <1>4 DEF Same, Relays, EndHeld, EndStep, Up
<1> QED BY <1>1, <1>5, <1>6, <1>7 DEF Relayed, Relays, RStep

\* A step that closes the client side and passes no byte.
LEMMA ClosingStep ==
    ASSUME RInv, IInv', Closing(k, k'), toSocks' = toSocks, toClient' = toClient,
           seg' = seg \/ seg' = NoSegment,
           k'.finq => k.finq \/ k.peerFin \/ Drained(k)
    PROVE  Relayed
<1>1. InSeg(seg') \in {InSeg(seg), <<>>} /\ (seg'.fin => seg.fin)
  BY DEF NoSegment, InSeg
<1>2. k'.state # "SYN_RCVD"
  BY StepTypes DEF Closing
<1> QED BY <1>1, <1>2, StepTypes, ClosingRelays DEF Relayed

LEMMA PcbGoneRelayed ==
    ASSUME RInv, IInv', AcceptFails \/ TimeWaitExpires \/ PcbKilled
    PROVE  Relayed
<1>0. /\ k \in Connection /\ k' \in Connection /\ seg \in Segment
      /\ toSocks \in Nat /\ toClient \in Nat /\ Relays(k, seg, toSocks, toClient) /\ IInv
  BY StepTypes
<1>1. toSocks' = toSocks /\ toClient' = toClient /\ seg' = seg /\ k.state # "FREED"
  BY DEF AcceptFails, TimeWaitExpires, PcbKilled, Active
<1> DEFINE g == tcp_abort(k)
<1>2. k' = g \/ (k' = client_handle_freed_client(g) /\ "err" \in k.cb)
  BY DEF AcceptFails, TimeWaitExpires, PcbKilled, client_err_func
<1>3. PcbPart(k)
  BY <1>0 DEF IInv, Good
<1>4. CASE k' = client_handle_freed_client(g) /\ "err" \in k.cb
  <2>1. ~k.finq
    BY <1>0, <1>3, <1>4 DEF PcbPart, Up, Relays, EndHeld
  <2>2. Closing(k, k') /\ ~k'.finq
    BY <1>0, <1>4, <2>1, GoneClosing
  <2> QED BY <1>1, <2>2, ClosingStep
<1>5. CASE k' = g
  <2>1. /\ Same(k', k) /\ k'.sndq = <<>> /\ k'.socks_closed = k.socks_closed
        /\ k'.client_closed = k.client_closed /\ k'.state = "FREED" /\ k'.live = k.live
    BY <1>0, <1>5, AbortStreams, AbortProperties DEF SameClient
  <2>2. k.client_closed \/ (k.state = "SYN_RCVD" /\ k.sndq = <<>>) \/ Up(k)
    BY <1>0, <1>1, <1>3 DEF Relays, EndHeld, PcbPart
  <2>3. ~Up(k')
    <3>1. PcbPart(k')
      BY DEF IInv, Good
    <3> QED BY <2>1, <3>1 DEF PcbPart, Opened
  <2>4. k.client_closed \/ k.sndq = <<>>
    BY <2>1, <2>2, <2>3 DEF Up
  <2>5. UpHeld(k', seg', toSocks) /\ UpStep(k, seg, toSocks, k', seg', toSocks)
    BY <1>0, <1>1, <2>1, <2>3, UpKept DEF Same, Relays
  <2>6. DownHeld(k', toClient) /\ DownStep(k, toClient, k', toClient)
    BY <1>0, <2>1, <2>4, DownKept DEF Same, Relays
  <2>7. EndHeld(k', seg') /\ EndStep(k, k', toClient)
    BY <1>0, <1>1, <2>1 DEF Same, Relays, EndHeld, EndStep
  <2> QED BY <1>1, <2>5, <2>6, <2>7 DEF Relayed, Relays, RStep
<1> QED BY <1>2, <1>4, <1>5

\* Freeing the SOCKS side of a closed client queues no FIN.
LEMMA FinqOfClosed ==
    ASSUME NEW c \in Connection, SocksPart(c), WorkPart(c), c.client_closed, NEW mem \in BOOLEAN
    PROVE  client_free_socks(c, mem).finq = c.finq
<1>1. client_free_socks(c, mem) = client_dealloc(CloseSocks(c))
  BY DEF client_free_socks
<1>2. CloseSocks(c) \in Connection /\ CloseSocks(c).finq = c.finq
  BY CloseSocksStreams DEF Same
<1> QED BY <1>1, <1>2, DeallocStreams DEF Same

LEMMA FreeSocksRelayed ==
    ASSUME RInv, IInv', NEW mem \in BOOLEAN,
           HandshakeError(mem) \/ SocketError(mem) \/ IdleError(mem)
    PROVE  Relayed
<1>0. /\ k \in Connection /\ k' \in Connection /\ seg \in Segment
      /\ toSocks \in Nat /\ toClient \in Nat /\ Relays(k, seg, toSocks, toClient) /\ IInv
      /\ PcbPart(k) /\ SocksPart(k) /\ WorkPart(k) /\ SizePart(k, Acked(seg), Arrived(seg))
  BY StepTypes DEF IInv, Good
<1>1. toSocks' = toSocks /\ toClient' = toClient /\ seg' = seg /\ k' = client_free_socks(k, mem)
  BY DEF HandshakeError, SocketError, IdleError
<1>2. k.live /\ Acked(seg) = 0
  <2>1. CASE HandshakeError(mem)
    BY <1>0, <2>1 DEF HandshakeError, Handshaking, SocksPart, Connection, Acked
  <2>2. CASE SocketError(mem)
    BY <1>0, <2>2, JobFlows DEF SocketError, Acked, Flowing
  <2>3. CASE IdleError(mem)
    BY <1>0, <2>3 DEF IdleError, Quiet, SocksPart, Connection, Acked
  <2> QED BY <2>1, <2>2, <2>3
<1>3. k.finq => k.client_closed
  BY <1>0 DEF Relays, EndHeld
<1>4. ~k.client_closed => Up(k) /\ k.state \in Opened
  BY <1>0, <1>2 DEF Up, PcbPart
<1>5. \/ /\ ~k.client_closed /\ ~k'.client_closed /\ k'.socks_closed /\ Same(k', k)
         /\ k'.sndq = k.sndq /\ k'.state = k.state /\ k'.live = k.live
      \/ /\ Closing(k, k') /\ k'.socks_closed
         /\ k'.finq => k.finq \/ (k.rbuf = <<>> /\ ~(k.pending > 0)) \/ ~k.socks_up
  BY <1>0, <1>1, <1>3, <1>4, FreeSocksStreams
<1>6. CASE ~k.client_closed /\ ~k'.client_closed /\ k'.socks_closed /\ Same(k', k)
           /\ k'.sndq = k.sndq /\ k'.state = k.state /\ k'.live = k.live
  <2>1. UpHeld(k', seg', toSocks) /\ UpStep(k, seg, toSocks, k', seg', toSocks)
    BY <1>0, <1>1, <1>6, UpKept DEF Same, Relays
  <2>2. DownHeld(k', toClient) /\ DownStep(k, toClient, k', toClient)
    BY <1>0, <1>6, DownKept DEF Same, Relays
  <2>3. EndHeld(k', seg') /\ EndStep(k, k', toClient)
    BY <1>0, <1>1, <1>6 DEF Same, Relays, EndHeld, EndStep, Up
  <2> QED BY <1>1, <2>1, <2>2, <2>3 DEF Relayed, Relays, RStep
<1>7. CASE Closing(k, k') /\ (k'.finq => k.finq \/ (k.rbuf = <<>> /\ ~(k.pending > 0)) \/ ~k.socks_up)
  <2>1. ~k.client_closed /\ ((k.rbuf = <<>> /\ ~(k.pending > 0)) \/ ~k.socks_up) => Drained(k)
    <3> SUFFICES ASSUME ~k.client_closed, (k.rbuf = <<>> /\ ~(k.pending > 0)) \/ ~k.socks_up PROVE Drained(k)
      OBVIOUS
    <3>1. k.pending \in Nat /\ Len(k.sndq) \in Nat
      BY <1>0, Numbers
    <3>2. k.rbuf = <<>> /\ k.pending = 0
      BY <1>0, <3>1 DEF SocksPart
    <3>3. k.pending = Len(k.sndq) + 0
      BY <1>0, <1>2, <1>4 DEF SizePart
    <3> QED BY <3>1, <3>2, <3>3, EmptyNat DEF Drained
  <2>2. k'.finq => k.finq \/ k.peerFin \/ Drained(k)
    <3>1. CASE k.client_closed
      BY <1>0, <1>1, <1>3, <1>7, <3>1, FinqOfClosed
    <3>2. CASE ~k.client_closed
      BY <1>7, <2>1, <3>2
    <3> QED BY <3>1, <3>2
  <2> QED BY <1>1, <1>7, <2>2, ClosingStep
<1> QED BY <1>5, <1>6, <1>7

LEMMA TerminateRelayed ==
    ASSUME RInv, IInv', Terminate
    PROVE  Relayed
<1>0. /\ k \in Connection /\ Relays(k, seg, toSocks, toClient) /\ SocksPart(k) /\ WorkPart(k)
  BY StepTypes DEF IInv, Good
<1>1. toSocks' = toSocks /\ toClient' = toClient /\ seg' = seg /\ k' = client_murder(k)
  BY DEF Terminate
<1>2. Closing(k, k') /\ k'.finq = k.finq
  BY <1>0, <1>1, MurderClosing DEF Relays, EndHeld
<1> QED BY <1>1, <1>2, ClosingStep

-----------------------------------------------------------------------------
(* Steps of tcp_input *)

LEMMA SyncEndRelayed ==
    ASSUME RInv, IInv', SyncEnd
    PROVE  Relayed
<1>0. /\ k \in Connection /\ k' \in Connection /\ seg \in Segment /\ seg' \in Segment
      /\ toSocks \in Nat /\ toClient \in Nat /\ Relays(k, seg, toSocks, toClient)
  BY StepTypes
<1>1. k' = k /\ toSocks' = toSocks /\ toClient' = toClient
  BY DEF SyncEnd
<1>2. CASE seg.at # "acceptSync" /\ k.client_closed
  <2>1. seg' = NoSegment
    BY <1>2 DEF SyncEnd, Aborted
  <2>2. Closing(k, k')
    BY <1>0, <1>1, <1>2 DEF Closing, Relays, EndHeld
  <2> QED BY <1>1, <2>1, <2>2, ClosingStep
<1>3. CASE ~(seg.at # "acceptSync" /\ k.client_closed)
  <2>1. InSeg(seg') = InSeg(seg) /\ (seg'.fin => seg.fin)
    <3>1. CASE seg.at = "acceptSync"
      BY <3>1 DEF SyncEnd, NoSegment, InSeg
    <3>2. CASE seg.at # "acceptSync"
      <4> DEFINE stage == IF seg.at = "sentSync" THEN "recv" ELSE "fin"
      <4>1. seg' = [seg EXCEPT !.at = stage] /\ stage \in Stage /\ seg.at \in {"sentSync", "recvSync"}
        BY <1>0, <1>3, <3>2 DEF SyncEnd, Stage, Segment
      <4>2. seg'.at = stage /\ seg'.data = seg.data /\ seg'.fin = seg.fin
        BY <1>0, <4>1, NextStage
      <4> QED BY <4>1, <4>2 DEF InSeg
    <3> QED BY <3>1, <3>2
  <2>2. Alike(k', k)
    BY <1>1 DEF Alike
  <2> QED BY <1>0, <1>1, <2>1, <2>2, AlikeRelays DEF Relayed
<1> QED BY <1>2, <1>3

\* client->buf takes the bytes of the segment.
LEMMA TakenRelays ==
    ASSUME NEW c \in Connection, NEW r \in Connection, NEW s \in Segment, NEW t \in Segment,
           NEW ts \in Nat, NEW tc \in Nat, Relays(c, s, ts, tc),
           Alike([r EXCEPT !.buf = c.buf], c), r.buf = c.buf \o InSeg(s),
           InSeg(t) = <<>>, t.fin => s.fin
    PROVE  Relays(r, t, ts, tc) /\ RStep(c, s, ts, tc, r, t, ts, tc)
<1>1. /\ r.rcvd = c.rcvd /\ r.read = c.read /\ r.peerFin = c.peerFin /\ r.finq = c.finq
      /\ r.rbuf = c.rbuf /\ r.sndq = c.sndq /\ r.live = c.live /\ r.state = c.state
      /\ r.socks_closed = c.socks_closed /\ r.client_closed = c.client_closed
  BY DEF Connection, Alike
<1>2. DownHeld(r, tc) /\ DownStep(c, tc, r, tc)
  BY <1>1, DownKept DEF Relays
<1>3. EndHeld(r, t) /\ EndStep(c, r, tc)
  BY <1>1 DEF EndHeld, EndStep, Relays, Up
<1> DEFINE x == Len(c.buf)
           y == Len(InSeg(s))
<1>4. /\ c.buf \in Seq(Nat) /\ InSeg(s) \in Seq(Nat) /\ x \in Nat /\ y \in Nat /\ c.rcvd \in Nat
  BY StreamNumbers
<1>5. Len(r.buf) = x + y /\ Len(InSeg(t)) = 0 /\ ts + (x + y) + 0 = ts + x + y /\ ts + (x + y) \in Nat
  BY SMTT(60), <1>4, ConcatNat, EmptyNat
<1>6. UpLen(r, t) = UpLen(c, s)
  <2>1. x + y + 0 = x + y
    BY <1>4
  <2> QED BY <1>1, <1>5, <2>1 DEF UpLen
<1>7. UpLen(c, s) \in Nat
  BY StreamNumbers
<1>8. UpStep(c, s, ts, r, t, ts)
  BY <1>1, <1>4, <1>6, <1>7 DEF UpStep
<1>9. UpHeld(r, t, ts)
  <2>1. ts <= r.rcvd
    BY <1>1 DEF Relays, UpHeld
  <2>2. ASSUME ~c.socks_closed
        PROVE  /\ IsRun(r.buf, ts) /\ IsRun(<<>>, ts + Len(r.buf))
               /\ ts + x + y <= c.rcvd
               /\ Up(c) \/ c.state = "SYN_RCVD" => ts + x + y = c.rcvd
    <3>1. IsRun(c.buf, ts) /\ IsRun(InSeg(s), ts + x)
      BY <2>2 DEF Relays, UpHeld
    <3>2. IsRun(r.buf, ts)
      BY <1>4, <3>1, JoinRuns
    <3>3. IsRun(<<>>, ts + Len(r.buf))
      BY <1>5, EmptyRun
    <3> QED BY <2>2, <3>2, <3>3 DEF Relays, UpHeld
  <2>3. Up(r) <=> Up(c)
    BY <1>1 DEF Up
  <2>4. ts + Len(r.buf) + Len(InSeg(t)) = ts + x + y
    BY <1>5
  <2> HIDE DEF x, y
  <2> QED BY <1>1, <2>1, <2>2, <2>3, <2>4 DEF UpHeld
<1> QED BY <1>2, <1>3, <1>8, <1>9 DEF Relays, RStep

LEMMA RecvCallbackRelayed ==
    ASSUME RInv, IInv', RecvCallback
    PROVE  Relayed
<1>0. /\ k \in Connection /\ k' \in Connection /\ seg \in Segment /\ seg' \in Segment /\ IInv
      /\ toSocks \in Nat /\ toClient \in Nat /\ Relays(k, seg, toSocks, toClient)
  BY StepTypes
<1>1. toSocks' = toSocks /\ toClient' = toClient /\ seg.at = "recv"
  BY DEF RecvCallback
<1>2. k.jobs = <<>> /\ Up(k) /\ PcbPart(k) /\ seg'.at # "refused"
  BY <1>0, <1>1, StageFacts DEF Good, IInv, SegmentPart
<1> DEFINE n == Len(seg.data)
           c == [k EXCEPT !.buf = @ \o seg.data]
           to(stage) == seg' = [seg EXCEPT !.at = stage]
<1>3. seg.data \in Seq(Nat) /\ k.buf \in Seq(Nat) /\ k.buf \o seg.data \in Seq(Nat) /\ InSeg(seg) = seg.data
  BY <1>0, <1>1, Counts, Numbers, ConcatNat DEF InSeg
<1>4. \/ n = 0 /\ k' = k /\ to("fin")
      \/ "recv" \notin k.cb /\ k' = tcp_recved(k, n) /\ to("fin")
      \/ to("refused")
      \/ k' = client_send_to_socks(c) /\ to("recvSync")
      \/ k' = c /\ to("fin")
  BY DEF RecvCallback
<1>5. ASSUME NEW stage \in {"fin", "recvSync", "refused"}, to(stage)
      PROVE  seg'.at = stage /\ InSeg(seg') = <<>> /\ seg'.fin = seg.fin
  <2>1. stage \in Stage
    BY DEF Stage
  <2> QED BY <1>0, <1>5, <2>1, NextStage DEF InSeg
<1>6. ~to("refused")
  BY <1>2, <1>5
<1>7. c \in Connection /\ c.buf = k.buf \o seg.data /\ Alike([c EXCEPT !.buf = k.buf], k)
  <2>1. c \in Connection
    BY <1>0, <1>3 DEF Connection
  <2>2. c.buf = k.buf \o seg.data /\ Alike([c EXCEPT !.buf = k.buf], k)
    BY <1>0 DEF Connection, Alike
  <2> QED BY <2>1, <2>2
<1> HIDE DEF to, c
<1>8. CASE n = 0 /\ k' = k /\ to("fin")
  <2>1. InSeg(seg') = InSeg(seg) /\ seg'.fin = seg.fin
    BY <1>3, <1>5, <1>8, EmptyNat
  <2>2. Alike(k', k)
    BY <1>8 DEF Alike
  <2> QED BY <1>0, <1>1, <2>1, <2>2, AlikeRelays DEF Relayed
<1>9. CASE "recv" \notin k.cb /\ k' = tcp_recved(k, n) /\ to("fin")
  <2>1. Alike(k', k) /\ k.socks_closed
    <3>1. Alike(k', k)
      BY <1>0, <1>9 DEF tcp_recved, Connection, Alike
    <3> QED BY <1>2, <1>9, <3>1 DEF PcbPart
  <2>2. seg'.fin = seg.fin
    BY <1>5, <1>9
  <2>3. UpHeld(k', seg', toSocks) /\ UpStep(k, seg, toSocks, k', seg', toSocks)
    BY <1>0, <2>1, UpKept DEF Alike, Relays
  <2>4. DownHeld(k', toClient) /\ DownStep(k, toClient, k', toClient)
    BY <1>0, <2>1, DownKept DEF Alike, Relays
  <2>5. EndHeld(k', seg') /\ EndStep(k, k', toClient)
    BY <1>0, <2>1, <2>2 DEF EndHeld, EndStep, Alike, Relays, Up
  <2> QED BY <1>1, <2>3, <2>4, <2>5 DEF Relayed, Relays, RStep
<1>10. CASE (k' = client_send_to_socks(c) /\ to("recvSync")) \/ (k' = c /\ to("fin"))
  <2>1. InSeg(seg') = <<>> /\ seg'.fin = seg.fin
    BY <1>5, <1>10
  <2>2. k'.buf = k.buf \o InSeg(seg) /\ Alike([k' EXCEPT !.buf = k.buf], k)
    <3>1. CASE k' = c
      BY <1>3, <1>7, <3>1
    <3>2. CASE k' = client_send_to_socks(c)
      <4>1. Alike(k', c)
        BY <1>7, <3>2, SendAlike
      <4>2. k'.buf = c.buf
        BY <4>1 DEF Alike
      <4>3. Alike([k' EXCEPT !.buf = k.buf], [c EXCEPT !.buf = k.buf])
        BY <1>0, <1>7, <4>1 DEF Alike, Connection
      <4> QED BY <1>3, <1>7, <4>2, <4>3, AlikeTransitive
    <3> QED BY <1>10, <3>1, <3>2
  <2> QED BY <1>0, <1>1, <2>1, <2>2, TakenRelays DEF Relayed
<1> QED BY <1>4, <1>6, <1>8, <1>9, <1>10

LEMMA FinCallbackRelayed ==
    ASSUME RInv, IInv', NEW mem \in BOOLEAN, FinCallback(mem)
    PROVE  Relayed
<1>0. /\ k \in Connection /\ k' \in Connection /\ seg \in Segment /\ seg' \in Segment /\ IInv
      /\ toSocks \in Nat /\ toClient \in Nat /\ Relays(k, seg, toSocks, toClient)
  BY StepTypes
<1>1. toSocks' = toSocks /\ toClient' = toClient /\ seg.at = "fin" /\ seg' = NoSegment
  BY DEF FinCallback
<1>2. Up(k) /\ PcbPart(k) /\ SizePart(k, 0, Arrived(seg))
  BY <1>0, <1>1, StageFacts DEF Good, Acked
<1> DEFINE v == Min2(TcpWnd, k.rcv_wnd + 1)
           c == [k EXCEPT !.rcv_wnd = v]
<1>3. k' = IF ~seg.fin THEN k ELSE IF "recv" \in k.cb THEN client_free_client(c, mem) ELSE c
  BY <1>0 DEF FinCallback, Connection
<1>4. k.rcv_wnd \in 0..TcpWnd /\ Len(k.buf) \in Nat /\ k.buf \in Seq(Nat)
  BY <1>0, Numbers
<1>5. v \in 0..TcpWnd /\ (v = TcpWnd => k.rcv_wnd + 1 >= TcpWnd)
  <2>1. ASSUME NEW x \in 0..TcpWnd
        PROVE  Min2(TcpWnd, x + 1) \in 0..TcpWnd /\ (Min2(TcpWnd, x + 1) = TcpWnd => x + 1 >= TcpWnd)
    BY SizesAssumption DEF Min2
  <2> QED BY <1>4, <2>1
<1> HIDE DEF v
<1>6. c \in Connection /\ Alike(c, k) /\ c.rcv_wnd = v
  <2>1. c \in Connection /\ c.rcv_wnd = v
    BY <1>0, <1>5 DEF Connection
  <2>2. Alike(c, k)
    BY <1>0 DEF Connection, Alike
  <2> QED BY <2>1, <2>2
<1> HIDE DEF c
<1>7. CASE seg.fin /\ "recv" \in k.cb
  <2>1. ~k.socks_closed /\ k.state \in Opened /\ ~k.finq /\ k.peerFin
    BY <1>0, <1>2, <1>7 DEF PcbPart, Relays, EndHeld, Up
  <2>2. Arrived(seg) = 1
    BY <1>1, <1>7 DEF Arrived
  <2>3. k.rcv_wnd + Len(k.buf) + 1 <= TcpWnd
    BY <1>2, <2>1, <2>2 DEF SizePart
  <2>4. v = TcpWnd => Len(k.buf) = 0
    BY <1>4, <1>5, <2>3
  <2>5. Closing(c, k')
    BY <1>3, <1>4, <1>6, <1>7, <2>1, <2>4, FreeClientClosing, EmptyNat DEF Alike
  <2>6. Closing(k, k')
    BY <1>6, <2>5 DEF Closing, Alike
  <2> QED BY <1>1, <2>1, <2>6, ClosingStep
<1>8. CASE ~(seg.fin /\ "recv" \in k.cb)
  <2>1. Alike(k', k)
    BY <1>3, <1>6, <1>8 DEF Alike
  <2>2. InSeg(seg') = InSeg(seg) /\ (seg'.fin => seg.fin)
    BY <1>1 DEF NoSegment, InSeg
  <2> QED BY <1>0, <1>1, <2>1, <2>2, AlikeRelays DEF Relayed
<1> QED BY <1>7, <1>8

\* The application acknowledges a bytes.
LEMMA DownAcked ==
    ASSUME NEW c \in Connection, NEW r \in Connection, NEW tc \in Nat, NEW a \in 0..Len(c.sndq),
           DownHeld(c, tc), r.read = c.read, r.client_closed = c.client_closed, r.rbuf = c.rbuf,
           r.sndq = Drop(c.sndq, a) \/ (r.sndq = <<>> /\ c.client_closed)
    PROVE  DownHeld(r, tc + a) /\ DownStep(c, tc, r, tc + a)
<1> DEFINE x == Len(c.sndq)
           y == Len(c.rbuf)
           z == Len(r.sndq)
<1>1. /\ c.read \in Nat /\ x \in Nat /\ y \in Nat /\ z \in Nat /\ c.sndq \in Seq(Nat) /\ a \in Nat /\ a <= x
      /\ tc + a \in Nat
  BY Numbers, Sums
<1>2. /\ IsRun(c.sndq, tc) /\ tc + x <= c.read
      /\ ~c.client_closed => IsRun(c.rbuf, tc + x) /\ tc + x + y = c.read
  BY DEF DownHeld
<1>3. IsRun(r.sndq, tc + a) /\ z <= x - a /\ (~c.client_closed => z = x - a)
  <2>1. IsRun(Drop(c.sndq, a), tc + a) /\ Len(Drop(c.sndq, a)) = x - a
    BY <1>1, <1>2, CutRun, DropProperties
  <2>2. IsRun(<<>>, tc + a) /\ Len(<<>>) = 0 /\ 0 <= x - a
    BY <1>1, EmptyRun, EmptyNat
  <2>3. x - a <= x - a
    BY <1>1
  <2> HIDE DEF x
  <2> QED BY <2>1, <2>2, <2>3
<1>4. /\ ~c.client_closed => Len(r.rbuf) = y /\ DownLen(r) = z + y /\ DownLen(c) = x + y
      /\ c.client_closed => DownLen(r) = z /\ DownLen(c) = x
  BY DEF DownLen
<1> HIDE DEF x, y, z
<1>5. /\ tc + a + z <= c.read
      /\ ~c.client_closed => (tc + a) + z = tc + x /\ tc + a + z + y = c.read
  BY SMTT(60), <1>1, <1>2, <1>3
<1>6. DownHeld(r, tc + a)
  BY <1>2, <1>3, <1>4, <1>5 DEF DownHeld, z
<1>7. DownStep(c, tc, r, tc + a)
  <2>1. CASE c.client_closed
    BY <1>1, <1>2, <1>3, <1>4, <2>1 DEF DownStep
  <2>2. CASE ~c.client_closed
    BY <1>1, <1>2, <1>3, <1>4, <2>2 DEF DownStep
  <2> QED BY <2>1, <2>2
<1> QED BY <1>6, <1>7

LEMMA OpenInputRelayed ==
    ASSUME RInv, IInv', NEW a \in 0..Len(k.sndq), NEW n \in 0..TcpWnd, NEW fin \in BOOLEAN, OpenInput(a, n, fin)
    PROVE  Relayed
<1>0. /\ k \in Connection /\ k' \in Connection /\ seg \in Segment /\ seg' \in Segment /\ IInv
      /\ toSocks \in Nat /\ toClient \in Nat /\ Relays(k, seg, toSocks, toClient)
  BY StepTypes
<1>1. /\ toSocks' = toSocks /\ toClient' = toClient + a /\ seg.at = "idle" /\ k.state \in Opened
      /\ seg' = [at |-> "sent", acked |-> a, data |-> Run(k.rcvd, n), fin |-> fin]
  BY DEF OpenInput, Quiet, Opened
<1>2. Up(k) /\ ~k.finq
  BY <1>0, <1>1 DEF IInv, Good, PcbPart, Relays, EndHeld, Up
<1>3. /\ k'.sndq = Drop(k.sndq, a) /\ k'.rcvd = k.rcvd + n /\ k'.peerFin = (k.peerFin \/ fin)
      /\ k'.state \in Opened
  BY <1>0, <1>1 DEF OpenInput, Connection, Opened
<1>4. /\ k'.read = k.read /\ k'.finq = k.finq /\ k'.buf = k.buf /\ k'.rbuf = k.rbuf /\ k'.live = k.live
      /\ k'.socks_closed = k.socks_closed /\ k'.client_closed = k.client_closed
  BY <1>0 DEF OpenInput, Connection
<1>5. DownHeld(k', toClient') /\ DownStep(k, toClient, k', toClient')
  BY <1>0, <1>1, <1>3, <1>4, DownAcked DEF Relays
<1>6. EndHeld(k', seg') /\ EndStep(k, k', toClient')
  <2>1. Up(k')
    BY <1>2, <1>4 DEF Up
  <2> QED BY <1>1, <1>2, <1>3, <1>4, <2>1 DEF EndHeld, EndStep
<1> DEFINE x == Len(k.buf)
           q == k.rcvd
<1>7. x \in Nat /\ n \in Nat /\ q \in Nat /\ UpLen(k, seg) \in Nat
  BY <1>0, StreamNumbers
<1>8. InSeg(seg) = <<>> /\ InSeg(seg') = Run(q, n)
  BY <1>1 DEF InSeg
<1>9. Len(InSeg(seg)) = 0 /\ Len(InSeg(seg')) = n /\ IsRun(InSeg(seg'), q)
  BY SMTT(60), <1>7, <1>8, EmptyNat, RunProperties, NewRun
<1>10. /\ toSocks <= q
       /\ ~k.socks_closed => IsRun(k.buf, toSocks) /\ toSocks + x + 0 = q
  BY <1>0, <1>2, <1>9 DEF Relays, UpHeld
<1>11. /\ k.socks_closed => UpLen(k, seg) = 0 /\ UpLen(k', seg') = 0
       /\ ~k.socks_closed => UpLen(k, seg) = x + 0 /\ UpLen(k', seg') = x + n
  BY <1>4, <1>9 DEF UpLen
<1> HIDE DEF x
<1>12. /\ toSocks <= q + n /\ q <= q + n
       /\ ~k.socks_closed => toSocks + x = q /\ toSocks + x + n = q + n /\ toSocks + x + n <= q + n
  BY <1>0, <1>7, <1>10
<1>13. UpHeld(k', seg', toSocks')
  BY <1>1, <1>3, <1>4, <1>9, <1>10, <1>12 DEF UpHeld, x
<1>14. UpStep(k, seg, toSocks, k', seg', toSocks')
  <2>1. toSocks + UpLen(k, seg) < q => k.socks_closed
    BY <1>0, <1>7, <1>10, <1>11
  <2>2. toSocks \in toSocks .. toSocks + UpLen(k, seg)
    BY <1>0, <1>7
  <2>3. k'.rcvd >= k.rcvd
    BY <1>3, <1>12
  <2>4. k.socks_closed => toSocks + UpLen(k', seg') <= toSocks + UpLen(k, seg)
    BY <1>0, <1>11
  <2> QED BY <1>1, <2>1, <2>2, <2>3, <2>4 DEF UpStep
<1> QED BY <1>5, <1>6, <1>13, <1>14 DEF Relayed, Relays, RStep

LEMMA ClosingInputRelayed ==
    ASSUME RInv, IInv', NEW a \in 0..Len(k.sndq), NEW all \in BOOLEAN, NEW data \in BOOLEAN,
           NEW fin \in BOOLEAN, ClosingInput(a, all, data, fin)
    PROVE  Relayed
<1>0. /\ k \in Connection /\ k' \in Connection /\ seg \in Segment /\ seg' \in Segment /\ IInv
      /\ toSocks \in Nat /\ toClient \in Nat /\ Relays(k, seg, toSocks, toClient)
  BY StepTypes
<1>1. /\ toSocks' = toSocks /\ toClient' = toClient + a /\ seg' = seg
      /\ k.state \in {"FIN_WAIT_1", "FIN_WAIT_2", "CLOSING", "LAST_ACK"}
  BY DEF ClosingInput
<1>2. k.client_closed
  BY <1>0, <1>1 DEF IInv, Good, PcbPart, Relays, EndHeld, Opened
<1>3. /\ k'.sndq \in {Drop(k.sndq, a), <<>>} /\ k'.peerFin = (k.peerFin \/ fin)
      /\ k'.read = k.read /\ k'.finq = k.finq /\ k'.buf = k.buf /\ k'.rbuf = k.rbuf
      /\ k'.socks_closed = k.socks_closed /\ k'.client_closed = k.client_closed /\ k'.rcvd = k.rcvd
  BY <1>0 DEF ClosingInput, Connection
<1>4. ~Up(k') /\ k'.state # "SYN_RCVD"
  BY <1>2, <1>3, StepTypes DEF Up
<1>5. DownHeld(k', toClient') /\ DownStep(k, toClient, k', toClient')
  BY <1>0, <1>1, <1>2, <1>3, DownAcked DEF Relays
<1>6. UpHeld(k', seg', toSocks') /\ UpStep(k, seg, toSocks, k', seg', toSocks')
  BY <1>0, <1>1, <1>3, <1>4, UpKept DEF Relays
<1>7. EndHeld(k', seg') /\ EndStep(k, k', toClient')
  BY <1>0, <1>1, <1>2, <1>3 DEF EndHeld, EndStep, Relays
<1> QED BY <1>5, <1>6, <1>7 DEF Relayed, Relays, RStep

\* The step moves bytes towards the application, or gives the client up.
Outward(c, r, tc) ==
    /\ DownHeld(r, tc) /\ r.read >= c.read
    /\ ~r.finq /\ r.peerFin = c.peerFin /\ r.rcvd = c.rcvd /\ r.buf = c.buf
    /\ c.socks_closed => r.socks_closed
    /\ ~r.client_closed => r.state = c.state /\ r.live = c.live /\ r.socks_closed = c.socks_closed

LEMMA OutwardStep ==
    ASSUME RInv, IInv', Up(k), Outward(k, k', toClient), toSocks' = toSocks, toClient' = toClient,
           (seg' = NoSegment /\ k'.client_closed) \/ (InSeg(seg') = InSeg(seg) /\ (seg'.fin => seg.fin))
    PROVE  Relayed
<1>0. /\ k \in Connection /\ k' \in Connection /\ seg \in Segment /\ seg' \in Segment
      /\ toSocks \in Nat /\ toClient \in Nat /\ Relays(k, seg, toSocks, toClient)
      /\ k'.client_closed => k'.state # "SYN_RCVD"
  BY StepTypes
<1>1. InSeg(seg') \in {InSeg(seg), <<>>} /\ (seg'.fin => seg.fin)
      /\ (~k'.client_closed => InSeg(seg') = InSeg(seg))
  BY DEF NoSegment, InSeg
<1>2. k'.client_closed => ~Up(k')
  BY DEF Up
<1>3. UpHeld(k', seg', toSocks) /\ UpStep(k, seg, toSocks, k', seg', toSocks)
  BY <1>0, <1>1, <1>2, UpKept DEF Outward, Relays
<1>4. DownStep(k, toClient, k', toClient)
  <2> DEFINE x == Len(k.sndq)
             y == Len(k.rbuf)
  <2>1. x \in Nat /\ y \in Nat /\ k.read \in Nat
    BY <1>0, StreamNumbers
  <2>2. DownLen(k) = x + y /\ toClient + x + y = k.read
    BY <1>0 DEF DownLen, Up, Relays, DownHeld
  <2> HIDE DEF x, y
  <2>3. toClient \in toClient .. toClient + DownLen(k) /\ ~(toClient + DownLen(k) < k.read)
    BY <1>0, <2>1, <2>2
  <2> QED BY <2>3 DEF DownStep, Outward
<1>5. EndHeld(k', seg') /\ EndStep(k, k', toClient)
  <2>1. ~k.finq
    BY <1>0 DEF Relays, EndHeld, Up
  <2>2. ~k'.client_closed => Up(k')
    BY DEF Up, Outward
  <2> QED BY <1>0, <1>1, <2>1, <2>2 DEF EndHeld, EndStep, Outward, Relays
<1> QED BY <1>3, <1>4, <1>5 DEF Relayed, Relays, RStep, Outward

\* client_socks_recv_send_out splits the run of bytes it was given.
LEMMA SendOutRelays ==
    ASSUME NEW c \in Connection, NEW tc \in Nat, DownHeld(c, tc), ~c.client_closed, ~c.finq,
           Len(c.sndq) <= SndBuf, NEW r \in Outcome
    PROVE  /\ client_socks_recv_send_out(c, r) \in Connection
           /\ Outward(c, client_socks_recv_send_out(c, r), tc)
<1> DEFINE room == Min2(Len(c.rbuf), tcp_sndbuf(c))
           n    == IF r = "mem" THEN 0 ELSE room
           w    == [c EXCEPT !.sndq = @ \o SubSeq(c.rbuf, 1, n), !.rbuf = Drop(@, n), !.pending = @ + n]
           out  == client_socks_recv_send_out(c, r)
<1> SUFFICES out \in Connection /\ Outward(c, out, tc)
  OBVIOUS
<1>1. /\ c.pending \in Nat /\ Len(c.sndq) \in Nat /\ Len(c.rbuf) \in Nat /\ c.read \in Nat
      /\ c.rbuf \in Seq(Nat) /\ c.sndq \in Seq(Nat)
  BY Numbers
<1>2. n \in 0..Len(c.rbuf) /\ n \in Nat
  <2>1. tcp_sndbuf(c) \in Nat
    BY <1>1, SizesAssumption DEF tcp_sndbuf
  <2>2. room \in Nat /\ room <= Len(c.rbuf)
    BY <1>1, <2>1, Min2Bounds
  <2>3. n \in {0, room}
    OBVIOUS
  <2> HIDE DEF room, n
  <2> QED BY <1>1, <2>2, <2>3
<1>3. out \in {client_abort_client(c), client_abort_client(w), w}
  BY DEF client_socks_recv_send_out
<1> HIDE DEF n
<1> DEFINE part == SubSeq(c.rbuf, 1, n)
           rest == Drop(c.rbuf, n)
           x == Len(c.sndq)
           y == Len(c.rbuf)
<1>4. /\ part \in Seq(Nat) /\ Len(part) = n /\ rest \in Seq(Nat) /\ Len(rest) = y - n
  BY <1>1, <1>2, DropProperties
<1>5. c.sndq \o part \in Seq(Nat) /\ Len(c.sndq \o part) = x + n
  BY <1>1, <1>4, ConcatNat
<1>6. w = [c EXCEPT !.sndq = c.sndq \o part, !.rbuf = rest, !.pending = c.pending + n]
  BY DEF Connection
<1>7. /\ IsRun(c.sndq, tc) /\ IsRun(c.rbuf, tc + x) /\ tc + x + y = c.read
  BY DEF DownHeld
<1>8. x \in Nat /\ y \in Nat /\ tc + x \in Nat
  BY <1>1, Sums
<1>9. IsRun(part, tc + x) /\ IsRun(rest, (tc + x) + n)
  BY <1>1, <1>2, <1>7, <1>8, CutRun
<1>10. IsRun(c.sndq \o part, tc)
  BY <1>1, <1>4, <1>7, <1>9, JoinRuns
<1> HIDE DEF part, rest, w, out
<1>11. w \in Connection /\ w.sndq = c.sndq \o part /\ w.rbuf = rest
  <2>1. c.pending + n \in Nat
    BY <1>1, <1>2
  <2> QED BY <1>4, <1>5, <1>6, <2>1 DEF Connection
<1>12. /\ w.live = c.live /\ w.client_closed = c.client_closed /\ w.state = c.state
       /\ w.read = c.read /\ w.rcvd = c.rcvd /\ w.buf = c.buf /\ w.finq = c.finq
       /\ w.peerFin = c.peerFin /\ w.socks_closed = c.socks_closed
  BY <1>6 DEF Connection
<1>13. DownHeld(w, tc)
  <2>1. Len(w.sndq) = x + n /\ Len(w.rbuf) = y - n
    BY <1>4, <1>5, <1>11
  <2> HIDE DEF x, y
  <2>2. /\ tc + (x + n) <= c.read /\ tc + (x + n) + (y - n) = c.read /\ tc + (x + n) = (tc + x) + n
    <3>1. n \in 0..y
      BY <1>2 DEF y
    <3> QED BY SMTT(60), <1>2, <1>7, <1>8, <3>1
  <2> QED BY <1>9, <1>10, <1>11, <1>12, <2>1, <2>2 DEF DownHeld
<1>14. ASSUME NEW v \in Connection, DownHeld(v, tc), ~v.finq, client_abort_client(v) \in Connection
       PROVE  Outward(v, client_abort_client(v), tc)
  <2> DEFINE z == client_abort_client(v)
  <2>1. Closing(v, z) /\ ~z.finq
    BY <1>14, GoneClosing
  <2> HIDE DEF z
  <2>2. DownHeld(z, tc)
    BY <1>14, <2>1, DownKept DEF Closing, z
  <2>3. z.read >= v.read
    <3>1. v.read \in Nat /\ z.read = v.read
      BY <1>14, <2>1, Numbers DEF Closing
    <3> QED BY <3>1
  <2>4. Outward(v, z, tc)
    BY <2>1, <2>2, <2>3 DEF Closing, Outward
  <2> QED BY <2>4 DEF z
<1>15. ASSUME NEW v \in Connection PROVE client_abort_client(v) \in Connection
  <2> DEFINE q == [v EXCEPT !.cb = {}]
             g == tcp_abort(q)
  <2>1. q \in Connection
    BY QuietProperties
  <2>2. g \in Connection
    BY <2>1, AbortProperties
  <2> HIDE DEF g
  <2>3. client_handle_freed_client(g) \in Connection
    BY <2>2, HandleFreedTyped
  <2> QED BY <2>3 DEF client_abort_client, g
<1>16. c.read >= c.read
  BY <1>1
<1>17. CASE out = client_abort_client(c)
  BY <1>14, <1>15, <1>17
<1>18. CASE out = w
  BY <1>11, <1>12, <1>13, <1>16, <1>18 DEF Outward
<1>19. CASE out = client_abort_client(w)
  <2>1. Outward(w, out, tc)
    BY <1>11, <1>12, <1>13, <1>14, <1>15, <1>19
  <2> QED BY <1>11, <1>12, <1>15, <1>19, <2>1 DEF Outward
<1> QED BY <1>3, <1>17, <1>18, <1>19

\* Beginning the next read moves nothing.
LEMMA InitiateOutward ==
    ASSUME NEW c, NEW x \in Connection, NEW tc \in Nat, Outward(c, x, tc)
    PROVE  Outward(c, client_socks_recv_initiate(x), tc)
<1> DEFINE y == client_socks_recv_initiate(x)
<1>1. Alike(y, x)
  BY InitiateAlike
<1> HIDE DEF y
<1>2. DownHeld(y, tc)
  BY <1>1 DEF Outward, Alike, DownHeld
<1>3. Outward(c, y, tc)
  BY <1>1, <1>2 DEF Outward, Alike
<1> QED BY <1>3 DEF y

LEMMA SentCallbackRelayed ==
    ASSUME RInv, IInv', NEW r \in Outcome, NEW mem \in BOOLEAN, SentCallback(r, mem)
    PROVE  Relayed
<1>0. /\ k \in Connection /\ k' \in Connection /\ seg \in Segment /\ seg' \in Segment /\ IInv
      /\ toSocks \in Nat /\ toClient \in Nat /\ Relays(k, seg, toSocks, toClient)
  BY StepTypes
<1>1. toSocks' = toSocks /\ toClient' = toClient /\ seg.at = "sent"
  BY DEF SentCallback
<1>2. Up(k) /\ PcbPart(k) /\ SizePart(k, seg.acked, Arrived(seg)) /\ seg.acked \in Nat
  BY <1>0, <1>1, StageFacts, Counts DEF Good, Acked
<1>3. k.state \in Opened /\ ~k.finq /\ ~k.client_closed
  BY <1>0, <1>2 DEF PcbPart, Relays, EndHeld, Up
<1>4. /\ k.pending \in Nat /\ Len(k.sndq) \in Nat /\ Len(k.sndq) <= SndBuf
      /\ k.pending = Len(k.sndq) + seg.acked
  BY <1>0, <1>2, Numbers DEF SizePart
<1> DEFINE left == k.pending - seg.acked
           c == [k EXCEPT !.pending = @ - seg.acked]
           out == client_socks_recv_send_out(c, r)
           to(stage) == seg' = [seg EXCEPT !.at = stage]
<1>5. left = Len(k.sndq) /\ left \in Nat
  BY <1>2, <1>4
<1>6. c = [k EXCEPT !.pending = left]
  BY <1>0 DEF Connection
<1>7. \/ k' = k /\ to("recv")
      \/ c.rbuf = <<>> /\ c.socks_closed /\ c.pending = 0 /\ k' = client_free_client(c, mem) /\ seg' = NoSegment
      \/ k' = c /\ to("recv")
      \/ out.client_closed /\ k' = out /\ seg' = NoSegment
      \/ k' = client_socks_recv_initiate(out) /\ to("sentSync")
      \/ k' = out /\ to("recv")
  BY DEF SentCallback, Aborted
<1>8. ASSUME NEW stage \in {"recv", "sentSync"}, to(stage)
      PROVE  InSeg(seg') = InSeg(seg) /\ (seg'.fin => seg.fin)
  <2>1. stage \in Stage
    BY DEF Stage
  <2> QED BY <1>0, <1>1, <1>8, <2>1, NextStage DEF InSeg
<1> HIDE DEF left, c, out, to
<1>9. c \in Connection /\ c.pending = left /\ Alike(c, k)
  <2>1. c \in Connection /\ c.pending = left
    BY <1>0, <1>5, <1>6 DEF Connection
  <2>2. Alike(c, k)
    BY <1>0, <1>6 DEF Connection, Alike
  <2> QED BY <2>1, <2>2
<1>10. CASE (k' = k \/ k' = c) /\ to("recv")
  <2>1. Alike(k', k)
    BY <1>9, <1>10 DEF Alike
  <2> QED BY <1>0, <1>1, <1>8, <1>10, <2>1, AlikeRelays DEF Relayed
<1>11. CASE /\ c.rbuf = <<>> /\ c.socks_closed /\ c.pending = 0
            /\ k' = client_free_client(c, mem) /\ seg' = NoSegment
  <2>1. Closing(c, k')
    BY <1>3, <1>9, <1>11, FreeClientClosing DEF Alike
  <2>2. Closing(k, k')
    BY <1>9, <2>1 DEF Closing, Alike
  <2>3. Drained(k)
    BY <1>3, <1>5, <1>9, <1>11, EmptyNat DEF Drained, Alike
  <2> QED BY <1>1, <1>11, <2>2, <2>3, ClosingStep
<1>12. out \in Connection /\ Outward(k, out, toClient)
  <2>1. DownHeld(c, toClient) /\ ~c.client_closed /\ ~c.finq /\ Len(c.sndq) <= SndBuf
    BY <1>0, <1>3, <1>4, <1>9 DEF Alike, Relays, DownHeld
  <2>2. out \in Connection /\ Outward(c, out, toClient)
    BY <1>0, <1>9, <2>1, SendOutRelays DEF out
  <2> QED BY <1>9, <2>2 DEF Outward, Alike
<1>13. CASE out.client_closed /\ k' = out /\ seg' = NoSegment
  BY <1>1, <1>2, <1>12, <1>13, OutwardStep
<1>14. CASE k' = client_socks_recv_initiate(out) /\ to("sentSync")
  <2>1. Outward(k, k', toClient)
    BY <1>0, <1>12, <1>14, InitiateOutward
  <2> QED BY <1>1, <1>2, <1>8, <1>14, <2>1, OutwardStep
<1>15. CASE k' = out /\ to("recv")
  BY <1>1, <1>2, <1>8, <1>12, <1>15, OutwardStep
<1> QED BY <1>7, <1>10, <1>11, <1>13, <1>14, <1>15

-----------------------------------------------------------------------------
(* Jobs of the SOCKS connection *)

LEMMA ServedAlike ==
    ASSUME NEW c \in Connection, c.jobs # <<>>
    PROVE  LET t == [c EXCEPT !.jobs = Tail(@)]
           IN  t \in Connection /\ Alike(t, c)
<1>1. Tail(c.jobs) \in Seq({"send", "recv"})
  <2>1. c.jobs \in Seq({"send", "recv"})
    BY DEF Connection
  <2> QED BY <2>1, HeadTailProperties
<1>2. [c EXCEPT !.jobs = Tail(@)] \in Connection
  BY <1>1 DEF Connection
<1>3. Alike([c EXCEPT !.jobs = Tail(@)], c)
  BY DEF Connection, Alike
<1> QED BY <1>2, <1>3

LEMMA ReceivedRelayed ==
    ASSUME RInv, IInv', NEW n \in 1..RecvBuf, NEW r \in Outcome, Received(n, r)
    PROVE  Relayed
<1>0. /\ k \in Connection /\ k' \in Connection /\ seg \in Segment /\ seg' \in Segment /\ IInv
      /\ toSocks \in Nat /\ toClient \in Nat /\ Relays(k, seg, toSocks, toClient)
  BY StepTypes
<1>1. toSocks' = toSocks /\ toClient' = toClient /\ seg' = seg /\ k.jobs # <<>> /\ Head(k.jobs) = "recv"
  BY DEF Received, Job
<1>2. /\ Flowing(k) /\ WorkPart(k) /\ WaitPart(k) /\ PcbPart(k)
      /\ SizePart(k, 0, Arrived(seg))
  BY <1>0, <1>1, JobFlows DEF Sound, Good
<1>3. n \in Nat /\ k.read \in Nat /\ k.read + n \in Nat /\ k.read <= k.read + n
  <2>1. n \in Nat
    BY SizesAssumption
  <2> QED BY <1>0, <2>1, Numbers, Sums
<1>4. ~k.finq
  BY <1>0, <1>2 DEF Flowing, Relays, EndHeld
<1> DEFINE t   == [k EXCEPT !.jobs = Tail(@)]
           got == [t EXCEPT !.read = @ + n]
           g   == [got EXCEPT !.rbuf = Run(t.read, n)]
           out == client_socks_recv_send_out(g, r)
<1>5. k' = IF t.client_closed THEN got
           ELSE IF ~out.client_closed /\ out.rbuf = <<>> THEN client_socks_recv_initiate(out)
           ELSE out
  BY DEF Received, client_socks_recv_handler_done
<1>6. t \in Connection /\ Alike(t, k)
  BY <1>0, <1>1, ServedAlike
<1> HIDE DEF t, out
<1> DEFINE m == k.read + n
           bytes == Run(k.read, n)
<1>7. got = [t EXCEPT !.read = m] /\ g = [t EXCEPT !.read = m, !.rbuf = bytes]
  BY <1>6 DEF Connection, Alike
<1>8. bytes \in Seq(Nat) /\ Len(bytes) = n /\ IsRun(bytes, k.read)
  BY <1>3, RunProperties, NewRun
<1> HIDE DEF got, g, bytes
<1>9. CASE k.client_closed
  <2>1. k' = got
    BY <1>5, <1>6, <1>9 DEF Alike
  <2>2. /\ k'.read = m /\ k'.rcvd = k.rcvd /\ k'.peerFin = k.peerFin /\ k'.finq = k.finq
        /\ k'.buf = k.buf /\ k'.sndq = k.sndq /\ k'.socks_closed = k.socks_closed
        /\ k'.client_closed = k.client_closed /\ k'.state = k.state
    BY <1>6, <1>7, <2>1 DEF Connection, Alike
  <2>3. UpHeld(k', seg', toSocks) /\ UpStep(k, seg, toSocks, k', seg', toSocks)
    <3>1. ~Up(k') /\ k'.state # "SYN_RCVD"
      BY <1>9, <2>2, StepTypes DEF Up
    <3> QED BY <1>0, <1>1, <2>2, <3>1, UpKept DEF Relays
  <2> DEFINE x == Len(k.sndq)
  <2>4. x \in Nat /\ IsRun(k.sndq, toClient) /\ toClient + x <= k.read /\ DownLen(k) = x /\ DownLen(k') = x
    BY <1>0, <1>9, <2>2, Numbers DEF Relays, DownHeld, DownLen
  <2> HIDE DEF x
  <2>5. toClient + x <= m /\ m >= k.read /\ toClient \in toClient .. toClient + x
    BY <1>0, <1>3, <2>4
  <2>6. DownHeld(k', toClient) /\ DownStep(k, toClient, k', toClient)
    <3>1. toClient + x <= toClient + x
      BY <1>0, <2>4
    <3>2. DownHeld(k', toClient)
      BY <1>9, <2>2, <2>4, <2>5 DEF DownHeld, x
    <3> QED BY <2>2, <2>4, <2>5, <3>1, <3>2 DEF DownStep
  <2>7. EndHeld(k', seg') /\ EndStep(k, k', toClient)
    BY <1>0, <1>1, <1>4, <1>9, <2>2 DEF EndHeld, EndStep, Relays
  <2> QED BY <1>1, <2>3, <2>6, <2>7 DEF Relayed, Relays, RStep
<1>10. CASE ~k.client_closed
  <2>1. Up(k) /\ k.rbuf = <<>>
    <3>1. Up(k)
      BY <1>2, <1>10 DEF Up, Flowing
    <3>2. Queued(k, "recv")
      <4>1. k.jobs \in Seq(Kind)
        BY <1>0 DEF Connection, Kind
      <4> QED BY <1>1, <1>2, <4>1, TailOfQueue DEF WorkPart, Queued
    <3> QED BY <1>2, <3>1, <3>2 DEF WaitPart
  <2>2. g \in Connection /\ g.read = m /\ g.rbuf = bytes
    BY <1>3, <1>6, <1>7, <1>8 DEF Connection
  <2>3. /\ g.rcvd = k.rcvd /\ g.peerFin = k.peerFin /\ g.finq = k.finq /\ g.buf = k.buf
        /\ g.sndq = k.sndq /\ g.socks_closed = k.socks_closed
        /\ g.client_closed = k.client_closed /\ g.state = k.state /\ g.live = k.live
    BY <1>6, <1>7 DEF Connection, Alike
  <2>4. DownHeld(g, toClient)
    <3> DEFINE x == Len(k.sndq)
    <3>1. /\ x \in Nat /\ IsRun(k.sndq, toClient) /\ toClient + x + 0 = k.read
      BY <1>0, <2>1, Numbers, EmptyNat DEF Relays, DownHeld, Up
    <3> HIDE DEF x
    <3>2. toClient + x = k.read /\ toClient + x + n = m /\ toClient + x <= m
      BY <1>0, <1>3, <3>1
    <3> QED BY <1>8, <2>2, <2>3, <3>1, <3>2 DEF DownHeld, x
  <2>5. out \in Connection /\ Outward(g, out, toClient)
    BY <1>0, <1>2, <1>4, <1>10, <2>2, <2>3, <2>4, SendOutRelays DEF out, SizePart
  <2>6. Outward(k, out, toClient)
    <3>1. out.read \in Nat /\ out.read >= m
      BY <2>2, <2>5, Numbers DEF Outward
    <3>2. out.read >= k.read
      BY <1>3, <3>1
    <3> QED BY <2>3, <2>5, <3>2 DEF Outward
  <2>7. Outward(k, k', toClient)
    <3>1. k' = out \/ k' = client_socks_recv_initiate(out)
      BY <1>5, <1>6, <1>10 DEF Alike
    <3> QED BY <1>0, <2>5, <2>6, <3>1, InitiateOutward
  <2> QED BY <1>1, <2>1, <2>7, OutwardStep
<1> QED BY <1>9, <1>10

\* n bytes of client->buf are written to the socket.
LEMMA UpSent ==
    ASSUME NEW c \in Connection, NEW r \in Connection, NEW s \in Segment, NEW ts \in Nat,
           NEW n \in 0..Len(c.buf), UpHeld(c, s, ts), ~c.socks_closed, r.rcvd = c.rcvd,
           ~r.socks_closed => r.buf = Drop(c.buf, n) /\ r.live = c.live /\ r.state = c.state
                              /\ r.client_closed = c.client_closed
    PROVE  UpHeld(r, s, ts + n) /\ UpStep(c, s, ts, r, s, ts + n)
<1> DEFINE x == Len(c.buf)
           y == Len(InSeg(s))
           d == Drop(c.buf, n)
<1>1. c.buf \in Seq(Nat) /\ x \in Nat /\ y \in Nat /\ c.rcvd \in Nat /\ UpLen(r, s) \in Nat
  BY StreamNumbers
<1>2. /\ IsRun(c.buf, ts) /\ IsRun(InSeg(s), ts + x) /\ ts + x + y <= c.rcvd
      /\ Up(c) \/ c.state = "SYN_RCVD" => ts + x + y = c.rcvd
  BY DEF UpHeld
<1>3. IsRun(d, ts + n) /\ Len(d) = x - n
  BY <1>1, <1>2, CutRun, DropProperties
<1>4. UpLen(c, s) = x + y /\ (r.socks_closed => UpLen(r, s) = 0)
      /\ (~r.socks_closed => UpLen(r, s) = x - n + y)
  BY <1>3 DEF UpLen
<1>5. n \in 0..x
  OBVIOUS
<1>6. ~r.socks_closed => (Up(r) <=> Up(c))
  BY DEF Up
<1> HIDE DEF x, y, d
<1>7. /\ ts + n <= c.rcvd /\ (ts + n) + (x - n) = ts + x
      /\ ts + n + (x - n) + y = ts + x + y
      /\ ts + n \in ts .. ts + (x + y) /\ c.rcvd >= c.rcvd
      /\ (ts + n) + (x - n + y) <= ts + (x + y) /\ (ts + n) + 0 <= ts + (x + y)
  BY <1>1, <1>2, <1>5
<1>8. UpHeld(r, s, ts + n)
  BY <1>2, <1>3, <1>6, <1>7 DEF UpHeld, d, y
<1>9. UpStep(c, s, ts, r, s, ts + n)
  BY <1>4, <1>7 DEF UpStep
<1> QED BY <1>8, <1>9

LEMMA SentRelayed ==
    ASSUME RInv, IInv', NEW n \in 1..TcpWnd, NEW mem \in BOOLEAN, Sent(n, mem)
    PROVE  Relayed
<1>0. /\ k \in Connection /\ k' \in Connection /\ seg \in Segment /\ seg' \in Segment /\ IInv
      /\ toSocks \in Nat /\ toClient \in Nat /\ Relays(k, seg, toSocks, toClient)
  BY StepTypes
<1>1. toSocks' = toSocks + n /\ toClient' = toClient /\ seg' = seg /\ k.jobs # <<>> /\ n <= k.sending
  BY DEF Sent, Job
<1>2. Flowing(k) /\ WorkPart(k)
  BY <1>0, <1>1, JobFlows DEF Sound, Good
<1>3. n \in 0..Len(k.buf) /\ k.buf \in Seq(Nat)
  <2>1. k.sending \in Nat /\ k.sending <= Len(k.buf) /\ Len(k.buf) \in Nat /\ k.buf \in Seq(Nat)
    BY <1>0, <1>2, Numbers DEF WorkPart
  <2> QED BY <1>1, <2>1, SizesAssumption
<1>4. ~k.finq /\ ~k.socks_closed
  BY <1>0, <1>2 DEF Flowing, Relays, EndHeld
<1> DEFINE t == [k EXCEPT !.jobs = Tail(@)]
           b == [t EXCEPT !.buf = Drop(@, n), !.sending = 0]
           x == IF t.client_closed THEN b ELSE tcp_recved(b, n)
<1>5. k' = IF x.buf # <<>> THEN client_send_to_socks(x)
           ELSE IF x.client_closed THEN client_free_socks(x, mem) ELSE x
  BY DEF Sent, client_socks_send_handler_done
<1>6. t \in Connection /\ Alike(t, k)
  BY <1>0, <1>1, ServedAlike
<1> HIDE DEF t
<1>7. Drop(k.buf, n) \in Seq(Nat)
  BY <1>3, DropProperties
<1>8. b \in Connection /\ b.buf = Drop(k.buf, n) /\ Alike([b EXCEPT !.buf = k.buf], k)
  <2>1. b \in Connection
    BY <1>6, <1>7 DEF Connection, Alike
  <2>2. b.buf = Drop(k.buf, n) /\ Alike([b EXCEPT !.buf = k.buf], k)
    BY <1>6 DEF Connection, Alike
  <2> QED BY <2>1, <2>2
<1> HIDE DEF b
<1>9. x \in Connection /\ Alike(x, b)
  <2>1. Min2(TcpWnd, b.rcv_wnd + n) \in 0..TcpWnd
    <3>1. b.rcv_wnd \in 0..TcpWnd
      BY <1>8, Numbers
    <3>2. ASSUME NEW v \in 0..TcpWnd PROVE Min2(TcpWnd, v + n) \in 0..TcpWnd
      BY SizesAssumption DEF Min2
    <3> QED BY <3>1, <3>2
  <2>2. tcp_recved(b, n) \in Connection
    BY <1>8, <2>1 DEF tcp_recved, Connection
  <2>3. Alike(tcp_recved(b, n), b)
    BY <1>8 DEF tcp_recved, Connection, Alike
  <2>4. Alike(b, b)
    BY DEF Alike
  <2> QED BY <1>8, <2>2, <2>3, <2>4
<1> HIDE DEF x
<1>10. /\ x.buf = Drop(k.buf, n)
       /\ x.rcvd = k.rcvd /\ x.read = k.read /\ x.peerFin = k.peerFin /\ x.finq = k.finq
       /\ x.rbuf = k.rbuf /\ x.sndq = k.sndq /\ x.live = k.live /\ x.state = k.state
       /\ x.socks_closed = k.socks_closed /\ x.client_closed = k.client_closed
  <2>1. Alike([b EXCEPT !.buf = k.buf], k) /\ Alike(x, b) /\ b.buf = Drop(k.buf, n)
    BY <1>8, <1>9
  <2> QED BY <1>8, <2>1 DEF Alike, Connection
<1>11. /\ k'.rcvd = k.rcvd /\ k'.read = k.read /\ k'.peerFin = k.peerFin /\ k'.finq = k.finq
       /\ k'.rbuf = k.rbuf /\ k'.sndq = k.sndq /\ k'.client_closed = k.client_closed
       /\ ~k'.socks_closed => k'.buf = Drop(k.buf, n) /\ k'.live = k.live /\ k'.state = k.state
       /\ ~k.client_closed => k'.live = k.live /\ k'.state = k.state
  <2>1. CASE k' = x \/ k' = client_send_to_socks(x)
    <3>1. Alike(k', x)
      BY <1>9, <2>1, SendAlike DEF Alike
    <3> QED BY <1>10, <3>1 DEF Alike
  <2>2. CASE k' = client_free_socks(x, mem) /\ x.client_closed
    <3>1. k' = client_dealloc(CloseSocks(x))
      BY <2>2 DEF client_free_socks
    <3>2. /\ Same(k', x) /\ k'.sndq = x.sndq /\ k'.client_closed = x.client_closed /\ k'.socks_closed
      <4> DEFINE y == client_dealloc(CloseSocks(x))
      <4>1. y.sndq = x.sndq /\ y.client_closed = x.client_closed /\ y.socks_closed
        BY <1>9 DEF client_dealloc, CloseSocks, BSocksClient_Free, Connection
      <4>2. Same(y, x)
        BY <1>9 DEF client_dealloc, CloseSocks, BSocksClient_Free, Connection, Same
      <4> QED BY <3>1, <4>1, <4>2
    <3> QED BY <1>10, <2>2, <3>2 DEF Same
  <2> QED BY <1>5, <2>1, <2>2
<1>12. UpHeld(k', seg', toSocks') /\ UpStep(k, seg, toSocks, k', seg', toSocks')
  BY <1>0, <1>1, <1>3, <1>4, <1>11, UpSent DEF Relays
<1>13. DownHeld(k', toClient') /\ DownStep(k, toClient, k', toClient')
  BY <1>0, <1>1, <1>11, DownKept DEF Relays
<1>14. EndHeld(k', seg') /\ EndStep(k, k', toClient')
  BY <1>0, <1>1, <1>4, <1>11 DEF EndHeld, EndStep, Relays, Up
<1> QED BY <1>12, <1>13, <1>14 DEF Relayed, Relays, RStep

-----------------------------------------------------------------------------
(* The refinement *)

LEMMA NextRelayed ==
    ASSUME RInv, IInv', Next
    PROVE  Relayed
<1>1. CASE Accept
  BY <1>1, AcceptRelayed
<1>2. CASE AcceptFails \/ PcbKilled \/ TimeWaitExpires
  BY <1>2, PcbGoneRelayed
<1>3. CASE Input
  BY <1>3, OpenInputRelayed, ClosingInputRelayed DEF Input
<1>4. CASE Callback
  BY <1>4, SentCallbackRelayed, RecvCallbackRelayed, FinCallbackRelayed, SyncEndRelayed DEF Callback
<1>5. CASE HandshakeDone \/ WouldBlock \/ \E events \in SUBSET {"write", "read"} : FdReady(events)
  BY <1>5, QuietRelayed
<1>6. CASE \E mem \in BOOLEAN : HandshakeError(mem) \/ IdleError(mem)
  BY <1>6, FreeSocksRelayed
<1>7. CASE Progress
  BY <1>7, SentRelayed, ReceivedRelayed, FreeSocksRelayed DEF Progress
<1>8. CASE Terminate
  BY <1>8, TerminateRelayed
<1> QED BY <1>1, <1>2, <1>3, <1>4, <1>5, <1>6, <1>7, <1>8 DEF Next

LEMMA InitRInv == Init => RInv
<1> SUFFICES ASSUME Init PROVE RInv
  OBVIOUS
<1>1. /\ k \in Connection /\ IInv
  BY InitIInv DEF IInv, TypeOK
<1>2. /\ k.rcvd = 0 /\ k.read = 0 /\ k.buf = <<>> /\ k.rbuf = <<>> /\ k.sndq = <<>> /\ ~k.finq
      /\ k.state = "SYN_RCVD" /\ toSocks = 0 /\ toClient = 0 /\ InSeg(seg) = <<>> /\ ~seg.fin
  BY DEF Init, NoSegment, InSeg
<1>3. IsRun(<<>>, 0) /\ Len(<<>>) = 0
  BY EmptyRun, EmptyNat
<1>4. UpHeld(k, seg, toSocks) /\ DownHeld(k, toClient) /\ EndHeld(k, seg)
  BY <1>2, <1>3 DEF UpHeld, DownHeld, EndHeld
<1> QED BY <1>1, <1>4 DEF RInv, Relays

\* The refinement mapping: what Relay calls up and down, and their lengths.
RelayUp(c, s) == IF c.socks_closed THEN <<>> ELSE c.buf \o InSeg(s)
RelayDown(c) == IF c.client_closed THEN c.sndq ELSE c.sndq \o c.rbuf

LEMMA MappedRuns ==
    ASSUME NEW c \in Connection, NEW s \in Segment, NEW ts \in Nat, NEW tc \in Nat, Relays(c, s, ts, tc)
    PROVE  /\ Len(RelayUp(c, s)) = UpLen(c, s) /\ IsRun(RelayUp(c, s), ts) /\ ts + UpLen(c, s) <= c.rcvd
           /\ Len(RelayDown(c)) = DownLen(c) /\ IsRun(RelayDown(c), tc) /\ tc + DownLen(c) <= c.read
<1>1. /\ c.buf \in Seq(Nat) /\ InSeg(s) \in Seq(Nat) /\ c.sndq \in Seq(Nat) /\ c.rbuf \in Seq(Nat)
      /\ Len(c.buf) \in Nat /\ Len(InSeg(s)) \in Nat /\ Len(c.sndq) \in Nat /\ Len(c.rbuf) \in Nat
      /\ c.rcvd \in Nat /\ c.read \in Nat
  BY StreamNumbers
<1>2. Len(RelayUp(c, s)) = UpLen(c, s) /\ Len(RelayDown(c)) = DownLen(c)
  BY <1>1, ConcatNat, EmptyNat DEF RelayUp, RelayDown, UpLen, DownLen
<1>3. IsRun(RelayUp(c, s), ts)
  BY <1>1, JoinRuns, EmptyRun DEF Relays, UpHeld, RelayUp
<1>4. IsRun(RelayDown(c), tc)
  BY <1>1, JoinRuns DEF Relays, DownHeld, RelayDown
<1>5. ts + UpLen(c, s) <= c.rcvd
  <2>1. CASE c.socks_closed
    BY <1>1, <2>1 DEF Relays, UpHeld, UpLen
  <2>2. CASE ~c.socks_closed
    <3>1. ts + Len(c.buf) + Len(InSeg(s)) <= c.rcvd /\ UpLen(c, s) = Len(c.buf) + Len(InSeg(s))
      BY <2>2 DEF Relays, UpHeld, UpLen
    <3> QED BY <1>1, <3>1
  <2> QED BY <2>1, <2>2
<1>6. tc + DownLen(c) <= c.read
  <2>1. CASE c.client_closed
    BY <1>1, <2>1 DEF Relays, DownHeld, DownLen
  <2>2. CASE ~c.client_closed
    <3> DEFINE x == Len(c.sndq)
               y == Len(c.rbuf)
    <3>1. x \in Nat /\ y \in Nat /\ tc + x + y = c.read /\ DownLen(c) = x + y
      BY <1>1, <2>2 DEF Relays, DownHeld, DownLen
    <3> HIDE DEF x, y
    <3> QED BY <1>1, <3>1
  <2> QED BY <2>1, <2>2
<1> QED BY <1>2, <1>3, <1>4, <1>5, <1>6

LEMMA StepIsRelayed ==
    ASSUME RInv, IInv', Relayed
    PROVE  Relay!Next
<1>0. /\ k \in Connection /\ k' \in Connection /\ seg \in Segment /\ seg' \in Segment
      /\ toSocks \in Nat /\ toClient \in Nat /\ toSocks' \in Nat /\ toClient' \in Nat
      /\ Relays(k, seg, toSocks, toClient) /\ Relays(k', seg', toSocks', toClient')
  BY StepTypes DEF Relayed
<1>1. /\ Len(RelayUp(k, seg)) = UpLen(k, seg) /\ Len(RelayDown(k)) = DownLen(k)
  BY <1>0, MappedRuns
<1>2. /\ Len(RelayUp(k', seg')) = UpLen(k', seg') /\ IsRun(RelayUp(k', seg'), toSocks')
      /\ toSocks' + UpLen(k', seg') <= k'.rcvd
      /\ Len(RelayDown(k')) = DownLen(k') /\ IsRun(RelayDown(k'), toClient')
      /\ toClient' + DownLen(k') <= k'.read
  BY <1>0, MappedRuns
<1>3. InSegment = InSeg(seg) /\ InSegment' = InSeg(seg')
  BY DEF InSegment, InSeg
<1>4. Relay!Up
  BY <1>1, <1>2, <1>3 DEF Relay!Up, Relay!Run, Run, IsRun, RelayUp, Relayed, RStep, UpStep
<1>5. Relay!Down
  BY <1>1, <1>2 DEF Relay!Down, Relay!Run, Run, IsRun, RelayDown, Relayed, RStep, DownStep
<1>6. Relay!End
  BY <1>2 DEF Relay!End, RelayDown, Relayed, RStep, EndStep
<1> QED BY <1>4, <1>5, <1>6 DEF Relay!Next

LEMMA InitIsRelayed == Init => Relay!Init
<1> SUFFICES ASSUME Init PROVE Relay!Init
  OBVIOUS
<1>1. /\ k.rcvd = 0 /\ k.read = 0 /\ k.buf = <<>> /\ k.rbuf = <<>> /\ k.sndq = <<>> /\ k.finq = FALSE
      /\ k.peerFin = FALSE /\ toSocks = 0 /\ toClient = 0 /\ InSegment = <<>>
  BY DEF Init, NoSegment, InSegment
<1>2. <<>> \o <<>> = <<>>
  <2>1. <<>> \o <<>> \in Seq(Nat) /\ Len(<<>> \o <<>>) = 0 + 0
    BY EmptyNat, ConcatNat
  <2>2. 0 + 0 = 0
    OBVIOUS
  <2> QED BY <2>1, <2>2, EmptyNat
<1> QED BY <1>1, <1>2 DEF Relay!Init

LEMMA StutterIsRelayed == UNCHANGED vars => UNCHANGED Relay!relayVars
<1> SUFFICES ASSUME UNCHANGED vars PROVE UNCHANGED Relay!relayVars
  OBVIOUS
<1>1. k' = k /\ seg' = seg /\ toSocks' = toSocks /\ toClient' = toClient /\ InSegment' = InSegment
  BY DEF vars, InSegment
<1> QED BY <1>1 DEF Relay!relayVars

LEMMA NextRInv == RInv /\ [Next]_vars => RInv'
<1> SUFFICES ASSUME RInv, [Next]_vars PROVE RInv'
  OBVIOUS
<1>1. IInv'
  BY NextIInv DEF RInv
<1>2. CASE Next
  BY <1>1, <1>2, NextRelayed DEF RInv, Relayed
<1>3. CASE UNCHANGED vars
  BY <1>1, <1>3 DEF RInv, vars
<1> QED BY <1>2, <1>3

\* In every reachable state the buffers hold consecutive bytes: those for SOCKS
\* follow the bytes already written, those for the application the bytes it
\* acknowledged.
THEOREM StreamsAreRuns == Spec => []RInv
<1>1. Init => RInv
  BY InitRInv
<1>2. RInv /\ [Next]_vars => RInv'
  BY NextRInv
<1> QED BY <1>1, <1>2, PTL DEF Spec

\* A connection of tun2socks implements the two byte streams of ByteRelay, for
\* all sizes of the window and the buffers: whatever the callbacks of lwIP and
\* the jobs of the socket do, no byte is repeated, reordered or lost in the
\* middle of a stream, and the FIN towards the application follows the last
\* byte of the SOCKS server unless the application finished first.
THEOREM RelayIsImplemented == Spec => RelaySpec
<1>1. Init => Relay!Init
  BY InitIsRelayed
<1>2. RInv /\ RInv' /\ [Next]_vars => [Relay!Next]_(Relay!relayVars)
  <2> SUFFICES ASSUME RInv, RInv', [Next]_vars PROVE [Relay!Next]_(Relay!relayVars)
    OBVIOUS
  <2>1. IInv'
    BY DEF RInv
  <2>2. CASE Next
    BY <2>1, <2>2, NextRelayed, StepIsRelayed
  <2>3. CASE UNCHANGED vars
    BY <2>3, StutterIsRelayed
  <2> QED BY <2>2, <2>3
<1> QED BY <1>1, <1>2, StreamsAreRuns, PTL DEF Spec, RelaySpec, Relay!Spec
=============================================================================
