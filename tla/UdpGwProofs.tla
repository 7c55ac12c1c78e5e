------------------------------ MODULE UdpGwProofs ------------------------------
(***************************************************************************)
(* Proofs about UdpGw for every set of flows and every size of the tables, *)
(* buffers and streams of the client and of the server.                    *)
(***************************************************************************)
EXTENDS UdpGw, FiniteSetTheorems, SequenceTheorems, WellFoundedInduction, TLAPS

USE SizesAssumption

-----------------------------------------------------------------------------
(* The inductive invariant *)

\* The stream: who may hold packets, and how many clients the server has.
StreamPart ==
    /\ socks.freed => ~socks.have /\ ~socks.timer
    /\ link = "none" => up = <<>>
    /\ link \in {"none", "open"} => down = <<>>
    /\ link # "accepted" => srv = <<>> /\ sending = None
    /\ link = "accepted" => stale < MaxClients

\* A datagram in flight under a conid was meant for the remote address it
\* carries, by the only conaddr that ever had that conid unless one was reused.
Carried(conid, remote, data) ==
    /\ data.remote = remote
    /\ \E i \in DOMAIN cons : cons[i].conid = conid /\ (~reused => cons[i].conaddr = data)

\* The same of a packet or of an answer.
InOrder(p) == Carried(p.conid, p.remote, p.data)

\* What waits in connection con of the client was meant for the remote address it
\* carries, and is con's own unless a conid was reused.
OwnQueue(con, again) ==
    \A n \in DOMAIN con.queue :
        /\ con.queue[n].data.remote = con.queue[n].remote
        /\ ~again => con.queue[n].data = con.conaddr

\* The datagrams wherever they are: waiting in the client, in the stream, at the
\* server, on their way back.
FlightPart ==
    /\ \A i \in DOMAIN cons : OwnQueue(cons[i], reused)
    /\ \A n \in DOMAIN up : up[n] # Keepalive => InOrder(up[n])
    /\ \A i \in DOMAIN srv :
          /\ \A a \in srv[i].asked : Carried(srv[i].conid, srv[i].orig, a)
          /\ \A n \in DOMAIN srv[i].out : InOrder(srv[i].out[n])
    /\ sending # None => InOrder(sending.packet)
    /\ \A n \in DOMAIN down : InOrder(down[n])

IInv == TypeOK /\ SocksOrTimer /\ StreamPart /\ TreesAgree /\ ServerTable /\ FlightPart

-----------------------------------------------------------------------------
(* Operators *)

LEMMA LeastNatural ==
    ASSUME NEW T \in SUBSET Nat, T # {}
    PROVE  \E x \in T : \A y \in T : x <= y
<1>1. PICK x \in T : \A y \in T : ~(<<y, x>> \in OpToRel(<, Nat))
  BY WFMin, NatLessThanWellFounded, Zenon
<1>2. ASSUME NEW y \in T PROVE x <= y
  <2>1. <<y, x>> \in Nat \X Nat
    OBVIOUS
  <2>2. ~(y < x)
    BY <1>1, <2>1 DEF OpToRel
  <2> QED
    BY <2>2
<1> QED
  BY <1>2

\* A table that is not full leaves a conid free.
LEMMA SomeConidIsFree ==
    ASSUME TypeOK, Len(cons) < max_connections
    PROVE  \E id \in Conid : ~Used(id)
<1> SUFFICES ASSUME \A id \in Conid : Used(id)
             PROVE  FALSE
  OBVIOUS
<1> DEFINE f == [id \in Conid |-> CHOOSE i \in DOMAIN cons : cons[i].conid = id]
<1>1. Len(cons) \in Nat /\ DOMAIN cons = 1..Len(cons)
  BY DEF TypeOK
<1>2. \A id \in Conid : f[id] \in DOMAIN cons /\ cons[f[id]].conid = id
  BY DEF Used
<1>3. f \in [Conid -> DOMAIN cons]
  BY <1>2
<1>4. /\ IsFiniteSet(Conid) /\ Cardinality(Conid) = max_connections
      /\ IsFiniteSet(DOMAIN cons) /\ Cardinality(DOMAIN cons) = Len(cons)
  <2>1. /\ IsFiniteSet(0..max_connections - 1)
        /\ Cardinality(0..max_connections - 1) =
             IF 0 > max_connections - 1 THEN 0 ELSE max_connections - 1 - 0 + 1
    <3>1. 0 \in Int /\ max_connections - 1 \in Int
      OBVIOUS
    <3> QED
      BY ONLY <3>1, FS_Interval, Zenon
  <2>2. /\ IsFiniteSet(1..Len(cons))
        /\ Cardinality(1..Len(cons)) = IF 1 > Len(cons) THEN 0 ELSE Len(cons) - 1 + 1
    <3>1. 1 \in Int /\ Len(cons) \in Int
      BY <1>1
    <3> QED
      BY ONLY <3>1, FS_Interval, Zenon
  <2> QED
    BY <2>1, <2>2, <1>1 DEF Conid
<1> HIDE DEF f
<1>5. \E x, y \in Conid : x # y /\ f[x] = f[y]
  BY <1>3, <1>4, FS_PigeonHole
<1> QED
  BY <1>2, <1>5

\* find_unused_conid returns a conid, and no connection has it.
LEMMA UnusedConid ==
    ASSUME TypeOK, Len(cons) < max_connections
    PROVE  find_unused_conid \in Conid /\ ~Used(find_unused_conid)
<1> DEFINE at(d) == (next_conid + d) % max_connections
           free == {d \in Conid : ~Used(at(d))}
           Fits(d) == ~Used(at(d)) /\ \A e \in Conid : e < d => Used(at(e))
           first == CHOOSE d \in Conid : Fits(d)
<1>1. next_conid \in Conid /\ Conid \subseteq Nat
  BY DEF TypeOK, Conid
<1>2. \A d \in Nat : at(d) \in Conid
  BY <1>1 DEF Conid
<1>3. PICK id \in Conid : ~Used(id)
  BY SomeConidIsFree
<1>4. \E d \in Conid : at(d) = id
  <2>1. CASE id >= next_conid
    <3>1. id - next_conid \in Conid
      BY <2>1, <1>1, <1>3 DEF Conid
    <3>2. at(id - next_conid) = id
      BY <2>1, <1>1, <1>3 DEF Conid
    <3> QED
      BY <3>1, <3>2
  <2>2. CASE id < next_conid
    <3>1. id - next_conid + max_connections \in Conid
      BY <2>2, <1>1, <1>3 DEF Conid
    <3>2. at(id - next_conid + max_connections) = (id + max_connections) % max_connections
      BY <2>2, <1>1, <1>3 DEF Conid
    <3>3. (id + max_connections) % max_connections = id
      BY <1>3 DEF Conid
    <3> QED
      BY <3>1, <3>2, <3>3
  <2> QED
    BY <2>1, <2>2, <1>1, <1>3 DEF Conid
<1>5. free \in SUBSET Nat /\ free # {}
  BY <1>1, <1>3, <1>4
<1>6. PICK d \in free : \A e \in free : d <= e
  BY <1>5, LeastNatural
<1>7. d \in Conid /\ Fits(d)
  <2>1. \A e \in Conid : e < d => e \notin free
    BY <1>1, <1>6
  <2> QED
    BY <1>6, <2>1
<1>8. first \in Conid /\ Fits(first)
  BY <1>7
<1>9. find_unused_conid = at(first)
  BY DEF find_unused_conid
<1> HIDE DEF first
<1> QED
  BY <1>1, <1>2, <1>8, <1>9

\* What is left without the i-th element, place by place.
LEMMA WithoutIsTheRest ==
    ASSUME NEW S, NEW s \in Seq(S), NEW i \in DOMAIN s
    PROVE  /\ Without(s, i) \in Seq(S)
           /\ Len(Without(s, i)) = Len(s) - 1
           /\ \A k \in 1..Len(s) - 1 : Without(s, i)[k] = IF k < i THEN s[k] ELSE s[k + 1]
<1> DEFINE a == SubSeq(s, 1, i - 1)
           b == SubSeq(s, i + 1, Len(s))
<1>1. i \in 1..Len(s) /\ Len(s) \in Nat
  OBVIOUS
<1>2. a \in Seq(S) /\ Len(a) = i - 1 /\ \A k \in 1..i - 1 : a[k] = s[k]
  BY <1>1, SubSeqProperties
<1>3. b \in Seq(S) /\ Len(b) = Len(s) - i /\ \A k \in 1..Len(s) - i : b[k] = s[i + k]
  BY <1>1, SubSeqProperties
<1> HIDE DEF a, b
<1>4. /\ a \o b \in Seq(S) /\ Len(a \o b) = Len(a) + Len(b)
      /\ \A k \in 1..Len(a) + Len(b) : (a \o b)[k] = IF k <= Len(a) THEN a[k] ELSE b[k - Len(a)]
  BY ZenonT(60), <1>2, <1>3, ConcatProperties
<1>5. Without(s, i) = a \o b
  BY DEF Without, a, b
<1>6. Len(a \o b) = Len(s) - 1
  BY <1>1, <1>2, <1>3, <1>4
<1>7. ASSUME NEW k \in 1..Len(s) - 1
      PROVE  (a \o b)[k] = IF k < i THEN s[k] ELSE s[k + 1]
  <2>1. k \in 1..Len(a) + Len(b)
    BY <1>1, <1>2, <1>3
  <2>2. CASE k < i
    BY <1>1, <1>2, <1>4, <2>1, <2>2
  <2>3. CASE ~(k < i)
    <3>1. (a \o b)[k] = b[k - Len(a)]
      BY <1>1, <1>2, <1>4, <2>1, <2>3
    <3>2. k - Len(a) \in 1..Len(s) - i /\ i + (k - Len(a)) = k + 1
      BY <1>1, <1>2, <2>3
    <3> QED
      BY <1>3, <2>3, <3>1, <3>2
  <2> QED
    BY <2>2, <2>3
<1> QED
  BY <1>4, <1>5, <1>6, <1>7

\* g is where the elements of w were in s: all but the i-th are still there, once.
Remains(s, i, w, g) ==
    /\ g \in [DOMAIN w -> DOMAIN s \ {i}]
    /\ \A k \in DOMAIN w : w[k] = s[g[k]]
    /\ \A k, l \in DOMAIN w : g[k] = g[l] => k = l
    /\ \A j \in DOMAIN s \ {i} : \E k \in DOMAIN w : g[k] = j

\* g is where the elements of t were in s, with x for the i-th.
Reorders(s, i, x, t, g) ==
    /\ DOMAIN t = DOMAIN s /\ g \in [DOMAIN s -> DOMAIN s]
    /\ \A k \in DOMAIN s : t[k] = IF g[k] = i THEN x ELSE s[g[k]]
    /\ \A k, l \in DOMAIN s : g[k] = g[l] => k = l
    /\ \A j \in DOMAIN s : \E k \in DOMAIN s : g[k] = j

\* A removal keeps every other element.
LEMMA WithoutKeeps ==
    ASSUME NEW S, NEW s \in Seq(S), NEW i \in DOMAIN s
    PROVE  /\ Without(s, i) \in Seq(S) /\ Len(Without(s, i)) = Len(s) - 1
           /\ \E g : Remains(s, i, Without(s, i), g)
<1> DEFINE w == Without(s, i)
           g == [k \in DOMAIN w |-> IF k < i THEN k ELSE k + 1]
<1>1. /\ w \in Seq(S) /\ Len(w) = Len(s) - 1
      /\ \A k \in 1..Len(s) - 1 : w[k] = IF k < i THEN s[k] ELSE s[k + 1]
  BY WithoutIsTheRest
<1> HIDE DEF w
<1>2. i \in 1..Len(s) /\ Len(s) \in Nat /\ DOMAIN s = 1..Len(s) /\ DOMAIN w = 1..Len(s) - 1
  BY <1>1
<1>3. \A k \in DOMAIN w : g[k] = (IF k < i THEN k ELSE k + 1) /\ g[k] \in DOMAIN s \ {i}
  BY <1>2
<1>4. g \in [DOMAIN w -> DOMAIN s \ {i}]
  BY <1>3
<1>5. \A k \in DOMAIN w : w[k] = s[g[k]]
  BY <1>1, <1>2, <1>3
<1>6. \A k, l \in DOMAIN w : g[k] = g[l] => k = l
  BY <1>2, <1>3
<1>7. ASSUME NEW j \in DOMAIN s \ {i} PROVE \E k \in DOMAIN w : g[k] = j
  <2>1. CASE j < i
    <3>1. j \in DOMAIN w /\ g[j] = j
      BY <1>2, <1>3, <2>1
    <3> QED
      BY <3>1
  <2>2. CASE ~(j < i)
    <3>1. j - 1 \in DOMAIN w /\ ~(j - 1 < i) /\ j - 1 + 1 = j
      BY <1>2, <2>2
    <3>2. g[j - 1] = j
      BY <1>3, <3>1
    <3> QED
      BY <3>1, <3>2
  <2> QED
    BY <2>1, <2>2
<1> HIDE DEF g
<1>8. Remains(s, i, w, g)
  BY <1>4, <1>5, <1>6, <1>7 DEF Remains
<1> QED
  BY <1>1, <1>8 DEF w

\* A move to the end reorders the elements, and puts x where the i-th was.
LEMMA MoveReorders ==
    ASSUME NEW S, NEW s \in Seq(S), NEW i \in DOMAIN s, NEW x \in S
    PROVE  /\ MovedToEnd(s, i, x) \in Seq(S) /\ Len(MovedToEnd(s, i, x)) = Len(s)
           /\ \E g : Reorders(s, i, x, MovedToEnd(s, i, x), g)
<1> DEFINE w == Without(s, i)
           t == Append(w, x)
<1>1. w \in Seq(S) /\ Len(w) = Len(s) - 1
  BY WithoutKeeps
<1>2. PICK h : Remains(s, i, w, h)
  BY WithoutKeeps
<1> HIDE DEF w
<1>3. Len(s) \in Nat /\ DOMAIN s = 1..Len(s) /\ DOMAIN w = 1..Len(s) - 1 /\ i \in 1..Len(s)
  BY <1>1
<1>4. /\ t \in Seq(S) /\ Len(t) = Len(s)
      /\ \A k \in 1..Len(w) : t[k] = w[k]
      /\ t[Len(w) + 1] = x
  BY <1>1, <1>3, AppendProperties
<1> HIDE DEF t
<1>5. DOMAIN t = DOMAIN s
  BY <1>3, <1>4
<1> DEFINE g == [k \in DOMAIN s |-> IF k \in DOMAIN w THEN h[k] ELSE i]
<1>6. \A k \in DOMAIN s : g[k] = IF k \in DOMAIN w THEN h[k] ELSE i
  OBVIOUS
<1>7. g \in [DOMAIN s -> DOMAIN s]
  BY <1>2 DEF Remains
<1> HIDE DEF g
<1>8. \A k \in DOMAIN s : k \notin DOMAIN w => k = Len(s)
  BY <1>3
<1>9. \A k \in DOMAIN s : t[k] = IF g[k] = i THEN x ELSE s[g[k]]
  <2> SUFFICES ASSUME NEW k \in DOMAIN s
               PROVE  t[k] = IF g[k] = i THEN x ELSE s[g[k]]
    OBVIOUS
  <2>1. CASE k \in DOMAIN w
    <3>1. t[k] = w[k]
      BY <1>1, <1>3, <1>4, <2>1
    <3>2. g[k] = h[k] /\ h[k] # i
      BY <1>2, <1>6, <2>1 DEF Remains
    <3> QED
      BY <1>2, <2>1, <3>1, <3>2 DEF Remains
  <2>2. CASE k \notin DOMAIN w
    <3>1. k = Len(w) + 1
      BY <1>1, <1>3, <1>8, <2>2
    <3> QED
      BY <1>4, <1>6, <2>2, <3>1
  <2> QED
    BY <2>1, <2>2
<1>10. \A k, l \in DOMAIN s : g[k] = g[l] => k = l
  BY <1>2, <1>6, <1>8 DEF Remains
<1>11. \A j \in DOMAIN s : \E k \in DOMAIN s : g[k] = j
  <2> SUFFICES ASSUME NEW j \in DOMAIN s PROVE \E k \in DOMAIN s : g[k] = j
    OBVIOUS
  <2>1. CASE j = i
    <3>1. Len(s) \in DOMAIN s /\ Len(s) \notin DOMAIN w
      BY <1>3
    <3> QED
      BY <1>6, <2>1, <3>1
  <2>2. CASE j # i
    <3>1. PICK k \in DOMAIN w : h[k] = j
      BY <1>2, <2>2 DEF Remains
    <3>2. k \in DOMAIN s
      BY <1>3
    <3> QED
      BY <1>6, <3>1, <3>2
  <2> QED
    BY <2>1, <2>2
<1>12. Reorders(s, i, x, t, g)
  BY <1>5, <1>7, <1>9, <1>10, <1>11 DEF Reorders
<1>13. MovedToEnd(s, i, x) = t
  BY DEF MovedToEnd, t, w
<1> QED
  BY <1>4, <1>12, <1>13

LEMMA AppendElements ==
    ASSUME NEW S, NEW s \in Seq(S), NEW x \in S
    PROVE  /\ Append(s, x) \in Seq(S) /\ Len(Append(s, x)) = Len(s) + 1
           /\ \A n \in DOMAIN s : n \in DOMAIN Append(s, x) /\ Append(s, x)[n] = s[n]
           /\ \A n \in DOMAIN Append(s, x) :
                 \/ n \in DOMAIN s /\ Append(s, x)[n] = s[n]
                 \/ n \notin DOMAIN s /\ n = Len(s) + 1 /\ Append(s, x)[n] = x
<1> DEFINE t == Append(s, x)
<1>1. /\ t \in Seq(S) /\ Len(t) = Len(s) + 1
      /\ \A n \in 1..Len(s) : t[n] = s[n]
      /\ t[Len(s) + 1] = x
  BY AppendProperties
<1> HIDE DEF t
<1>2. Len(s) \in Nat /\ DOMAIN s = 1..Len(s) /\ DOMAIN t = 1..Len(s) + 1
  BY <1>1
<1>3. /\ \A n \in DOMAIN s : n \in DOMAIN t /\ t[n] = s[n]
      /\ \A n \in DOMAIN t : \/ n \in DOMAIN s /\ t[n] = s[n]
                             \/ n \notin DOMAIN s /\ n = Len(s) + 1 /\ t[n] = x
  BY <1>1, <1>2
<1> QED
  BY <1>1, <1>3 DEF t

LEMMA TailElements ==
    ASSUME NEW S, NEW s \in Seq(S), s # <<>>
    PROVE  /\ Head(s) \in S /\ 1 \in DOMAIN s /\ Head(s) = s[1]
           /\ Tail(s) \in Seq(S) /\ Len(Tail(s)) = Len(s) - 1
           /\ \A n \in DOMAIN Tail(s) : \E m \in DOMAIN s : Tail(s)[n] = s[m]
<1> DEFINE t == Tail(s)
<1>1. /\ Head(s) \in S /\ t \in Seq(S) /\ Len(t) = Len(s) - 1
      /\ \A n \in 1..Len(t) : t[n] = s[n + 1]
  BY HeadTailProperties
<1>2. Head(s) = s[1] /\ 1 \in DOMAIN s
  OBVIOUS
<1> HIDE DEF t
<1>3. ASSUME NEW n \in DOMAIN t PROVE \E m \in DOMAIN s : t[n] = s[m]
  <2>1. n \in 1..Len(t) /\ n + 1 \in DOMAIN s
    BY <1>1
  <2> QED
    BY <1>1, <2>1
<1> QED
  BY <1>1, <1>2, <1>3 DEF t

-----------------------------------------------------------------------------
(* The table of the client *)

\* No datagram in flight loses its connection.
FlightIsKept == \A conid, remote, data : Carried(conid, remote, data) => Carried(conid, remote, data)'

LEMMA SameTableKeepsFlight ==
    ASSUME UNCHANGED <<cons, reused>>
    PROVE  FlightIsKept
BY DEF FlightIsKept, Carried

\* A connection whose packets are its own.
Owner(con, again) == OwnQueue(con, again) /\ \A n \in DOMAIN con.queue : con.queue[n].conid = con.conid

LEMMA TableOfOwners ==
    ASSUME IInv, NEW i \in DOMAIN cons
    PROVE  cons[i] \in Connection /\ Owner(cons[i], reused)
BY DEF IInv, TypeOK, TreesAgree, FlightPart, Owner

\* connection_send queues one packet, made from the connection, or none.
LEMMA SendMakesPacket ==
    ASSUME NEW con \in Connection, NEW flag \in {"none", "rebind"}, NEW again,
           Owner(con, again)
    PROVE  /\ connection_send(con, flag) \in Connection
           /\ connection_send(con, flag).conid = con.conid
           /\ connection_send(con, flag).conaddr = con.conaddr
           /\ Owner(connection_send(con, flag), again)
<1> DEFINE p == [flag |-> flag, conid |-> con.conid, remote |-> con.conaddr.remote,
                 data |-> con.conaddr]
           q == Append(con.queue, p)
           new == [con EXCEPT !.queue = q]
<1>1. con.queue \in Seq(Packet) /\ con.conid \in Conid /\ con.conaddr \in Conaddr
  BY DEF Connection
<1>2. p \in Packet
  BY <1>1 DEF Packet, Conaddr
<1>3. q \in Seq(Packet) /\ \A n \in DOMAIN q : q[n] = p \/ (n \in DOMAIN con.queue /\ q[n] = con.queue[n])
  <2>1. /\ q \in Seq(Packet) /\ Len(q) = Len(con.queue) + 1
        /\ \A n \in 1..Len(con.queue) : q[n] = con.queue[n]
        /\ q[Len(con.queue) + 1] = p
    BY <1>1, <1>2, AppendProperties
  <2>2. DOMAIN q = 1..Len(con.queue) + 1 /\ DOMAIN con.queue = 1..Len(con.queue) /\ Len(con.queue) \in Nat
    BY <1>1, <2>1
  <2> QED
    BY <2>1, <2>2
<1> HIDE DEF q
<1>4. new \in Connection /\ new.conid = con.conid /\ new.conaddr = con.conaddr /\ new.queue = q
  BY <1>1, <1>3 DEF Connection
<1>5. p.conid = con.conid /\ p.data = con.conaddr /\ p.data.remote = p.remote
  OBVIOUS
<1> HIDE DEF p
<1>6. connection_send(con, flag) = IF Len(con.queue) = SendBuffer THEN con ELSE new
  BY DEF connection_send, q, p
<1> HIDE DEF new
<1>7. Owner(new, again)
  BY <1>3, <1>4, <1>5 DEF Owner, OwnQueue
<1> QED
  BY <1>4, <1>6, <1>7

\* Connection i becomes con and moves to the end of the list: the trees keep
\* agreeing if con keeps its conid and has a conaddr of its own, and a changed
\* conaddr is a reuse.
LEMMA MoveKeepsTable ==
    ASSUME IInv, NEW i \in DOMAIN cons, NEW con \in Connection,
           cons' = MovedToEnd(cons, i, con), con.conid = cons[i].conid,
           \/ con.conaddr = cons[i].conaddr /\ UNCHANGED reused
           \/ ~Has(con.conaddr) /\ reused' = TRUE,
           Owner(con, reused)'
    PROVE  /\ cons' \in Seq(Connection) /\ TreesAgree' /\ FlightIsKept
           /\ \A k \in DOMAIN cons' : OwnQueue(cons[k], reused)'
<1>1. cons \in Seq(Connection) /\ reused \in BOOLEAN
  BY DEF IInv, TypeOK
<1>2. cons' \in Seq(Connection) /\ Len(cons') = Len(cons)
  BY <1>1, MoveReorders
<1>3. PICK g : Reorders(cons, i, con, cons', g)
  BY <1>1, MoveReorders
<1>4. \A k \in DOMAIN cons : Owner(cons[k], reused)
  BY TableOfOwners
<1>5. DOMAIN cons' = DOMAIN cons /\ \A k \in DOMAIN cons :
         /\ g[k] \in DOMAIN cons
         /\ cons'[k] = IF g[k] = i THEN con ELSE cons[g[k]]
  BY <1>3 DEF Reorders
<1>6. \A k \in DOMAIN cons : cons'[k].conid = cons[g[k]].conid
  BY <1>5
<1>7. ASSUME NEW k \in DOMAIN cons PROVE Owner(cons[k], reused)'
  <2>1. CASE g[k] = i
    BY <1>5, <2>1 DEF Owner, OwnQueue
  <2>2. CASE g[k] # i
    <3>1. cons'[k] = cons[g[k]] /\ Owner(cons[g[k]], reused) /\ (reused => reused')
      BY <1>4, <1>5, <2>2
    <3> QED
      BY <3>1 DEF Owner, OwnQueue
  <2> QED
    BY <2>1, <2>2
<1>8. TreesAgree'
  <2>1. Len(cons') <= max_connections
    BY <1>2 DEF IInv, TreesAgree
  <2>2. ASSUME NEW k \in DOMAIN cons, NEW l \in DOMAIN cons, k # l
        PROVE  cons'[k].conid # cons'[l].conid /\ cons'[k].conaddr # cons'[l].conaddr
    <3>1. g[k] # g[l]
      BY <1>3, <2>2 DEF Reorders
    <3>2. /\ cons[g[k]].conid # cons[g[l]].conid
          /\ cons[g[k]].conaddr # cons[g[l]].conaddr
      BY <1>5, <3>1 DEF IInv, TreesAgree
    <3>3. cons'[k].conid # cons'[l].conid
      BY <1>6, <3>2
    <3>4. CASE con.conaddr = cons[i].conaddr
      BY <1>5, <3>2, <3>4
    <3>5. CASE ~Has(con.conaddr)
      BY <1>5, <3>1, <3>2, <3>5 DEF Has
    <3> QED
      BY <3>3, <3>4, <3>5
  <2>3. \A k \in DOMAIN cons' : \A n \in DOMAIN cons'[k].queue : cons'[k].queue[n].conid = cons'[k].conid
    BY <1>5, <1>7 DEF Owner
  <2>4. \A k, l \in DOMAIN cons' : k # l => /\ cons'[k].conid # cons'[l].conid
                                            /\ cons'[k].conaddr # cons'[l].conaddr
    BY <1>5, <2>2
  <2> QED
    BY <2>1, <2>3, <2>4 DEF TreesAgree
<1>9. FlightIsKept
  <2> SUFFICES ASSUME NEW conid, NEW remote, NEW data, Carried(conid, remote, data)
               PROVE  Carried(conid, remote, data)'
    BY DEF FlightIsKept
  <2>1. PICK j \in DOMAIN cons : cons[j].conid = conid /\ (~reused => cons[j].conaddr = data)
    BY DEF Carried
  <2>2. PICK k \in DOMAIN cons : g[k] = j
    BY <1>3 DEF Reorders
  <2>3. cons'[k].conid = conid
    BY <1>6, <2>1, <2>2
  <2>4. ~reused' => cons'[k].conaddr = data
    BY <1>1, <1>5, <2>1, <2>2
  <2> QED
    BY <1>5, <2>3, <2>4 DEF Carried
<1> QED
  BY <1>2, <1>5, <1>7, <1>8, <1>9 DEF Owner

\* A step that only changes the table of the client.
LEMMA TableStep ==
    ASSUME IInv, cons' \in Seq(Connection), TreesAgree', FlightIsKept,
           \A k \in DOMAIN cons' : OwnQueue(cons[k], reused)',
           next_conid' \in Conid, reused' \in BOOLEAN, submits' \in 0..MaxSubmits,
           keepalive_sending' \in BOOLEAN,
           UNCHANGED <<socks, link, up, down, srv, sending, stale>>
    PROVE  IInv'
<1>1. TypeOK'
  BY DEF IInv, TypeOK
<1>2. SocksOrTimer' /\ StreamPart' /\ ServerTable'
  BY DEF IInv, SocksOrTimer, StreamPart, ServerTable
<1>3. FlightPart'
  BY DEF IInv, FlightPart, FlightIsKept, InOrder
<1> QED
  BY <1>1, <1>2, <1>3 DEF IInv

LEMMA SubmitExistingStep ==
    ASSUME IInv, NEW conaddr \in Flows, SubmitExisting(conaddr), submits' \in 0..MaxSubmits
    PROVE  IInv'
<1>1. PICK i \in DOMAIN cons : cons' = MovedToEnd(cons, i, connection_send(cons[i], "none"))
  BY DEF SubmitExisting
<1>2. /\ UNCHANGED <<next_conid, keepalive_sending, socks, link, up, down, srv, sending, stale, reused>>
      /\ next_conid' \in Conid /\ reused' \in BOOLEAN /\ keepalive_sending' \in BOOLEAN
  BY DEF SubmitExisting, IInv, TypeOK
<1>3. PICK con : con = connection_send(cons[i], "none")
  OBVIOUS
<1>4. con \in Connection /\ con.conid = cons[i].conid /\ con.conaddr = cons[i].conaddr /\ Owner(con, reused)
  BY <1>3, TableOfOwners, SendMakesPacket
<1>5. Owner(con, reused)'
  BY <1>2, <1>4 DEF Owner, OwnQueue
<1>6. /\ cons' \in Seq(Connection) /\ TreesAgree' /\ FlightIsKept
      /\ \A k \in DOMAIN cons' : OwnQueue(cons[k], reused)'
  BY <1>1, <1>2, <1>3, <1>4, <1>5, MoveKeepsTable
<1> QED
  BY <1>2, <1>6, TableStep

LEMMA SubmitReuseStep ==
    ASSUME IInv, NEW conaddr \in Flows, SubmitReuse(conaddr), submits' \in 0..MaxSubmits
    PROVE  IInv'
<1> USE FlowsAssumption
<1>1. /\ ~Has(conaddr) /\ Len(cons) = max_connections /\ reused' = TRUE
      /\ cons' = MovedToEnd(cons, 1, connection_send([cons[1] EXCEPT !.conaddr = conaddr], "rebind"))
      /\ UNCHANGED <<next_conid, keepalive_sending, socks, link, up, down, srv, sending, stale>>
      /\ next_conid' \in Conid /\ keepalive_sending' \in BOOLEAN
  BY DEF SubmitReuse, IInv, TypeOK
<1>2. 1 \in DOMAIN cons
  BY <1>1 DEF IInv, TypeOK
<1>3. PICK c, con : /\ c = [cons[1] EXCEPT !.conaddr = conaddr]
                    /\ con = connection_send(c, "rebind")
  OBVIOUS
<1>4. cons[1] \in Connection /\ Owner(cons[1], reused)
  BY <1>2, TableOfOwners
<1>5. c \in Connection /\ c.conid = cons[1].conid /\ c.conaddr = conaddr /\ c.queue = cons[1].queue
  BY <1>3, <1>4 DEF Connection
<1>6. Owner(c, reused)'
  BY <1>1, <1>4, <1>5 DEF Owner, OwnQueue
<1>7. con \in Connection /\ con.conid = c.conid /\ con.conaddr = conaddr /\ Owner(con, reused)'
  <2>1. con = connection_send(c, "rebind")
    BY <1>3
  <2>2. Owner(c, TRUE)
    BY <1>1, <1>6
  <2>3. con \in Connection /\ con.conid = c.conid /\ con.conaddr = c.conaddr /\ Owner(con, TRUE)
    BY <1>5, <2>1, <2>2, SendMakesPacket
  <2> QED
    BY <1>1, <1>5, <2>3
<1>8. /\ cons' \in Seq(Connection) /\ TreesAgree' /\ FlightIsKept
      /\ \A k \in DOMAIN cons' : OwnQueue(cons[k], reused)'
  BY <1>1, <1>2, <1>3, <1>5, <1>7, MoveKeepsTable
<1> QED
  BY <1>1, <1>8, TableStep

\* A connection with an unused conid joins the table.
LEMMA SubmitNewStep ==
    ASSUME IInv, NEW conaddr \in Flows, NEW r \in {"ok", "malloc", "flow"}, SubmitNew(conaddr, r),
           submits' \in 0..MaxSubmits
    PROVE  IInv'
<1> USE FlowsAssumption
<1>1. /\ ~Has(conaddr) /\ Len(cons) < max_connections
      /\ UNCHANGED <<keepalive_sending, socks, link, up, down, srv, sending, stale, reused>>
      /\ keepalive_sending' \in BOOLEAN /\ reused' \in BOOLEAN
      /\ cons \in Seq(Connection) /\ next_conid \in Conid
  BY DEF SubmitNew, IInv, TypeOK
<1>2. PICK id : id = find_unused_conid
  OBVIOUS
<1>3. id \in Conid /\ ~Used(id)
  BY <1>1, <1>2, UnusedConid DEF IInv
<1>4. next_conid' \in Conid
  BY <1>1, <1>2, <1>3 DEF SubmitNew
<1>5. CASE r # "ok"
  <2>1. UNCHANGED <<cons, reused>>
    BY <1>1, <1>5 DEF SubmitNew
  <2>2. TreesAgree' /\ \A k \in DOMAIN cons' : OwnQueue(cons[k], reused)'
    BY <2>1 DEF IInv, TreesAgree, FlightPart, OwnQueue
  <2> QED
    BY <1>1, <1>4, <2>1, <2>2, SameTableKeepsFlight, TableStep
<1>6. CASE r = "ok"
  <2>1. PICK c, con : /\ c = [conid |-> id, conaddr |-> conaddr, queue |-> <<>>]
                      /\ con = connection_send(c, "rebind")
    OBVIOUS
  <2>2. cons' = Append(cons, con)
    BY <1>2, <1>6, <2>1 DEF SubmitNew
  <2>3. c \in Connection /\ c.conid = id /\ c.conaddr = conaddr /\ Owner(c, reused)
    BY <1>3, <2>1 DEF Connection, Owner, OwnQueue
  <2>4. con \in Connection /\ con.conid = id /\ con.conaddr = conaddr /\ Owner(con, reused)
    BY <2>1, <2>3, SendMakesPacket
  <2>5. Owner(con, reused)'
    BY <1>1, <2>4 DEF Owner, OwnQueue
  <2>6. /\ cons' \in Seq(Connection) /\ Len(cons') = Len(cons) + 1
        /\ \A k \in 1..Len(cons) : cons'[k] = cons[k]
        /\ cons'[Len(cons) + 1] = con
    BY <1>1, <2>2, <2>4, AppendProperties
  <2>7. /\ DOMAIN cons = 1..Len(cons) /\ DOMAIN cons' = 1..Len(cons) + 1 /\ Len(cons) \in Nat
    BY <1>1, <2>6
  <2>8. \A k \in DOMAIN cons' : (k \in DOMAIN cons /\ cons'[k] = cons[k])
                                \/ (k \notin DOMAIN cons /\ cons'[k] = con /\ k = Len(cons) + 1)
    BY <2>6, <2>7
  <2>9. \A k \in DOMAIN cons' : Owner(cons[k], reused)'
    <3>1. \A k \in DOMAIN cons : Owner(cons[k], reused)
      BY TableOfOwners
    <3> QED
      BY <1>1, <2>5, <2>8, <3>1 DEF Owner, OwnQueue
  <2>10. TreesAgree'
    <3>1. Len(cons') <= max_connections
      BY <1>1, <2>6, <2>7
    <3>2. \A k, l \in DOMAIN cons' : k # l => /\ cons'[k].conid # cons'[l].conid
                                              /\ cons'[k].conaddr # cons'[l].conaddr
      BY <1>1, <1>3, <2>4, <2>8 DEF Has, Used, IInv, TreesAgree
    <3>3. \A k \in DOMAIN cons' : \A n \in DOMAIN cons'[k].queue : cons'[k].queue[n].conid = cons'[k].conid
      BY <2>9 DEF Owner
    <3> QED
      BY <3>1, <3>2, <3>3 DEF TreesAgree
  <2>11. FlightIsKept
    BY <1>1, <2>6, <2>7 DEF FlightIsKept, Carried
  <2>12. \A k \in DOMAIN cons' : OwnQueue(cons[k], reused)'
    BY <2>9 DEF Owner
  <2> QED
    BY <1>1, <1>4, <2>6, <2>10, <2>11, <2>12, TableStep
<1> QED
  BY <1>5, <1>6

-----------------------------------------------------------------------------
(* The stream, on the side of the client *)

LEMMA SendQueuedStep ==
    ASSUME IInv, NEW i \in DOMAIN cons, SendQueued(i)
    PROVE  IInv'
<1>1. /\ CanWrite /\ cons[i].queue # <<>>
      /\ up' = Append(up, Head(cons[i].queue))
      /\ cons' = [cons EXCEPT ![i].queue = Tail(@)]
      /\ UNCHANGED <<next_conid, keepalive_sending, socks, link, down, srv, sending, stale, reused, submits>>
  BY DEF SendQueued, serverVars
<1>2. cons[i] \in Connection /\ Owner(cons[i], reused) /\ cons \in Seq(Connection)
  BY TableOfOwners DEF IInv, TypeOK
<1> DEFINE q == cons[i].queue
           p == Head(q)
           con == [cons[i] EXCEPT !.queue = Tail(q)]
<1>3. /\ q \in Seq(Packet) /\ p \in Packet /\ 1 \in DOMAIN q /\ p = q[1] /\ Tail(q) \in Seq(Packet)
      /\ \A n \in DOMAIN Tail(q) : \E m \in DOMAIN q : Tail(q)[n] = q[m]
  <2>1. q \in Seq(Packet)
    BY <1>2 DEF Connection
  <2> HIDE DEF q
  <2> QED
    BY <1>1, <2>1, TailElements DEF q
<1>4. /\ con \in Connection /\ con.conid = cons[i].conid /\ con.conaddr = cons[i].conaddr
      /\ con.queue = Tail(q)
  BY <1>2, <1>3 DEF Connection
<1>5. /\ cons' = [cons EXCEPT ![i] = con] /\ DOMAIN cons' = DOMAIN cons
      /\ \A k \in DOMAIN cons : cons'[k] = IF k = i THEN con ELSE cons[k]
  BY <1>1, <1>2
<1>6. cons' \in Seq(Connection) /\ Len(cons') = Len(cons)
  BY <1>2, <1>4, <1>5, ExceptSeq
<1>7. p.conid = cons[i].conid /\ p.data.remote = p.remote /\ (~reused => p.data = cons[i].conaddr)
  BY <1>2, <1>3 DEF Owner, OwnQueue
<1>8. Owner(con, reused)
  <2> HIDE DEF con, p
  <2>1. \A n \in DOMAIN con.queue : \E m \in DOMAIN q : con.queue[n] = q[m]
    BY <1>3, <1>4
  <2> HIDE DEF q
  <2>2. \A m \in DOMAIN q : /\ q[m].conid = cons[i].conid /\ q[m].data.remote = q[m].remote
                            /\ ~reused => q[m].data = cons[i].conaddr
    BY <1>2 DEF Owner, OwnQueue, q
  <2> QED
    BY <1>4, <2>1, <2>2 DEF Owner, OwnQueue
<1> HIDE DEF con, p
<1>9. \A k \in DOMAIN cons : Owner(cons'[k], reused)
  BY <1>5, <1>8, TableOfOwners
<1>10. FlightIsKept
  <2>1. \A k \in DOMAIN cons : cons'[k].conid = cons[k].conid /\ cons'[k].conaddr = cons[k].conaddr
    BY <1>4, <1>5
  <2> QED
    BY <1>1, <1>5, <2>1 DEF FlightIsKept, Carried
<1>11. TreesAgree'
  <2>1. \A k \in DOMAIN cons : cons'[k].conid = cons[k].conid /\ cons'[k].conaddr = cons[k].conaddr
    BY <1>4, <1>5
  <2>2. Len(cons') <= max_connections
    BY <1>6 DEF IInv, TreesAgree
  <2>3. \A k, l \in DOMAIN cons' : k # l => /\ cons'[k].conid # cons'[l].conid
                                            /\ cons'[k].conaddr # cons'[l].conaddr
    BY <1>5, <2>1 DEF IInv, TreesAgree
  <2>4. \A k \in DOMAIN cons' : \A n \in DOMAIN cons'[k].queue : cons'[k].queue[n].conid = cons'[k].conid
    BY <1>5, <1>9 DEF Owner
  <2> QED
    BY <2>2, <2>3, <2>4 DEF TreesAgree
<1>12. Carried(p.conid, p.remote, p.data)
  BY <1>7 DEF Carried
<1>13. /\ up' \in Seq(Packet \cup {Keepalive}) /\ Len(up') = Len(up) + 1
       /\ \A n \in DOMAIN up' : (n \in DOMAIN up /\ up'[n] = up[n]) \/ up'[n] = p
  <2>1. up \in Seq(Packet \cup {Keepalive}) /\ p \in Packet \cup {Keepalive} /\ up' = Append(up, p)
    BY <1>1, <1>3 DEF IInv, TypeOK, p
  <2> QED
    BY <2>1, AppendElements
<1>14. TypeOK'
  <2>1. Len(up') <= LinkCap
    BY <1>1, <1>13 DEF CanWrite, IInv, TypeOK
  <2> QED
    BY <1>1, <1>6, <1>13, <2>1 DEF IInv, TypeOK
<1>15. link \in {"open", "accepted"}
  BY <1>1 DEF CanWrite
<1>16. SocksOrTimer' /\ StreamPart' /\ ServerTable'
  BY <1>1, <1>15 DEF IInv, SocksOrTimer, StreamPart, ServerTable
<1>17. FlightPart'
  <2>1. \A k \in DOMAIN cons' : OwnQueue(cons[k], reused)'
    BY <1>1, <1>5, <1>9 DEF Owner
  <2>2. \A n \in DOMAIN up' : up'[n] # Keepalive => InOrder(up[n])'
    BY <1>10, <1>12, <1>13 DEF IInv, FlightPart, FlightIsKept, InOrder
  <2>3. /\ \A k \in DOMAIN srv' :
            /\ \A a \in srv'[k].asked : Carried(srv[k].conid, srv[k].orig, a)'
            /\ \A n \in DOMAIN srv'[k].out : InOrder(srv[k].out[n])'
        /\ sending' # None => InOrder(sending.packet)'
        /\ \A n \in DOMAIN down' : InOrder(down[n])'
    BY <1>1, <1>10 DEF IInv, FlightPart, FlightIsKept, InOrder
  <2> QED
    BY <2>1, <2>2, <2>3 DEF FlightPart
<1> QED
  BY <1>11, <1>14, <1>16, <1>17 DEF IInv

LEMMA SendKeepaliveStep ==
    ASSUME IInv, SendKeepalive
    PROVE  IInv'
<1>1. /\ CanWrite /\ keepalive_sending' = FALSE /\ up' = Append(up, Keepalive)
      /\ UNCHANGED <<cons, next_conid, reused, submits, socks, link, down, srv, sending, stale>>
  BY DEF SendKeepalive, clientVars, serverVars
<1>2. /\ up' \in Seq(Packet \cup {Keepalive}) /\ Len(up') = Len(up) + 1
      /\ \A n \in DOMAIN up' : (n \in DOMAIN up /\ up'[n] = up[n]) \/ up'[n] = Keepalive
  <2>1. up \in Seq(Packet \cup {Keepalive}) /\ Keepalive \in Packet \cup {Keepalive}
    BY DEF IInv, TypeOK
  <2> QED
    BY <1>1, <2>1, AppendElements
<1>3. FlightIsKept
  BY <1>1, SameTableKeepsFlight
<1>4. TypeOK'
  <2>1. Len(up') <= LinkCap
    BY <1>1, <1>2 DEF CanWrite, IInv, TypeOK
  <2> QED
    BY <1>1, <1>2, <2>1 DEF IInv, TypeOK
<1>5. link \in {"open", "accepted"}
  BY <1>1 DEF CanWrite
<1>6. SocksOrTimer' /\ StreamPart' /\ ServerTable' /\ TreesAgree'
  BY <1>1, <1>5 DEF IInv, SocksOrTimer, StreamPart, ServerTable, TreesAgree
<1>7. FlightPart'
  BY <1>1, <1>2, <1>3 DEF IInv, FlightPart, FlightIsKept, InOrder, OwnQueue
<1> QED
  BY <1>4, <1>6, <1>7 DEF IInv

LEMMA ReceiveStep ==
    ASSUME IInv, recv_interface_handler_send
    PROVE  IInv'
<1>1. /\ down # <<>> /\ down' = Tail(down)
      /\ UNCHANGED <<next_conid, keepalive_sending, socks, link, up, srv, sending, stale, reused, submits>>
      /\ UNCHANGED cons \/ \E i \in DOMAIN cons : cons' = MovedToEnd(cons, i, cons[i])
  BY DEF recv_interface_handler_send, serverVars
<1>2. /\ cons' \in Seq(Connection) /\ TreesAgree' /\ FlightIsKept
      /\ \A k \in DOMAIN cons' : OwnQueue(cons[k], reused)'
  <2>1. CASE UNCHANGED cons
    BY <1>1, <2>1, SameTableKeepsFlight DEF IInv, TypeOK, TreesAgree, FlightPart, OwnQueue
  <2>2. CASE \E i \in DOMAIN cons : cons' = MovedToEnd(cons, i, cons[i])
    <3>1. PICK i \in DOMAIN cons : cons' = MovedToEnd(cons, i, cons[i])
      BY <2>2
    <3>2. PICK con : con = cons[i]
      OBVIOUS
    <3>3. con \in Connection /\ Owner(con, reused)
      BY <3>2, TableOfOwners
    <3>4. Owner(con, reused)'
      BY <1>1, <3>3
    <3> QED
      BY <1>1, <3>1, <3>2, <3>3, <3>4, MoveKeepsTable
  <2> QED
    BY <1>1, <2>1, <2>2
<1>3. /\ down \in Seq(Answer) /\ down' \in Seq(Answer) /\ Len(down') = Len(down) - 1
      /\ \A n \in DOMAIN down' : \E m \in DOMAIN down : down'[n] = down[m]
  <2>1. down \in Seq(Answer)
    BY DEF IInv, TypeOK
  <2> QED
    BY <1>1, <2>1, TailElements
<1>4. TypeOK'
  <2>1. Len(down') <= LinkCap
    BY <1>3 DEF IInv, TypeOK
  <2> QED
    BY <1>1, <1>2, <1>3, <2>1 DEF IInv, TypeOK
<1>5. SocksOrTimer' /\ StreamPart' /\ ServerTable'
  <2>1. link \notin {"none", "open"}
    BY <1>1 DEF IInv, StreamPart
  <2> QED
    BY <1>1, <2>1 DEF IInv, SocksOrTimer, StreamPart, ServerTable
<1>6. FlightPart'
  <2>1. \A n \in DOMAIN down' : InOrder(down[n])'
    BY <1>2, <1>3 DEF IInv, FlightPart, FlightIsKept, InOrder
  <2>2. /\ \A n \in DOMAIN up' : up'[n] # Keepalive => InOrder(up[n])'
        /\ \A k \in DOMAIN srv' :
            /\ \A a \in srv'[k].asked : Carried(srv[k].conid, srv[k].orig, a)'
            /\ \A n \in DOMAIN srv'[k].out : InOrder(srv[k].out[n])'
        /\ sending' # None => InOrder(sending.packet)'
    BY <1>1, <1>2 DEF IInv, FlightPart, FlightIsKept, InOrder
  <2> QED
    BY <1>2, <2>1, <2>2 DEF FlightPart
<1> QED
  BY <1>2, <1>4, <1>5, <1>6 DEF IInv

\* Connecting and disconnecting.
LEMMA ConnectSteps ==
    ASSUME IInv,
           \/ \E ok \in BOOLEAN : reconnect_timer_handler(ok)
           \/ SocksUp
           \/ \E mem \in BOOLEAN : listener_handler(mem)
           \/ StaleFreed \/ SendMonitor
    PROVE  IInv'
<1>1. /\ UNCHANGED <<cons, next_conid, reused, submits, up, down, srv, sending>>
      /\ keepalive_sending' \in BOOLEAN
  BY DEF reconnect_timer_handler, SocksUp, listener_handler, StaleFreed, SendMonitor, clientVars,
         serverVars, IInv, TypeOK
<1> DEFINE Streams ==
        /\ socks' \in [have : BOOLEAN, up : BOOLEAN, timer : BOOLEAN, server : BOOLEAN, freed : BOOLEAN]
        /\ link' \in Link /\ stale' \in 0..MaxClients
        /\ SocksOrTimer' /\ StreamPart'
<1>2. Streams
  <2> USE DEF IInv, TypeOK, SocksOrTimer, StreamPart, Link, serverVars
  <2>1. ASSUME NEW ok \in BOOLEAN, reconnect_timer_handler(ok) PROVE Streams
    BY <2>1 DEF reconnect_timer_handler
  <2>2. ASSUME SocksUp PROVE Streams
    BY <2>2 DEF SocksUp
  <2>3. ASSUME NEW mem \in BOOLEAN, listener_handler(mem) PROVE Streams
    BY <2>3 DEF listener_handler
  <2>4. ASSUME StaleFreed PROVE Streams
    BY <2>4 DEF StaleFreed
  <2>5. ASSUME SendMonitor PROVE Streams
    BY <2>5 DEF SendMonitor
  <2> QED
    BY <2>1, <2>2, <2>3, <2>4, <2>5
<1>3. TypeOK'
  BY <1>1, <1>2 DEF IInv, TypeOK
<1>4. TreesAgree' /\ ServerTable'
  BY <1>1 DEF IInv, TreesAgree, ServerTable
<1>5. FlightPart'
  BY <1>1, SameTableKeepsFlight DEF IInv, FlightPart, FlightIsKept, InOrder, OwnQueue
<1> QED
  BY <1>2, <1>3, <1>4, <1>5 DEF IInv

\* The stream is cut or closed: nothing is left of what was on its way back.
LEMMA DisconnectSteps ==
    ASSUME IInv, SocksError \/ SocksUdpGwClient_Free \/ StreamBreaks
    PROVE  IInv'
<1> DEFINE Streams ==
        /\ socks' \in [have : BOOLEAN, up : BOOLEAN, timer : BOOLEAN, server : BOOLEAN, freed : BOOLEAN]
        /\ link' \in Link /\ stale' \in 0..MaxClients
        /\ SocksOrTimer' /\ StreamPart'
        /\ srv' = <<>> /\ sending' = None
        /\ UNCHANGED <<up, down, cons>> \/ (up' = <<>> /\ down' = <<>> /\ cons' \in {cons, <<>>})
<1>1. /\ UNCHANGED <<next_conid, reused, submits>> /\ keepalive_sending' \in BOOLEAN
  BY DEF SocksError, SocksUdpGwClient_Free, StreamBreaks, clientVars, IInv, TypeOK
<1>2. Streams
  <2> USE DEF IInv, TypeOK, SocksOrTimer, StreamPart, Link
  <2>1. ASSUME SocksError PROVE Streams
    <3>1. /\ socks.have /\ StreamClosed /\ UNCHANGED cons
          /\ socks' = [free_socks(socks) EXCEPT !.timer = TRUE]
      BY <2>1 DEF SocksError, clientVars
    <3>2. /\ socks' \in [have : BOOLEAN, up : BOOLEAN, timer : BOOLEAN, server : BOOLEAN, freed : BOOLEAN]
          /\ ~socks'.have /\ socks'.timer /\ ~socks'.server /\ socks'.freed = socks.freed
      BY <3>1 DEF free_socks
    <3>3. /\ link' = "none" /\ up' = <<>> /\ down' = <<>> /\ srv' = <<>> /\ sending' = None
          /\ stale' \in 0..MaxClients
      BY SMTT(60), <3>1 DEF StreamClosed
    <3> QED
      BY <3>1, <3>2, <3>3
  <2>2. ASSUME SocksUdpGwClient_Free PROVE Streams
    <3>1. /\ StreamClosed /\ cons' = <<>>
          /\ socks' = [(IF socks.have THEN free_socks(socks) ELSE socks) EXCEPT !.timer = FALSE, !.freed = TRUE]
      BY <2>2 DEF SocksUdpGwClient_Free
    <3>2. /\ socks' \in [have : BOOLEAN, up : BOOLEAN, timer : BOOLEAN, server : BOOLEAN, freed : BOOLEAN]
          /\ ~socks'.have /\ ~socks'.timer /\ ~socks'.server /\ socks'.freed
      BY <3>1 DEF free_socks
    <3>3. /\ link' = "none" /\ up' = <<>> /\ down' = <<>> /\ srv' = <<>> /\ sending' = None
          /\ stale' \in 0..MaxClients
      BY SMTT(60), <3>1 DEF StreamClosed
    <3> QED
      BY <3>1, <3>2, <3>3
  <2>3. ASSUME StreamBreaks PROVE Streams
    BY <2>3 DEF StreamBreaks, clientVars
  <2> QED
    BY <2>1, <2>2, <2>3
<1>3. ServerTable'
  BY <1>2 DEF ServerTable
<1>4. CASE UNCHANGED <<up, down, cons>>
  <2>1. TypeOK' /\ TreesAgree'
    BY <1>1, <1>2, <1>4 DEF IInv, TypeOK, TreesAgree
  <2>2. FlightPart'
    BY <1>1, <1>2, <1>4, SameTableKeepsFlight DEF IInv, FlightPart, FlightIsKept, InOrder, OwnQueue
  <2> QED
    BY <1>2, <1>3, <2>1, <2>2 DEF IInv
<1>5. CASE up' = <<>> /\ down' = <<>> /\ cons' \in {cons, <<>>}
  <2>1. TypeOK' /\ TreesAgree'
    <3>1. CASE cons' = cons
      BY <1>1, <1>2, <1>5, <3>1 DEF IInv, TypeOK, TreesAgree
    <3>2. CASE cons' = <<>>
      BY <1>1, <1>2, <1>5, <3>2 DEF IInv, TypeOK, TreesAgree
    <3> QED
      BY <1>5, <3>1, <3>2
  <2>2. FlightPart'
    BY <1>1, <1>2, <1>5 DEF IInv, FlightPart, OwnQueue
  <2> QED
    BY <1>2, <1>3, <2>1, <2>2 DEF IInv
<1> QED
  BY <1>2, <1>4, <1>5

-----------------------------------------------------------------------------
(* The server *)

\* Table s of the server, with snd in the fair queue.
Fits(s, snd) ==
    /\ Len(s) <= ServerConns
    /\ \A i, j \in DOMAIN s : i # j => s[i].conid # s[j].conid
    /\ snd # None /\ ~snd.closing =>
         \E i \in DOMAIN s : s[i].conid = snd.conid /\ s[i].out # <<>> /\ Head(s[i].out) = snd.packet

\* The datagrams that server connection con knows of.
Answers(con) ==
    /\ \A a \in con.asked : Carried(con.conid, con.orig, a)
    /\ \A n \in DOMAIN con.out : InOrder(con.out[n])

LEMMA ServerFacts ==
    ASSUME IInv
    PROVE  /\ srv \in Seq(ServerConnection) /\ sending \in Sending \cup {None}
           /\ Fits(srv, sending)
           /\ \A i \in DOMAIN srv : srv[i] \in ServerConnection /\ Answers(srv[i])
           /\ sending # None => InOrder(sending.packet)
BY DEF IInv, TypeOK, ServerTable, FlightPart, Fits, Answers

\* A step of the server, whose stream stays.
LEMMA ServerStepKeeps ==
    ASSUME IInv, link = "accepted",
           UNCHANGED <<cons, next_conid, reused, submits, keepalive_sending, socks, link, stale>>,
           srv' \in Seq(ServerConnection), sending' \in Sending \cup {None}, Fits(srv, sending)',
           \A k \in DOMAIN srv' : Answers(srv[k])',
           sending' # None => InOrder(sending.packet)',
           up' \in Seq(Packet \cup {Keepalive}), Len(up') <= LinkCap,
           \A n \in DOMAIN up' : up'[n] # Keepalive => InOrder(up[n])',
           down' \in Seq(Answer), Len(down') <= LinkCap,
           \A n \in DOMAIN down' : InOrder(down[n])'
    PROVE  IInv'
<1>1. TypeOK'
  BY DEF IInv, TypeOK
<1>2. SocksOrTimer' /\ StreamPart' /\ TreesAgree'
  BY DEF IInv, SocksOrTimer, StreamPart, TreesAgree
<1>3. ServerTable'
  BY DEF ServerTable, Fits
<1>4. FlightPart'
  BY DEF IInv, FlightPart, Answers, OwnQueue
<1> QED
  BY <1>1, <1>2, <1>3, <1>4 DEF IInv

\* connection_close: no other connection is affected.
LEMMA CloseFits ==
    ASSUME IInv, NEW i \in DOMAIN srv
    PROVE  /\ Without(srv, i) \in Seq(ServerConnection) /\ Len(Without(srv, i)) = Len(srv) - 1
           /\ Fits(Without(srv, i), ClosingSend(i))
           /\ \A k \in DOMAIN Without(srv, i) :
                 Answers(Without(srv, i)[k]) /\ Without(srv, i)[k].conid # srv[i].conid
           /\ ClosingSend(i) \in Sending \cup {None}
           /\ ClosingSend(i) # None => InOrder(ClosingSend(i).packet)
<1> DEFINE w == Without(srv, i)
           snd == ClosingSend(i)
<1>1. /\ srv \in Seq(ServerConnection) /\ sending \in Sending \cup {None}
      /\ Fits(srv, sending)
      /\ \A k \in DOMAIN srv : srv[k] \in ServerConnection /\ Answers(srv[k])
      /\ sending # None => InOrder(sending.packet)
  BY ServerFacts
<1>2. w \in Seq(ServerConnection) /\ Len(w) = Len(srv) - 1
  BY <1>1, WithoutKeeps
<1>3. PICK g : Remains(srv, i, w, g)
  BY <1>1, WithoutKeeps
<1> HIDE DEF w
<1>4. /\ \A k \in DOMAIN w : g[k] \in DOMAIN srv /\ g[k] # i /\ w[k] = srv[g[k]]
      /\ \A k, l \in DOMAIN w : g[k] = g[l] => k = l
      /\ \A j \in DOMAIN srv : j # i => \E k \in DOMAIN w : g[k] = j
  BY <1>3 DEF Remains
<1>5. \A k \in DOMAIN w : Answers(w[k]) /\ w[k].conid # srv[i].conid
  BY <1>1, <1>4 DEF Fits
<1>6. /\ snd \in Sending \cup {None} /\ (sending = None => snd = None)
      /\ snd # None => snd.packet = sending.packet
      /\ snd # None /\ ~snd.closing => snd = sending /\ sending.conid # srv[i].conid
  <2>1. CASE sending # None /\ ~sending.closing /\ sending.conid = srv[i].conid
    <3>1. snd = [sending EXCEPT !.closing = TRUE] /\ sending \in Sending
      BY <1>1, <2>1 DEF ClosingSend
    <3>2. snd \in Sending /\ snd.packet = sending.packet /\ snd.closing
      BY <3>1 DEF Sending
    <3> QED
      BY <2>1, <3>2
  <2>2. CASE ~(sending # None /\ ~sending.closing /\ sending.conid = srv[i].conid)
    <3>1. snd = sending
      BY <2>2 DEF ClosingSend
    <3> HIDE DEF snd
    <3> QED
      BY <1>1, <2>2, <3>1
  <2> QED
    BY <2>1, <2>2
<1> HIDE DEF snd
<1>7. Fits(w, snd)
  <2>1. Len(w) <= ServerConns
    BY <1>1, <1>2 DEF Fits
  <2>2. \A k, l \in DOMAIN w : k # l => w[k].conid # w[l].conid
    BY <1>1, <1>4 DEF Fits
  <2>3. ASSUME snd # None, ~snd.closing
        PROVE  \E k \in DOMAIN w : w[k].conid = snd.conid /\ w[k].out # <<>> /\ Head(w[k].out) = snd.packet
    <3>1. PICK j \in DOMAIN srv : /\ srv[j].conid = sending.conid /\ srv[j].out # <<>>
                                  /\ Head(srv[j].out) = sending.packet
      BY <1>1, <1>6, <2>3 DEF Fits
    <3>2. j # i
      BY <1>6, <2>3, <3>1
    <3> QED
      BY <1>4, <1>6, <2>3, <3>1, <3>2
  <2> QED
    BY <2>1, <2>2, <2>3 DEF Fits
<1> QED
  BY <1>1, <1>2, <1>5, <1>6, <1>7 DEF w, snd

\* A connection of a conid that has none joins a table with room.
LEMMA JoinFits ==
    ASSUME NEW s \in Seq(ServerConnection), NEW snd, Fits(s, snd), Len(s) < ServerConns,
           NEW con \in ServerConnection, \A k \in DOMAIN s : s[k].conid # con.conid
    PROVE  /\ s \o <<con>> \in Seq(ServerConnection) /\ Fits(s \o <<con>>, snd)
           /\ \A k \in DOMAIN (s \o <<con>>) : \/ k \in DOMAIN s /\ (s \o <<con>>)[k] = s[k]
                                               \/ (s \o <<con>>)[k] = con
<1> DEFINE t == s \o <<con>>
<1>1. t = Append(s, con)
  OBVIOUS
<1>2. /\ t \in Seq(ServerConnection) /\ Len(t) = Len(s) + 1
      /\ \A n \in DOMAIN s : n \in DOMAIN t /\ t[n] = s[n]
      /\ \A n \in DOMAIN t : \/ n \in DOMAIN s /\ t[n] = s[n]
                             \/ n \notin DOMAIN s /\ n = Len(s) + 1 /\ t[n] = con
  BY <1>1, AppendElements
<1> HIDE DEF t
<1>3. Fits(t, snd)
  <2>1. Len(t) <= ServerConns
    BY <1>2
  <2>2. \A k, l \in DOMAIN t : k # l => t[k].conid # t[l].conid
    BY <1>2 DEF Fits
  <2>3. snd # None /\ ~snd.closing =>
          \E k \in DOMAIN t : t[k].conid = snd.conid /\ t[k].out # <<>> /\ Head(t[k].out) = snd.packet
    BY <1>2 DEF Fits
  <2> QED
    BY <2>1, <2>2, <2>3 DEF Fits
<1> QED
  BY <1>2, <1>3 DEF t

\* Connection i becomes con and moves to the end, its first packet stays.
LEMMA ServerMoveFits ==
    ASSUME IInv, NEW i \in DOMAIN srv, NEW con \in ServerConnection, con.conid = srv[i].conid,
           srv[i].out # <<>> => con.out # <<>> /\ Head(con.out) = Head(srv[i].out),
           Answers(con)
    PROVE  /\ MovedToEnd(srv, i, con) \in Seq(ServerConnection)
           /\ Fits(MovedToEnd(srv, i, con), sending)
           /\ \A k \in DOMAIN MovedToEnd(srv, i, con) : Answers(MovedToEnd(srv, i, con)[k])
<1> DEFINE t == MovedToEnd(srv, i, con)
<1>1. srv \in Seq(ServerConnection) /\ Fits(srv, sending) /\ \A k \in DOMAIN srv : Answers(srv[k])
  BY ServerFacts
<1>2. t \in Seq(ServerConnection) /\ Len(t) = Len(srv)
  BY <1>1, MoveReorders
<1>3. PICK g : Reorders(srv, i, con, t, g)
  BY <1>1, MoveReorders
<1> HIDE DEF t
<1>4. /\ DOMAIN t = DOMAIN srv
      /\ \A k \in DOMAIN srv : /\ g[k] \in DOMAIN srv
                               /\ g[k] = i => t[k] = con
                               /\ g[k] # i => t[k] = srv[g[k]]
      /\ \A k, l \in DOMAIN srv : g[k] = g[l] => k = l
      /\ \A j \in DOMAIN srv : \E k \in DOMAIN srv : g[k] = j
  BY <1>3 DEF Reorders
<1>5. ASSUME NEW k \in DOMAIN t PROVE Answers(t[k])
  <2>1. CASE g[k] = i
    <3>1. t[k] = con
      BY <1>4, <2>1
    <3> QED
      BY <3>1
  <2>2. CASE g[k] # i
    <3>1. t[k] = srv[g[k]] /\ g[k] \in DOMAIN srv
      BY <1>4, <2>2
    <3> QED
      BY <1>1, <3>1
  <2> QED
    BY <2>1, <2>2
<1>6. \A k \in DOMAIN srv : t[k].conid = srv[g[k]].conid
  BY <1>4
<1>7. Fits(t, sending)
  <2>1. Len(t) <= ServerConns
    BY <1>1, <1>2 DEF Fits
  <2>2. \A k, l \in DOMAIN t : k # l => t[k].conid # t[l].conid
    <3>1. \A k, l \in DOMAIN srv : k # l => srv[g[k]].conid # srv[g[l]].conid
      BY <1>1, <1>4 DEF Fits
    <3> QED
      BY <1>4, <1>6, <3>1
  <2>3. ASSUME sending # None, ~sending.closing
        PROVE  \E k \in DOMAIN t : /\ t[k].conid = sending.conid /\ t[k].out # <<>>
                                   /\ Head(t[k].out) = sending.packet
    <3>1. PICK j \in DOMAIN srv : /\ srv[j].conid = sending.conid /\ srv[j].out # <<>>
                                  /\ Head(srv[j].out) = sending.packet
      BY <1>1, <2>3 DEF Fits
    <3>2. PICK k \in DOMAIN srv : g[k] = j
      BY <1>4
    <3>3. t[k].conid = sending.conid
      BY <1>6, <3>1, <3>2
    <3>4. t[k].out # <<>> /\ Head(t[k].out) = sending.packet
      <4>1. CASE j = i
        BY <1>4, <3>1, <3>2, <4>1
      <4>2. CASE j # i
        BY <1>4, <3>1, <3>2, <4>2
      <4> QED
        BY <4>1, <4>2
    <3> QED
      BY <1>4, <3>3, <3>4
  <2> QED
    BY <2>1, <2>2, <2>3 DEF Fits
<1> QED
  BY <1>2, <1>5, <1>7 DEF t

\* In a server step the table of the client stays, so that what was true of a
\* datagram still is.
LEMMA SameTableSameAnswers ==
    ASSUME UNCHANGED <<cons, reused>>
    PROVE  /\ \A con : Answers(con) => Answers(con)'
           /\ \A p : InOrder(p) => InOrder(p)'
BY SameTableKeepsFlight DEF FlightIsKept, Answers, InOrder

LEMMA ServerReceiveStep ==
    ASSUME IInv, NEW ok \in BOOLEAN, NEW made \in BOOLEAN, client_recv_if_handler_send(ok, made)
    PROVE  IInv'
<1>1. PICK p : p = Head(up)
  OBVIOUS
<1>2. PICK con : con = connection_send_to_udp([conid |-> p.conid, orig |-> p.remote, asked |-> {},
                                               out |-> <<>>], p.data, ok)
  OBVIOUS
<1> DEFINE new == IF made THEN <<con>> ELSE <<>>
           use == {i \in DOMAIN srv : Usable(srv[i], p)}
<1>3. /\ link = "accepted" /\ up # <<>> /\ up' = Tail(up)
      /\ UNCHANGED <<cons, next_conid, reused, submits, keepalive_sending, socks, link, down, stale>>
      /\ \/ p = Keepalive /\ UNCHANGED <<srv, sending>>
         \/ /\ p # Keepalive /\ UNCHANGED sending
            /\ \E i \in use : srv' = MovedToEnd(srv, i, connection_send_to_udp(srv[i], p.data, ok))
         \/ /\ p # Keepalive /\ use = {} /\ Victim(p) = {} /\ srv' = srv \o new /\ UNCHANGED sending
         \/ /\ p # Keepalive /\ use = {}
            /\ \E i \in Victim(p) : srv' = Without(srv, i) \o new /\ sending' = ClosingSend(i)
  BY <1>1, <1>2 DEF client_recv_if_handler_send, clientVars, serverVars
<1>4. /\ up \in Seq(Packet \cup {Keepalive}) /\ Len(up) <= LinkCap /\ down \in Seq(Answer) /\ Len(down) <= LinkCap
  BY DEF IInv, TypeOK
<1>5. /\ p \in Packet \cup {Keepalive} /\ 1 \in DOMAIN up /\ p = up[1]
      /\ up' \in Seq(Packet \cup {Keepalive}) /\ Len(up') = Len(up) - 1
      /\ \A n \in DOMAIN up' : \E m \in DOMAIN up : up'[n] = up[m]
  BY <1>1, <1>3, <1>4, TailElements
<1>6. /\ \A c : Answers(c) => Answers(c)'
      /\ \A a : InOrder(a) => InOrder(a)'
  BY <1>3, SameTableSameAnswers
<1>7. /\ Len(up') <= LinkCap /\ \A n \in DOMAIN up' : up'[n] # Keepalive => InOrder(up[n])'
  <2>1. Len(up') <= LinkCap
    BY <1>4, <1>5
  <2>2. \A m \in DOMAIN up : up[m] # Keepalive => InOrder(up[m])
    BY DEF IInv, FlightPart
  <2>3. ASSUME NEW n \in DOMAIN up', up'[n] # Keepalive PROVE InOrder(up[n])'
    <3>1. PICK q : q = up'[n]
      OBVIOUS
    <3>2. InOrder(q)
      BY <1>5, <2>2, <2>3, <3>1
    <3>3. InOrder(q)'
      BY <1>6, <3>2
    <3> QED
      BY <3>1, <3>3
  <2> QED
    BY <2>1, <2>3
<1>8. /\ \A n \in DOMAIN down' : InOrder(down[n])'
      /\ down' \in Seq(Answer) /\ Len(down') <= LinkCap
  BY <1>3, <1>4, <1>6 DEF IInv, FlightPart, InOrder
<1>9. /\ srv \in Seq(ServerConnection) /\ sending \in Sending \cup {None}
      /\ Fits(srv, sending)
      /\ \A i \in DOMAIN srv : srv[i] \in ServerConnection /\ Answers(srv[i])
      /\ sending # None => InOrder(sending.packet)
  BY ServerFacts
<1> DEFINE Server ==
        /\ srv' \in Seq(ServerConnection) /\ sending' \in Sending \cup {None} /\ Fits(srv', sending')
        /\ \A k \in DOMAIN srv' : Answers(srv'[k])
        /\ sending' # None => InOrder(sending'.packet)
<1>10. Server
  <2>1. CASE p = Keepalive
    BY <1>3, <1>9, <2>1
  <2> SUFFICES ASSUME p # Keepalive PROVE Server
    BY <2>1
  <2>2. p \in Packet /\ InOrder(p)
    BY <1>5 DEF IInv, FlightPart
  <2>3. con \in ServerConnection /\ con.conid = p.conid /\ con.orig = p.remote /\ Answers(con)
    <3>1. /\ con.conid = p.conid /\ con.orig = p.remote /\ con.asked \in {{}, {p.data}} /\ con.out = <<>>
          /\ con \in ServerConnection
      <4>1. p.conid \in Conid /\ p.remote \in Remote /\ p.data \in Conaddr
        BY <2>2 DEF Packet
      <4>2. PICK fresh : fresh = [conid |-> p.conid, orig |-> p.remote, asked |-> {}, out |-> <<>>]
        OBVIOUS
      <4>3. /\ fresh \in ServerConnection /\ fresh.conid = p.conid /\ fresh.orig = p.remote
            /\ fresh.asked = {} /\ fresh.out = <<>>
        BY <4>1, <4>2 DEF ServerConnection
      <4>4. con = IF ok THEN [fresh EXCEPT !.asked = @ \cup {p.data}] ELSE fresh
        BY <1>2, <4>2 DEF connection_send_to_udp
      <4> QED
        BY <4>1, <4>3, <4>4 DEF ServerConnection
    <3> QED
      BY <2>2, <3>1 DEF Answers, InOrder
  <2>4. ASSUME NEW i \in use, srv' = MovedToEnd(srv, i, connection_send_to_udp(srv[i], p.data, ok)),
               UNCHANGED sending
        PROVE  Server
    <3>1. PICK c : c = connection_send_to_udp(srv[i], p.data, ok)
      OBVIOUS
    <3>2. /\ i \in DOMAIN srv /\ srv[i] \in ServerConnection /\ Answers(srv[i])
          /\ srv[i].conid = p.conid /\ srv[i].orig = p.remote
      BY <1>9 DEF Usable
    <3>3. /\ c \in ServerConnection /\ c.conid = srv[i].conid /\ c.orig = srv[i].orig
          /\ c.asked \in {srv[i].asked, srv[i].asked \cup {p.data}} /\ c.out = srv[i].out
      BY <2>2, <3>1, <3>2 DEF connection_send_to_udp, Packet, ServerConnection
    <3>4. Answers(c)
      <4>1. Carried(c.conid, c.orig, p.data)
        BY <2>2, <3>2, <3>3 DEF InOrder
      <4>2. \A a \in c.asked : Carried(c.conid, c.orig, a)
        BY <3>2, <3>3, <4>1 DEF Answers
      <4>3. \A n \in DOMAIN c.out : InOrder(c.out[n])
        BY <3>2, <3>3 DEF Answers
      <4> QED
        BY <4>2, <4>3 DEF Answers
    <3>5. /\ srv' \in Seq(ServerConnection) /\ Fits(srv', sending)
          /\ \A k \in DOMAIN srv' : Answers(srv'[k])
      BY <2>4, <3>1, <3>2, <3>3, <3>4, ServerMoveFits
    <3> QED
      BY <1>9, <2>4, <3>5
  <2>5. ASSUME NEW s \in Seq(ServerConnection), NEW snd, Fits(s, snd), Len(s) < ServerConns,
               \A k \in DOMAIN s : s[k].conid # p.conid /\ Answers(s[k])
        PROVE  /\ s \o new \in Seq(ServerConnection) /\ Fits(s \o new, snd)
               /\ \A k \in DOMAIN (s \o new) : Answers((s \o new)[k])
    <3>1. CASE made
      <4>1. new = <<con>>
        BY <3>1
      <4>2. /\ s \o new \in Seq(ServerConnection) /\ Fits(s \o new, snd)
            /\ \A k \in DOMAIN (s \o new) : (k \in DOMAIN s /\ (s \o new)[k] = s[k]) \/ (s \o new)[k] = con
        BY <2>3, <2>5, <4>1, JoinFits
      <4>3. ASSUME NEW k \in DOMAIN (s \o new) PROVE Answers((s \o new)[k])
        <5>1. PICK c : c = (s \o new)[k]
          OBVIOUS
        <5>2. Answers(c)
          BY <2>3, <2>5, <4>2, <5>1
        <5> QED
          BY <5>1, <5>2
      <4> QED
        BY <4>2, <4>3
    <3>2. CASE ~made
      <4>1. s \o new = s
        BY <3>2, ConcatEmptySeq
      <4> HIDE DEF new
      <4> QED
        BY <2>5, <4>1
    <3> QED
      BY <3>1, <3>2
  <2> HIDE DEF new
  <2>6. ASSUME Victim(p) = {}, srv' = srv \o new, UNCHANGED sending
        PROVE  Server
    <3>1. \A k \in DOMAIN srv : srv[k].conid # p.conid
      BY <2>6 DEF Victim
    <3>2. Len(srv) < ServerConns
      <4>1. Len(srv) # ServerConns
        BY <2>6 DEF Victim
      <4> QED
        BY <1>9, <4>1 DEF Fits
    <3> QED
      BY <1>9, <2>5, <2>6, <3>1, <3>2
  <2>7. ASSUME NEW i \in Victim(p), srv' = Without(srv, i) \o new, sending' = ClosingSend(i)
        PROVE  Server
    <3>1. i \in DOMAIN srv /\ (srv[i].conid = p.conid \/ \A k \in DOMAIN srv : srv[k].conid # p.conid)
      <4>1. CASE \E k \in DOMAIN srv : srv[k].conid = p.conid
        BY <4>1 DEF Victim
      <4>2. CASE \A k \in DOMAIN srv : srv[k].conid # p.conid
        <5>1. i = 1 /\ Len(srv) = ServerConns
          BY <4>2 DEF Victim
        <5> QED
          BY <1>9, <4>2, <5>1
      <4> QED
        BY <4>1, <4>2
    <3>2. PICK s, snd : s = Without(srv, i) /\ snd = ClosingSend(i)
      OBVIOUS
    <3>3. /\ s \in Seq(ServerConnection) /\ Len(s) = Len(srv) - 1 /\ Fits(s, snd)
          /\ \A k \in DOMAIN s : Answers(s[k]) /\ s[k].conid # srv[i].conid
          /\ snd \in Sending \cup {None}
          /\ snd # None => InOrder(snd.packet)
      BY <3>1, <3>2, CloseFits
    <3>4. \A k \in DOMAIN s : s[k].conid # p.conid
      <4>1. PICK g : Remains(srv, i, s, g)
        BY <1>9, <3>1, <3>2, WithoutKeeps
      <4> QED
        BY <3>1, <3>3, <4>1 DEF Remains
    <3>5. Len(s) < ServerConns
      BY <1>9, <3>3 DEF Fits
    <3>6. /\ s \o new \in Seq(ServerConnection) /\ Fits(s \o new, snd)
          /\ \A k \in DOMAIN (s \o new) : Answers((s \o new)[k])
      BY <2>5, <3>3, <3>4, <3>5
    <3> QED
      BY <2>7, <3>2, <3>3, <3>6
  <2> QED
    BY <1>3, <2>4, <2>6, <2>7
<1>11. Fits(srv, sending)' /\ (\A k \in DOMAIN srv' : Answers(srv[k])')
       /\ (sending' # None => InOrder(sending.packet)')
  BY <1>6, <1>10 DEF Fits
<1> QED
  BY <1>3, <1>5, <1>7, <1>8, <1>10, <1>11, ServerStepKeeps

LEMMA ServerAnswerStep ==
    ASSUME IInv, NEW i \in DOMAIN srv, NEW data \in Flows, connection_udp_recv(i, data)
    PROVE  IInv'
<1>1. PICK con, a, c : /\ con = srv[i] /\ a = [conid |-> con.conid, remote |-> con.orig, data |-> data]
                       /\ c = IF Len(con.out) < ServerBuffer THEN [con EXCEPT !.out = Append(@, a)] ELSE con
  OBVIOUS
<1>2. /\ link = "accepted" /\ data \in con.asked /\ srv' = MovedToEnd(srv, i, c)
      /\ UNCHANGED <<cons, next_conid, reused, submits, keepalive_sending, socks, link, up, down, sending, stale>>
  BY <1>1 DEF connection_udp_recv, clientVars
<1>3. con \in ServerConnection /\ Answers(con) /\ sending \in Sending \cup {None}
      /\ (sending # None => InOrder(sending.packet))
  BY <1>1, ServerFacts
<1>4. a \in Answer /\ InOrder(a)
  BY <1>1, <1>2, <1>3 DEF Answers, InOrder, Answer, ServerConnection
<1>5. /\ con.out \in Seq(Answer) /\ Append(con.out, a) \in Seq(Answer)
      /\ \A n \in DOMAIN Append(con.out, a) :
            (n \in DOMAIN con.out /\ Append(con.out, a)[n] = con.out[n]) \/ Append(con.out, a)[n] = a
      /\ Append(con.out, a) # <<>>
      /\ con.out # <<>> => Head(Append(con.out, a)) = Head(con.out)
  <2>1. con.out \in Seq(Answer)
    BY <1>3 DEF ServerConnection
  <2> QED
    BY <1>4, <2>1, AppendElements
<1>6. /\ c \in ServerConnection /\ c.conid = con.conid /\ c.orig = con.orig /\ c.asked = con.asked
      /\ c.out \in {con.out, Append(con.out, a)}
  BY <1>1, <1>3, <1>5 DEF ServerConnection
<1>7. Answers(c)
  <2>1. \A n \in DOMAIN c.out : InOrder(c.out[n])
    <3> SUFFICES ASSUME NEW n \in DOMAIN c.out PROVE InOrder(c.out[n])
      OBVIOUS
    <3>1. (n \in DOMAIN con.out /\ c.out[n] = con.out[n]) \/ c.out[n] = a
      BY <1>5, <1>6
    <3>2. CASE n \in DOMAIN con.out /\ c.out[n] = con.out[n]
      BY <1>3, <3>2 DEF Answers
    <3>3. CASE c.out[n] = a
      BY <1>4, <3>3
    <3> QED
      BY <3>1, <3>2, <3>3
  <2> QED
    BY <1>3, <1>6, <2>1 DEF Answers
<1>8. /\ srv' \in Seq(ServerConnection) /\ Fits(srv', sending)
      /\ \A k \in DOMAIN srv' : Answers(srv'[k])
  <2>1. srv[i].out # <<>> => c.out # <<>> /\ Head(c.out) = Head(srv[i].out)
    BY <1>1, <1>5, <1>6
  <2>2. c.conid = srv[i].conid
    BY <1>1, <1>6
  <2> QED
    BY <1>2, <1>6, <1>7, <2>1, <2>2, ServerMoveFits
<1>9. /\ \A b : Answers(b) => Answers(b)'
      /\ \A p : InOrder(p) => InOrder(p)'
  BY <1>2, SameTableSameAnswers
<1>10. /\ Fits(srv, sending)' /\ (\A k \in DOMAIN srv' : Answers(srv[k])')
       /\ (sending' # None => InOrder(sending.packet)')
  BY <1>2, <1>3, <1>8, <1>9 DEF Fits
<1>11. /\ up' \in Seq(Packet \cup {Keepalive}) /\ Len(up') <= LinkCap
       /\ down' \in Seq(Answer) /\ Len(down') <= LinkCap
       /\ \A n \in DOMAIN up' : up'[n] # Keepalive => InOrder(up[n])'
       /\ \A n \in DOMAIN down' : InOrder(down[n])'
  BY <1>2, <1>9 DEF IInv, TypeOK, FlightPart, InOrder
<1>12. sending' \in Sending \cup {None}
  BY <1>2, <1>3
<1> QED
  BY <1>2, <1>8, <1>10, <1>11, <1>12, ServerStepKeeps

\* The error of a UDP socket, and the two steps of the fair queue.
LEMMA ServerQueueSteps ==
    ASSUME IInv,
           \/ \E i \in DOMAIN srv : connection_dgram_handler_event(i) \/ QueuePicks(i)
           \/ QueueSent
    PROVE  IInv'
<1>1. /\ link = "accepted"
      /\ UNCHANGED <<cons, next_conid, reused, submits, keepalive_sending, socks, link, up, stale>>
  BY DEF connection_dgram_handler_event, QueuePicks, QueueSent, clientVars
<1>2. /\ srv \in Seq(ServerConnection) /\ sending \in Sending \cup {None}
      /\ Fits(srv, sending)
      /\ \A i \in DOMAIN srv : srv[i] \in ServerConnection /\ Answers(srv[i])
      /\ sending # None => InOrder(sending.packet)
      /\ down \in Seq(Answer) /\ Len(down) <= LinkCap /\ \A n \in DOMAIN down : InOrder(down[n])
  BY ServerFacts DEF IInv, TypeOK, FlightPart
<1> DEFINE Server ==
        /\ srv' \in Seq(ServerConnection) /\ sending' \in Sending \cup {None} /\ Fits(srv', sending')
        /\ \A k \in DOMAIN srv' : Answers(srv'[k])
        /\ sending' # None => InOrder(sending'.packet)
        /\ down' \in Seq(Answer) /\ Len(down') <= LinkCap /\ \A n \in DOMAIN down' : InOrder(down'[n])
<1>3. ASSUME NEW i \in DOMAIN srv, connection_dgram_handler_event(i)
      PROVE  Server
  <2>1. srv' = Without(srv, i) /\ sending' = ClosingSend(i) /\ UNCHANGED down
    BY <1>3 DEF connection_dgram_handler_event
  <2> QED
    BY <1>2, <2>1, CloseFits
<1>4. ASSUME NEW i \in DOMAIN srv, QueuePicks(i)
      PROVE  Server
  <2>1. /\ srv[i].out # <<>> /\ UNCHANGED <<srv, down>>
        /\ sending' = [conid |-> srv[i].conid, closing |-> FALSE, packet |-> Head(srv[i].out)]
    BY <1>4 DEF QueuePicks
  <2>2. srv[i].out \in Seq(Answer) /\ srv[i].conid \in Conid
    BY <1>2 DEF ServerConnection
  <2>3. Head(srv[i].out) \in Answer /\ 1 \in DOMAIN srv[i].out /\ Head(srv[i].out) = srv[i].out[1]
    BY <2>1, <2>2, TailElements
  <2>4. /\ sending' \in Sending /\ sending'.packet = Head(srv[i].out) /\ sending'.conid = srv[i].conid
    BY <2>1, <2>2, <2>3 DEF Sending
  <2>5. InOrder(sending'.packet)
    BY <1>2, <2>3, <2>4 DEF Answers
  <2>6. Fits(srv', sending')
    BY <1>2, <2>1, <2>4 DEF Fits
  <2> QED
    BY <1>2, <2>1, <2>4, <2>5, <2>6
<1>5. ASSUME QueueSent
      PROVE  Server
  <2>1. /\ sending # None /\ Len(down) < LinkCap /\ down' = Append(down, sending.packet)
        /\ sending' = None
        /\ srv' = [i \in DOMAIN srv |->
                     IF ~sending.closing /\ srv[i].conid = sending.conid
                     THEN [srv[i] EXCEPT !.out = Tail(@)] ELSE srv[i]]
    BY <1>5 DEF QueueSent
  <2>2. sending \in Sending /\ sending.packet \in Answer
    BY <1>2, <2>1 DEF Sending
  <2>3. /\ down' \in Seq(Answer) /\ Len(down') <= LinkCap /\ \A n \in DOMAIN down' : InOrder(down'[n])
    <3>1. /\ down' \in Seq(Answer) /\ Len(down') = Len(down) + 1
          /\ \A n \in DOMAIN down' : (n \in DOMAIN down /\ down'[n] = down[n]) \/ down'[n] = sending.packet
      BY <1>2, <2>1, <2>2, AppendElements
    <3>2. ASSUME NEW n \in DOMAIN down' PROVE InOrder(down'[n])
      <4>1. CASE n \in DOMAIN down /\ down'[n] = down[n]
        BY <1>2, <4>1
      <4>2. CASE down'[n] = sending.packet
        BY <1>2, <2>1, <4>2
      <4> QED
        BY <3>1, <4>1, <4>2
    <3> QED
      BY <1>2, <2>1, <3>1, <3>2
  <2>4. ASSUME NEW k \in DOMAIN srv
        PROVE  srv'[k] \in ServerConnection /\ srv'[k].conid = srv[k].conid /\ Answers(srv'[k])
    <3>1. CASE ~sending.closing /\ srv[k].conid = sending.conid
      <4>1. PICK j \in DOMAIN srv : srv[j].conid = sending.conid /\ srv[j].out # <<>>
        BY <1>2, <2>1, <3>1 DEF Fits
      <4>2. j = k
        BY <1>2, <3>1, <4>1 DEF Fits
      <4>3. srv[k].out \in Seq(Answer) /\ srv[k].out # <<>>
        BY <1>2, <4>1, <4>2 DEF ServerConnection
      <4>4. PICK t : t = Tail(srv[k].out)
        OBVIOUS
      <4>5. t \in Seq(Answer) /\ \A n \in DOMAIN t : \E m \in DOMAIN srv[k].out : t[n] = srv[k].out[m]
        BY <4>3, <4>4, TailElements
      <4>6. srv'[k] = [srv[k] EXCEPT !.out = t]
        BY <2>1, <3>1, <4>4
      <4>7. /\ srv'[k] \in ServerConnection /\ srv'[k].conid = srv[k].conid /\ srv'[k].out = t
            /\ srv'[k].orig = srv[k].orig /\ srv'[k].asked = srv[k].asked
        BY <1>2, <4>5, <4>6 DEF ServerConnection
      <4>8. \A n \in DOMAIN t : InOrder(t[n])
        BY <1>2, <4>5 DEF Answers
      <4> QED
        BY <1>2, <4>7, <4>8 DEF Answers
    <3>2. CASE ~(~sending.closing /\ srv[k].conid = sending.conid)
      <4>1. srv'[k] = srv[k]
        BY <2>1, <3>2
      <4> QED
        BY <1>2, <4>1
    <3> QED
      BY <3>1, <3>2
  <2>5. DOMAIN srv' = DOMAIN srv /\ srv' \in Seq(ServerConnection) /\ Len(srv') = Len(srv)
    <3>1. DOMAIN srv' = DOMAIN srv
      BY <2>1
    <3>2. DOMAIN srv = 1..Len(srv) /\ Len(srv) \in Nat
      BY <1>2
    <3>3. srv' \in [1..Len(srv) -> ServerConnection]
      <4>1. srv' = [k \in DOMAIN srv' |-> srv'[k]]
        BY <2>1
      <4> HIDE DEF Server
      <4> QED
        BY <2>4, <3>1, <3>2, <4>1
    <3> QED
      BY <3>1, <3>2, <3>3
  <2>6. Fits(srv', sending')
    BY <1>2, <2>1, <2>4, <2>5 DEF Fits
  <2> QED
    BY <2>1, <2>3, <2>4, <2>5, <2>6
<1>6. Server
  BY <1>3, <1>4, <1>5
<1>7. /\ \A b : Answers(b) => Answers(b)'
      /\ \A p : InOrder(p) => InOrder(p)'
  BY <1>1, SameTableSameAnswers
<1>8. /\ Fits(srv, sending)' /\ (\A k \in DOMAIN srv' : Answers(srv[k])')
      /\ (sending' # None => InOrder(sending.packet)')
      /\ \A n \in DOMAIN down' : InOrder(down[n])'
  BY <1>6, <1>7 DEF Fits
<1>9. /\ up' \in Seq(Packet \cup {Keepalive}) /\ Len(up') <= LinkCap
      /\ \A n \in DOMAIN up' : up'[n] # Keepalive => InOrder(up[n])'
  BY <1>1, <1>7 DEF IInv, TypeOK, FlightPart, InOrder
<1> QED
  BY <1>1, <1>6, <1>8, <1>9, ServerStepKeeps

-----------------------------------------------------------------------------
(* The theorems *)

LEMMA InitIInv == Init => IInv
<1> SUFFICES ASSUME Init PROVE IInv
  OBVIOUS
<1> USE DEF Init
<1>0. PICK ok \in BOOLEAN :
         socks = [have |-> ok, up |-> FALSE, timer |-> ~ok, server |-> FALSE, freed |-> FALSE]
  OBVIOUS
<1>1. TypeOK
  <2>1. socks \in [have : BOOLEAN, up : BOOLEAN, timer : BOOLEAN, server : BOOLEAN, freed : BOOLEAN]
    BY <1>0
  <2>2. next_conid \in Conid /\ stale \in 0..MaxClients /\ submits \in 0..MaxSubmits
    BY DEF Conid
  <2>3. cons \in Seq(Connection) /\ srv \in Seq(ServerConnection)
    OBVIOUS
  <2>4. /\ up \in Seq(Packet \cup {Keepalive}) /\ Len(up) <= LinkCap
        /\ down \in Seq(Answer) /\ Len(down) <= LinkCap
    OBVIOUS
  <2>5. keepalive_sending \in BOOLEAN /\ reused \in BOOLEAN /\ link \in Link /\ sending \in Sending \cup {None}
    BY DEF Link
  <2> HIDE DEF Init
  <2> QED
    BY <2>1, <2>2, <2>3, <2>4, <2>5 DEF TypeOK
<1>2. SocksOrTimer /\ StreamPart
  BY <1>0 DEF SocksOrTimer, StreamPart
<1>3. TreesAgree /\ ServerTable /\ FlightPart
  BY DEF TreesAgree, ServerTable, FlightPart
<1> QED
  BY <1>1, <1>2, <1>3 DEF IInv

LEMMA StepIInv == IInv /\ [Next]_vars => IInv'
<1> SUFFICES ASSUME IInv, [Next]_vars PROVE IInv'
  OBVIOUS
<1>1. ASSUME Submit PROVE IInv'
  <2>1. submits' \in 0..MaxSubmits
    BY <1>1 DEF Submit, IInv, TypeOK
  <2> QED
    BY <1>1, <2>1, SubmitExistingStep, SubmitReuseStep, SubmitNewStep DEF Submit
<1>2. ASSUME ClientStep PROVE IInv'
  BY <1>2, SendQueuedStep, SendKeepaliveStep, ReceiveStep DEF ClientStep
<1>3. ASSUME ServerStep PROVE IInv'
  BY <1>3, ServerReceiveStep, ServerAnswerStep, ServerQueueSteps DEF ServerStep
<1>4. CASE UNCHANGED vars
  <2>1. UNCHANGED <<cons, next_conid, keepalive_sending, socks, link, up, down, srv, sending, stale,
                    reused, submits>>
    BY <1>4 DEF vars
  <2>2. TreesAgree' /\ \A k \in DOMAIN cons' : OwnQueue(cons[k], reused)'
    BY <2>1 DEF IInv, TreesAgree, FlightPart, OwnQueue
  <2>3. /\ cons' \in Seq(Connection) /\ next_conid' \in Conid /\ reused' \in BOOLEAN
        /\ submits' \in 0..MaxSubmits /\ keepalive_sending' \in BOOLEAN
    BY <2>1 DEF IInv, TypeOK
  <2> QED
    BY <2>1, <2>2, <2>3, SameTableKeepsFlight, TableStep
<1> QED
  BY <1>1, <1>2, <1>3, <1>4, ConnectSteps, DisconnectSteps DEF Next

\* The invariant that the theorems below rest on holds in every reachable state.
THEOREM Inductive == Spec => []IInv
BY InitIInv, StepIInv, PTL DEF Spec

\* Types: tables, queues, both directions of the stream, the client count of the
\* server and the budgets.
THEOREM UdpTypeCorrect == Spec => []TypeOK
<1>1. IInv => TypeOK
  BY DEF IInv
<1> QED
  BY <1>1, Inductive, PTL

\* SocksUdpGwClient always has a SOCKS connection or the timer that makes one, and
\* its server exactly while SOCKS is up, until it is freed.
THEOREM UdpIsNeverDead == Spec => []SocksOrTimer
<1>1. IInv => SocksOrTimer
  BY DEF IInv
<1> QED
  BY <1>1, Inductive, PTL

\* The two trees of UdpGwClient hold every connection once, for every number of
\* conids: find_unused_conid never returns one that is in use, and a reused
\* connection keeps the conid of the packets that wait in it.
THEOREM ClientTreesAgree == Spec => []TreesAgree
<1>1. IInv => TreesAgree
  BY DEF IInv
<1> QED
  BY <1>1, Inductive, PTL

\* The table of the server stays within its limit with one connection per conid,
\* and the fair queue never sends for a freed connection.
THEOREM ServerTableIsSound == Spec => []ServerTable
<1>1. IInv => ServerTable
  BY DEF IInv
<1> QED
  BY <1>1, Inductive, PTL

\* A datagram is sent to the peer it was addressed to, and what an application
\* receives in a peer's name came in through a socket that has sent to that peer,
\* whoever sent it and whatever conids are reused and packets dropped.
THEOREM PeersAreNeverMixed == Spec => []PeersAreKept
<1>1. IInv => PeersAreKept
  BY DEF IInv, FlightPart, PeersAreKept, PassedTo, Accepts, InOrder, Carried
<1> QED
  BY <1>1, Inductive, PTL

\* As long as no conid was reused, what comes in through a socket goes to the
\* application whose datagrams that socket has sent.
THEOREM AnswersReachTheirOwner == Spec => []OwnAnswer
<1>1. IInv => OwnAnswer
  <2> SUFFICES ASSUME IInv, ~reused, NEW i \in DOMAIN cons, NEW n \in DOMAIN down,
                      Accepts(cons[i], down[n])
               PROVE  down[n].data = cons[i].conaddr
    BY DEF OwnAnswer, PassedTo
  <2>1. PICK j \in DOMAIN cons : cons[j].conid = down[n].conid /\ cons[j].conaddr = down[n].data
    BY DEF IInv, FlightPart, InOrder, Carried
  <2>2. j = i
    BY <2>1 DEF Accepts, IInv, TreesAgree
  <2> QED
    BY <2>1, <2>2
<1> QED
  BY <1>1, Inductive, PTL
=============================================================================
