---------------------------- MODULE SocketsTypes -----------------------------
(***************************************************************************)
(* The types of the sockets, and what the wires carry, for any sockets, any *)
(* packet size, any kernel buffer and streams of any length.               *)
(***************************************************************************)
EXTENDS Sockets, SequenceTheorems, TLAPS

USE DEF hostVars, clientVars, wireVars, devVars

-----------------------------------------------------------------------------
\* The empty wire, on which nothing travels.
LEMMA CarriesEmpty ==
  ASSUME NEW w, w = << >>
  PROVE  \A t : ~Carries(w, t) /\ CarriesOne(w, t)
BY DEF Carries, CarriesOne

\* A packet sent joins the end of the wire.
LEMMA CarriesAppend ==
  ASSUME NEW w \in Seq(Packets), NEW p \in Packets
  PROVE  /\ w \o <<p>> \in Seq(Packets) /\ w \o <<p>> # << >>
         /\ \A t : Carries(w \o <<p>>, t) <=> Carries(w, t) \/ p.type = t
         /\ \A t : CarriesOne(w, t) /\ (p.type = t => ~Carries(w, t))
                     => CarriesOne(w \o <<p>>, t)
<1> DEFINE v == w \o <<p>>
<1>1. /\ v \in Seq(Packets) /\ Len(v) = Len(w) + 1 /\ Len(w) \in Nat
      /\ \A i \in 1 .. Len(w) : v[i] = w[i]
      /\ v[Len(w) + 1] = p
  OBVIOUS
<1>2. v # << >>
  BY <1>1
<1> HIDE DEF v
<1>3. \A t : Carries(v, t) <=> Carries(w, t) \/ p.type = t
  BY <1>1 DEF Carries
<1>4. \A t : CarriesOne(w, t) /\ (p.type = t => ~Carries(w, t)) => CarriesOne(v, t)
  <2> SUFFICES ASSUME NEW t, CarriesOne(w, t), p.type = t => ~Carries(w, t),
                      NEW i \in 1 .. Len(v), NEW j \in 1 .. Len(v),
                      v[i].type = t, v[j].type = t
               PROVE  i = j
    BY Zenon DEF CarriesOne
  <2>1. CASE i \in 1 .. Len(w) /\ j \in 1 .. Len(w)
    BY <1>1, <2>1 DEF CarriesOne
  <2>2. CASE i = Len(w) + 1 \/ j = Len(w) + 1
    BY <1>1, <2>2 DEF Carries
  <2> QED  BY <1>1, <2>1, <2>2
<1> QED  BY <1>1, <1>2, <1>3, <1>4 DEF v

\* A packet taken leaves the front of the wire; it was on it.
LEMMA CarriesTail ==
  ASSUME NEW w \in Seq(Packets), w # << >>
  PROVE  /\ Tail(w) \in Seq(Packets) /\ Head(w) \in Packets
         /\ Carries(w, Head(w).type)
         /\ \A t : Carries(Tail(w), t) => Carries(w, t)
         /\ \A t : CarriesOne(w, t) => CarriesOne(Tail(w), t)
         /\ \A t : CarriesOne(w, t) /\ Head(w).type = t => ~Carries(Tail(w), t)
<1> DEFINE v == Tail(w)
<1>1. /\ v \in Seq(Packets) /\ Len(w) \in Nat \ {0} /\ Len(v) = Len(w) - 1
      /\ \A i \in 1 .. Len(v) : v[i] = w[i + 1]
      /\ Head(w) = w[1] /\ w[1] \in Packets
  BY EmptySeq
<1> HIDE DEF v
<1>2. Carries(w, Head(w).type)
  BY <1>1 DEF Carries
<1>3. \A t : Carries(v, t) => Carries(w, t)
  BY <1>1 DEF Carries
<1>4. \A t : CarriesOne(w, t) => CarriesOne(v, t)
  <2> SUFFICES ASSUME NEW t, CarriesOne(w, t), NEW i \in 1 .. Len(v),
                      NEW j \in 1 .. Len(v), v[i].type = t, v[j].type = t
               PROVE  i = j
    BY Zenon DEF CarriesOne
  <2>1. w[i + 1].type = t /\ w[j + 1].type = t
    BY <1>1, Zenon
  <2>2. i + 1 \in 1 .. Len(w) /\ j + 1 \in 1 .. Len(w)
    BY <1>1
  <2>3. i + 1 = j + 1
    BY <2>1, <2>2, Zenon DEF CarriesOne
  <2> QED  BY <2>3
<1>5. \A t : CarriesOne(w, t) /\ Head(w).type = t => ~Carries(v, t)
  <2> SUFFICES ASSUME NEW t, CarriesOne(w, t), Head(w).type = t,
                      NEW i \in 1 .. Len(v), v[i].type = t
               PROVE  FALSE
    BY DEF Carries
  <2>1. w[i + 1].type = t /\ i + 1 \in 1 .. Len(w) /\ 1 \in 1 .. Len(w) /\ w[1].type = t
    BY <1>1
  <2>2. i + 1 = 1
    BY <2>1 DEF CarriesOne
  <2> QED  BY <2>2
<1> QED  BY <1>1, <1>2, <1>3, <1>4, <1>5 DEF v

\* The last packet of a broken link is lost.
LEMMA CarriesFront ==
  ASSUME NEW w \in Seq(Packets), w # << >>
  PROVE  LET v == SubSeq(w, 1, Len(w) - 1)
         IN /\ v \in Seq(Packets)
            /\ \A t : Carries(v, t) => Carries(w, t)
            /\ \A t : CarriesOne(w, t) => CarriesOne(v, t)
<1> DEFINE v == SubSeq(w, 1, Len(w) - 1)
<1>0. Len(w) \in Nat \ {0} /\ \A i \in 1 .. Len(w) : w[i] \in Packets
  BY EmptySeq
<1>1. /\ v \in Seq(Packets) /\ Len(v) = Len(w) - 1
      /\ \A i \in 1 .. Len(v) : v[i] = w[i]
  <2> DEFINE n == Len(w) - 1
  <2>1. n \in Int /\ 1 \in Int /\ \A i \in 1 .. n : w[i] \in Packets
    BY <1>0
  <2> HIDE DEF n
  <2>2. /\ SubSeq(w, 1, n) \in Seq(Packets)
        /\ Len(SubSeq(w, 1, n)) = IF 1 <= n THEN n - 1 + 1 ELSE 0
        /\ \A i \in 1 .. n - 1 + 1 : SubSeq(w, 1, n)[i] = w[1 + i - 1]
    BY <2>1, SubSeqProperties
  <2>3. n \in Nat
    BY <1>0 DEF n
  <2>4. Len(SubSeq(w, 1, n)) = n
    BY <2>2, <2>3
  <2>5. ASSUME NEW i \in 1 .. n PROVE SubSeq(w, 1, n)[i] = w[i]
    <3>1. i \in 1 .. n - 1 + 1 /\ 1 + i - 1 = i
      BY <2>3
    <3> QED  BY <2>2, <3>1
  <2>6. v = SubSeq(w, 1, n)
    BY DEF v, n
  <2> QED  BY <2>2, <2>4, <2>5, <2>6 DEF n
<1> HIDE DEF v
<1>2. /\ \A t : Carries(v, t) => Carries(w, t)
      /\ \A t : CarriesOne(w, t) => CarriesOne(v, t)
  BY <1>0, <1>1 DEF Carries, CarriesOne
<1> QED  BY <1>1, <1>2 DEF v

-----------------------------------------------------------------------------
\* The packets the model sends are packets.
LEMMA PacketTypes5 ==
  /\ OPEN \in Packets /\ OKAY \in Packets /\ CLSE \in Packets /\ FAILED \in Packets
  /\ OPEN.type = "OPEN" /\ OKAY.type = "OKAY" /\ CLSE.type = "CLSE"
  /\ FAILED.type = "FAILED"
  /\ \A d \in UnitSeqs : /\ WRTE(d).type = "WRTE" /\ WRTE(d).data = d
                         /\ Len(d) <= Payload => WRTE(d) \in Packets
<1>1. << >> \in UnitSeqs /\ Len(<< >>) = 0 /\ 0 <= Payload
  BY BoundsAssumption DEF UnitSeqs
<1> QED  BY <1>1 DEF OPEN, OKAY, CLSE, FAILED, WRTE, Packet, Packets, PacketTypes

\* A chunk of a stream has the length asked for.
LEMMA ChunkType ==
  ASSUME NEW n \in Nat, NEW k \in Nat
  PROVE  Chunk(n, k) \in UnitSeqs /\ Len(Chunk(n, k)) = k
<1>1. \A i \in 1 .. k : n + i \in Nat
  OBVIOUS
<1> QED  BY <1>1 DEF Chunk, UnitSeqs

\* The two parts of data that a write was cut into.
LEMMA CutType ==
  ASSUME NEW d \in UnitSeqs, NEW k \in 0 .. Len(d)
  PROVE  /\ SubSeq(d, 1, k) \in UnitSeqs /\ Len(SubSeq(d, 1, k)) = k
         /\ SubSeq(d, k + 1, Len(d)) \in UnitSeqs
         /\ Len(SubSeq(d, k + 1, Len(d))) = Len(d) - k
<1>1. Len(d) \in Nat /\ k \in Nat /\ k <= Len(d) /\ \A i \in 1 .. Len(d) : d[i] \in Nat
  BY DEF UnitSeqs
<1>2. /\ SubSeq(d, 1, k) \in Seq(Nat)
      /\ Len(SubSeq(d, 1, k)) = IF 1 <= k THEN k - 1 + 1 ELSE 0
  <2>1. 1 \in Int /\ k \in Int /\ \A i \in 1 .. k : d[i] \in Nat
    BY <1>1
  <2> QED  BY <2>1, SubSeqProperties
<1>3. /\ SubSeq(d, k + 1, Len(d)) \in Seq(Nat)
      /\ Len(SubSeq(d, k + 1, Len(d))) =
           IF k + 1 <= Len(d) THEN Len(d) - (k + 1) + 1 ELSE 0
  <2> DEFINE m == k + 1
             n == Len(d)
  <2>1. m \in Int /\ n \in Int /\ \A i \in m .. n : d[i] \in Nat
    BY <1>1
  <2> HIDE DEF m, n
  <2>2. /\ SubSeq(d, m, n) \in Seq(Nat)
        /\ Len(SubSeq(d, m, n)) = IF m <= n THEN n - m + 1 ELSE 0
    BY <2>1, SubSeqProperties
  <2> QED  BY <2>2 DEF m, n
<1> QED  BY <1>1, <1>2, <1>3 DEF UnitSeqs

\* Two sequences of packets one after the other.
LEMMA WireConcat ==
  /\ \A v, w \in Seq(Packets) : v \o w \in Seq(Packets)
  /\ \A v, w \in UnitSeqs : v \o w \in UnitSeqs /\ Len(v \o w) = Len(v) + Len(w)
  /\ \A w \in Seq(Packets) : w \o << >> = w
  /\ \A u, v, w \in Seq(Packets) : u \o (v \o w) = (u \o v) \o w
<1>1. ASSUME NEW u \in Seq(Packets), NEW v \in Seq(Packets), NEW w \in Seq(Packets)
      PROVE  u \o (v \o w) = (u \o v) \o w
  BY ConcatAssociative, SMTT(40)
<1>2. ASSUME NEW w \in Seq(Packets) PROVE w \o << >> = w
  BY ConcatEmptySeq
<1>3. /\ \A v, w \in Seq(Packets) : v \o w \in Seq(Packets)
      /\ \A v, w \in UnitSeqs : v \o w \in UnitSeqs /\ Len(v \o w) = Len(v) + Len(w)
  BY DEF UnitSeqs
<1> QED  BY <1>1, <1>2, <1>3, Zenon

\* SmallerOf is one of the two, and no larger than either.
LEMMA SmallerOfType ==
  ASSUME NEW a \in Nat, NEW b \in Nat
  PROVE  SmallerOf(a, b) \in 0 .. a /\ SmallerOf(a, b) <= b
BY DEF SmallerOf

-----------------------------------------------------------------------------
\* Closing a socket keeps the types of the server's state.
LEMMA CloseLockedType ==
  ASSUME NEW s \in Sockets, NEW q \in UnitSeqs, HostType, CloseLocked(s, q)
  PROVE  HostType'
<1>1. << >> \in UnitSeqs
  BY DEF UnitSeqs
<1> QED  BY <1>1 DEF HostType, CloseLocked, SockStates

\* Sending keeps the type of the wire to the device.
LEMMA SendType ==
  ASSUME NEW s \in Sockets, NEW p \in Seq(Packets), WireType, Send(s, p)
  PROVE  toDevice' \in [Sockets -> Seq(Packets)]
BY WireConcat DEF WireType, Send

\* An answer of adbd keeps the type of its wire.
LEMMA AnswerType ==
  ASSUME NEW s \in Sockets, NEW p \in Seq(Packets), WireType, DevAnswer(s, p)
  PROVE  toHost' \in [Sockets -> Seq(Packets)]
BY WireConcat DEF WireType, DevAnswer

\* Taking the first packet of a wire keeps its type.
LEMMA TakeType ==
  ASSUME NEW f \in [Sockets -> Seq(Packets)], NEW s \in Sockets, f[s] # << >>
  PROVE  [f EXCEPT ![s] = Tail(@)] \in [Sockets -> Seq(Packets)]
BY CarriesTail

\* Short sequences of packets.
LEMMA ShortSeqs ==
  /\ << >> \in Seq(Packets)
  /\ \A p \in Packets : <<p>> \in Seq(Packets)
  /\ \A p, q \in Packets : <<p>> \o <<q>> \in Seq(Packets)
OBVIOUS

-----------------------------------------------------------------------------
\* The types hold at the start.
LEMMA TypeInit == Init => TypeOK
<1>1. << >> \in UnitSeqs /\ 0 \in 0 .. Room
  BY BoundsAssumption DEF UnitSeqs
<1> QED  BY <1>1, ShortSeqs
         DEF Init, TypeOK, HostType, ClientType, WireType, DevType, SockStates,
             DevStates, Statuses

\* Writing data that fits keeps the types of the client's side.
LEMMA WriteFdType ==
  ASSUME ClientType, NEW s \in Sockets, NEW d \in UnitSeqs, Len(d) <= Room - unread[s],
         WriteFd(s, d), UNCHANGED <<client, sent, inbuf, status>>
  PROVE  ClientType'
<1>1. given[s] \o d \in UnitSeqs
  BY WireConcat DEF ClientType
<1>2. unread[s] + Len(d) \in 0 .. Room
  BY BoundsAssumption DEF ClientType, UnitSeqs
<1> QED  BY <1>1, <1>2, Zenon DEF ClientType, WriteFd

\* The parts of the server's write: at most the room there is.
LEMMA FitsType ==
  ASSUME ClientType, NEW s \in Sockets, NEW d \in UnitSeqs
  PROVE  LET k == SmallerOf(Len(d), Room - unread[s])
         IN /\ k \in 0 .. Len(d) /\ k <= Room - unread[s]
            /\ SubSeq(d, 1, k) \in UnitSeqs /\ Len(SubSeq(d, 1, k)) = k
            /\ SubSeq(d, k + 1, Len(d)) \in UnitSeqs
            /\ Len(SubSeq(d, k + 1, Len(d))) = Len(d) - k
<1> DEFINE k == SmallerOf(Len(d), Room - unread[s])
<1>1. Len(d) \in Nat /\ Room - unread[s] \in Nat
  BY BoundsAssumption DEF ClientType, UnitSeqs
<1>2. k \in 0 .. Len(d) /\ k <= Room - unread[s]
  BY <1>1, SmallerOfType, Zenon
<1> HIDE DEF k
<1>3. /\ SubSeq(d, 1, k) \in UnitSeqs /\ Len(SubSeq(d, 1, k)) = k
      /\ SubSeq(d, k + 1, Len(d)) \in UnitSeqs
      /\ Len(SubSeq(d, k + 1, Len(d))) = Len(d) - k
  BY <1>2, CutType
<1> QED  BY <1>2, <1>3 DEF k

\* The packets of the server's main thread keep the types.
LEMMA MainType ==
  ASSUME TypeOK, NEW s \in Sockets, Main(s)
  PROVE  TypeOK'
<1> USE DEF TypeOK
<1>0. /\ << >> \in UnitSeqs /\ << >> \in Seq(Packets)
      /\ <<OKAY>> \in Seq(Packets) /\ <<CLSE>> \in Seq(Packets) /\ <<FAILED>> \in Seq(Packets)
  BY ShortSeqs, PacketTypes5 DEF UnitSeqs
<1>1. CASE HandleOpen(s)
  <2>1. toHost' \in [Sockets -> Seq(Packets)]
    BY <1>1, TakeType DEF HandleOpen, WireType
  <2>2. toDevice' \in [Sockets -> Seq(Packets)]
    BY <1>0, <1>1, SendType, Zenon DEF HandleOpen
  <2>3. HostType'
    BY <1>1 DEF HandleOpen, HostType, SockStates
  <2> QED  BY <1>1, <2>1, <2>2, <2>3, Zenon DEF HandleOpen, WireType, ClientType, DevType
<1>2. CASE HandleOkay(s)
  <2>1. toHost' \in [Sockets -> Seq(Packets)]
    BY <1>2, TakeType DEF HandleOkay, WireType
  <2>2. HostType'
    BY <1>2 DEF HandleOkay, HostType, SockStates
  <2>3. ClientType'
    BY <1>2, Zenon DEF HandleOkay, ClientType, WriteStatus, Statuses
  <2> QED  BY <1>2, <2>1, <2>2, <2>3, Zenon DEF HandleOkay, WireType, DevType
<1>3. CASE HandleClose(s)
  <2>1. toHost' \in [Sockets -> Seq(Packets)]
    BY <1>3, TakeType DEF HandleClose, WireType
  <2>2. Shutdown(s) \in Seq(Packets)
    BY <1>0 DEF Shutdown
  <2>3. toDevice' \in [Sockets -> Seq(Packets)]
    BY <1>3, <2>2, SendType, Zenon DEF HandleClose, WireType
  <2>4. queue[s] \in UnitSeqs
    BY DEF HostType
  <2>5. HostType'
    <3>1. CASE CloseLocked(s, queue[s])
      BY <2>4, <3>1, CloseLockedType
    <3>2. CASE UNCHANGED hostVars
      BY <3>2 DEF HostType
    <3> QED  BY <1>3, <3>1, <3>2 DEF HandleClose
  <2>6. ClientType'
    BY <1>3, Zenon DEF HandleClose, ClientType, WriteStatus, Statuses
  <2> QED  BY <1>3, <2>1, <2>3, <2>5, <2>6, Zenon DEF HandleClose, WireType, DevType
<1>4. CASE HandleWrite(s)
  <2> DEFINE d == Head(toHost[s]).data
             k == SmallerOf(Len(d), Room - unread[s])
  <2>1. toHost' \in [Sockets -> Seq(Packets)]
    BY <1>4, TakeType, Zenon DEF HandleWrite, WireType
  <2>2. d \in UnitSeqs
    BY <1>4, CarriesTail, Zenon DEF HandleWrite, WireType, Packets
  <2> HIDE DEF d
  <2>3. /\ k \in 0 .. Len(d) /\ k <= Room - unread[s] /\ Len(d) \in Nat
        /\ SubSeq(d, 1, k) \in UnitSeqs /\ Len(SubSeq(d, 1, k)) = k
        /\ SubSeq(d, k + 1, Len(d)) \in UnitSeqs
    BY <2>2, FitsType DEF UnitSeqs
  <2>4. queue[s] \o d \in UnitSeqs
    BY <2>2, WireConcat DEF HostType
  <2> HIDE DEF k
  <2>5. toDevice' \in [Sockets -> Seq(Packets)]
    BY <1>0, <1>4, SendType, Zenon DEF HandleWrite, WireType
  <2>6. HostType'
    <3>1. CASE CloseLocked(s, << >>)
      BY <1>0, <3>1, CloseLockedType
    <3>2. CASE UNCHANGED hostVars
      BY <3>2 DEF HostType
    <3>3. CASE /\ queue' = [queue EXCEPT ![s] = @ \o d]
               /\ events' = [events EXCEPT ![s] = @ \cup {"write"}] /\ sock' = sock
      BY <2>4, <3>3 DEF HostType
    <3>4. CASE /\ queue' = [queue EXCEPT ![s] = SubSeq(d, k + 1, Len(d))]
               /\ events' = [events EXCEPT ![s] = @ \cup {"write"}] /\ sock' = sock
      BY <2>3, <3>4, Zenon DEF HostType
    <3> QED  BY <1>4, <3>1, <3>2, <3>3, <3>4, Zenon DEF HandleWrite, d, k
  <2>7. ClientType'
    <3>1. UNCHANGED <<client, sent, inbuf, status>>
      BY <1>4, Zenon DEF HandleWrite
    <3>2. CASE k = Len(d) /\ WriteFd(s, d)
      BY <2>2, <2>3, <3>1, <3>2, WriteFdType
    <3>3. CASE WriteFd(s, SubSeq(d, 1, k))
      BY <2>3, <3>1, <3>3, WriteFdType, Zenon
    <3>4. CASE UNCHANGED <<given, unread>>
      BY <3>1, <3>4 DEF ClientType
    <3> QED  BY <1>4, <3>2, <3>3, <3>4, Zenon DEF HandleWrite, d, k
  <2> QED  BY <1>4, <2>1, <2>5, <2>6, <2>7, Zenon DEF HandleWrite, WireType, DevType
<1>5. CASE EventWrite(s)
  <2> DEFINE q == queue[s]
             k == SmallerOf(Len(q), Room - unread[s])
             rest == SubSeq(q, k + 1, Len(q))
  <2>1. q \in UnitSeqs
    BY DEF HostType
  <2> HIDE DEF q
  <2>2. /\ k \in 0 .. Len(q) /\ k <= Room - unread[s] /\ rest \in UnitSeqs
        /\ SubSeq(q, 1, k) \in UnitSeqs /\ Len(SubSeq(q, 1, k)) = k
    BY <2>1, FitsType
  <2> HIDE DEF k, rest
  <2>3. Shutdown(s) \in Seq(Packets)
    BY <1>0 DEF Shutdown
  <2>4. toDevice' \in [Sockets -> Seq(Packets)]
    BY <1>0, <1>5, <2>3, SendType, Zenon DEF EventWrite, WireType
  <2>5. HostType'
    <3>1. CASE CloseLocked(s, q) \/ CloseLocked(s, << >>)
      BY <1>0, <2>1, <3>1, CloseLockedType
    <3>2. CASE queue' = [queue EXCEPT ![s] = rest] /\ UNCHANGED <<sock, events>>
      BY <2>2, <3>2 DEF HostType
    <3>3. CASE /\ queue' = [queue EXCEPT ![s] = << >>]
               /\ events' = [events EXCEPT ![s] = @ \ {"write"}] /\ sock' = sock
      BY <1>0, <3>3 DEF HostType
    <3> QED  BY <1>5, <3>1, <3>2, <3>3, Zenon DEF EventWrite, q, k, rest
  <2>6. ClientType'
    <3>1. UNCHANGED <<client, sent, inbuf, status>>
      BY <1>5, Zenon DEF EventWrite
    <3>2. CASE WriteFd(s, SubSeq(q, 1, k))
      BY <2>2, <3>1, <3>2, WriteFdType, Zenon
    <3>3. CASE UNCHANGED <<given, unread>>
      BY <3>1, <3>3 DEF ClientType
    <3> QED  BY <1>5, <3>2, <3>3, Zenon DEF EventWrite, q, k
  <2> QED  BY <1>5, <2>4, <2>5, <2>6, Zenon DEF EventWrite, WireType, DevType
<1>6. CASE EventRead(s)
  <2> DEFINE k == SmallerOf(inbuf[s], Payload)
             c == Chunk(sent[s] - inbuf[s], k)
             data == IF k = 0 THEN << >> ELSE <<WRTE(c)>>
  <2>1. k \in 0 .. inbuf[s] /\ k <= Payload /\ inbuf[s] \in Nat
    BY BoundsAssumption, SmallerOfType, Zenon DEF ClientType
  <2> HIDE DEF k
  <2>2. sent[s] - inbuf[s] \in Nat
    BY DEF ClientType
  <2>3. c \in UnitSeqs /\ Len(c) <= Payload
    BY <2>1, <2>2, ChunkType
  <2> HIDE DEF c
  <2>4. data \in Seq(Packets) /\ Shutdown(s) \in Seq(Packets)
    BY <1>0, <2>3, PacketTypes5, ShortSeqs DEF Shutdown
  <2>5. data \o Shutdown(s) \in Seq(Packets)
    BY <2>4, WireConcat
  <2> HIDE DEF data
  <2>6. toDevice' \in [Sockets -> Seq(Packets)]
    BY <1>6, <2>4, <2>5, SendType, Zenon DEF EventRead, WireType, data, c, k
  <2>7. HostType'
    <3>1. CASE CloseLocked(s, queue[s])
      BY <3>1, CloseLockedType DEF HostType
    <3>2. CASE events' = [events EXCEPT ![s] = @ \ {"read"}] /\ UNCHANGED <<sock, queue>>
      BY <3>2 DEF HostType
    <3> QED  BY <1>6, <3>1, <3>2 DEF EventRead
  <2>8. ClientType'
    <3>1. inbuf' = [inbuf EXCEPT ![s] = @ - k] /\ UNCHANGED <<client, sent, status, given, unread>>
      BY <1>6 DEF EventRead, k
    <3> QED  BY <2>1, <3>1 DEF ClientType
  <2> QED  BY <1>6, <2>6, <2>7, <2>8, Zenon DEF EventRead, WireType, DevType
<1> QED  BY <1>1, <1>2, <1>3, <1>4, <1>5, <1>6 DEF Main

\* The clients keep the types.
LEMMA ClientsType ==
  ASSUME TypeOK, NEW s \in Sockets, Client(s)
  PROVE  TypeOK'
<1> USE DEF TypeOK
<1>1. CASE Connect(s)
  <2>1. toDevice' \in [Sockets -> Seq(Packets)]
    BY <1>1, PacketTypes5, ShortSeqs, SendType, Zenon DEF Connect
  <2>2. HostType'
    BY <1>1 DEF Connect, HostType, SockStates
  <2> QED  BY <1>1, <2>1, <2>2, Zenon DEF Connect, WireType, ClientType, DevType
<1>2. CASE ClientWrite(s)
  <2>1. ClientType'
    BY <1>2 DEF ClientWrite, ClientType
  <2> QED  BY <1>2, <2>1, Zenon DEF ClientWrite, HostType, WireType, DevType
<1>3. CASE ClientRead(s)
  <2>1. ClientType'
    BY <1>3, BoundsAssumption DEF ClientRead, ClientType
  <2> QED  BY <1>3, <2>1, Zenon DEF ClientRead, HostType, WireType, DevType
<1>4. CASE ClientClose(s)
  <2>1. ClientType'
    BY <1>4, BoundsAssumption DEF ClientClose, ClientType
  <2> QED  BY <1>4, <2>1, Zenon DEF ClientClose, HostType, WireType, DevType
<1> QED  BY <1>1, <1>2, <1>3, <1>4 DEF Client

\* adbd keeps the types.
LEMMA DeviceType ==
  ASSUME TypeOK, NEW s \in Sockets, Device(s)
  PROVE  TypeOK'
<1> USE DEF TypeOK
<1>0. /\ << >> \in Seq(Packets) /\ <<OPEN>> \in Seq(Packets) /\ <<OKAY>> \in Seq(Packets)
      /\ <<CLSE>> \in Seq(Packets) /\ <<FAILED>> \in Seq(Packets)
  BY ShortSeqs, PacketTypes5
<1>1. ASSUME NEW type, DevTake(s, type)
      PROVE  toDevice' \in [Sockets -> Seq(Packets)] /\ Head(toDevice[s]) \in Packets
  BY <1>1, TakeType, CarriesTail DEF DevTake, WireType
<1>2. CASE DevOpen(s)
  <2>1. toHost' \in [Sockets -> Seq(Packets)]
    BY <1>0, <1>2, AnswerType, Zenon DEF DevOpen
  <2>2. DevType'
    BY <1>2 DEF DevOpen, DevType, DevStates
  <2> QED  BY <1>2, <2>1, <2>2, Zenon DEF DevOpen, HostType, ClientType, WireType
<1>3. CASE DevAccept(s)
  <2>1. toHost' \in [Sockets -> Seq(Packets)]
    BY <1>0, <1>3, AnswerType, Zenon DEF DevAccept
  <2>2. DevType'
    BY <1>3, Zenon DEF DevAccept, DevType, DevStates
  <2> QED  BY <1>1, <1>3, <2>1, <2>2, Zenon DEF DevAccept, HostType, ClientType, WireType
<1>4. CASE DevOkay(s)
  <2>1. DevType'
    BY <1>4 DEF DevOkay, DevType, DevStates
  <2> QED  BY <1>1, <1>4, <2>1, Zenon DEF DevOkay, HostType, ClientType, WireType
<1>5. CASE DevReceive(s)
  <2>1. Head(toDevice[s]).data \in UnitSeqs
    BY <1>1, <1>5, Zenon DEF DevReceive, Packets
  <2>2. devGiven[s] \o Head(toDevice[s]).data \in UnitSeqs
    BY <2>1, WireConcat DEF DevType
  <2>3. DevType'
    BY <1>5, <2>2, Zenon DEF DevReceive, DevType
  <2> QED  BY <1>1, <1>5, <2>3, Zenon DEF DevReceive, HostType, ClientType, WireType
<1>6. CASE DevReady(s)
  <2>1. toHost' \in [Sockets -> Seq(Packets)]
    BY <1>0, <1>6, AnswerType, Zenon DEF DevReady
  <2>2. DevType'
    BY <1>6, Zenon DEF DevReady, DevType
  <2> QED  BY <1>6, <2>1, <2>2, Zenon DEF DevReady, HostType, ClientType, WireType
<1>7. CASE DevWrite(s)
  <2>1. PICK k \in 1 .. Payload :
          /\ devSent' = [devSent EXCEPT ![s] = @ + k]
          /\ DevAnswer(s, <<WRTE(Chunk(devSent[s], k))>>)
    BY <1>7, Zenon DEF DevWrite
  <2>2. devSent[s] \in Nat /\ k \in Nat /\ k <= Payload
    BY BoundsAssumption DEF DevType
  <2>3. <<WRTE(Chunk(devSent[s], k))>> \in Seq(Packets)
    BY <2>2, ChunkType, PacketTypes5, ShortSeqs, Zenon
  <2>4. toHost' \in [Sockets -> Seq(Packets)]
    BY <2>1, <2>3, AnswerType, Zenon
  <2>5. DevType'
    BY <1>7, <2>1, <2>2 DEF DevWrite, DevType
  <2> QED  BY <1>7, <2>4, <2>5, Zenon DEF DevWrite, HostType, ClientType, WireType
<1>8. CASE DevEnd(s)
  <2>1. toHost' \in [Sockets -> Seq(Packets)]
    BY <1>0, <1>8, AnswerType, Zenon DEF DevEnd
  <2>2. DevType'
    BY <1>8 DEF DevEnd, DevType, DevStates
  <2> QED  BY <1>8, <2>1, <2>2, Zenon DEF DevEnd, HostType, ClientType, WireType
<1>9. CASE DevClose(s)
  <2>1. toHost' \in [Sockets -> Seq(Packets)]
    BY <1>0, <1>9, AnswerType, Zenon DEF DevClose
  <2>2. DevType'
    BY <1>9 DEF DevClose, DevType, DevStates
  <2> QED  BY <1>1, <1>9, <2>1, <2>2, Zenon DEF DevClose, HostType, ClientType, WireType
<1> QED  BY <1>2, <1>3, <1>4, <1>5, <1>6, <1>7, <1>8, <1>9, Zenon DEF Device

\* Every step keeps the types.
LEMMA TypeStep == TypeOK /\ [Next]_vars => TypeOK'
<1> SUFFICES ASSUME TypeOK, [Next]_vars PROVE TypeOK'
  OBVIOUS
<1> USE DEF TypeOK
<1>1. ASSUME NEW s \in Sockets, LosePacket(s) PROVE TypeOK'
  <2>1. toHost' \in [Sockets -> Seq(Packets)]
    BY <1>1, CarriesFront, Zenon DEF LosePacket, WireType
  <2> QED  BY <1>1, <2>1, Zenon DEF LosePacket, HostType, ClientType, WireType, DevType
<1>2. CASE LoseLink
  BY <1>2, Zenon DEF LoseLink, HostType, ClientType, WireType, DevType
<1>3. CASE HandleOffline
  <2>1. HostType'
    BY <1>3 DEF HandleOffline, HostType, SockStates
  <2> QED  BY <1>3, <2>1, Zenon DEF HandleOffline, ClientType, WireType, DevType
<1>4. CASE CloseAllSockets
  <2>1. HostType'
    BY <1>4 DEF CloseAllSockets, HostType, SockStates
  <2> QED  BY <1>4, <2>1 DEF CloseAllSockets, ClientType, WireType, DevType
<1>5. CASE UNCHANGED vars
  BY <1>5, Zenon DEF vars, HostType, ClientType, WireType, DevType
<1> QED  BY <1>1, <1>2, <1>3, <1>4, <1>5, MainType, ClientsType, DeviceType DEF Next

\* The state of the sockets keeps its types, and with them the bounds of a
\* packet and of the kernel buffer, whatever the clients and adbd do.
THEOREM SocketTypes == Spec => []TypeOK
<1>1. TypeOK /\ UNCHANGED vars => TypeOK'
  BY TypeStep
<1> QED  BY <1>1, TypeInit, TypeStep, PTL DEF Spec
=============================================================================
