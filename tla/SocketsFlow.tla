----------------------------- MODULE SocketsFlow -----------------------------
(***************************************************************************)
(* Flow control, events and status of the sockets: one invariant per        *)
(* socket, kept by every step of the server, the client and adbd.           *)
(***************************************************************************)
EXTENDS SocketsTypes

USE DEF hostVars, clientVars, wireVars, devVars

(* No right to send is held outside the wires. *)
Calm(s) == events[s] = {} /\ queue[s] = << >> /\ ~credit[s] /\ ~owes[s]

(* FlowControl, EventsMatchState and StatusFirst, of one socket. *)
Flow(s) ==
  /\ CarriesOne(toDevice[s], "WRTE") /\ CarriesOne(toHost[s], "OKAY")
  /\ CarriesOne(toHost[s], "WRTE") /\ CarriesOne(toDevice[s], "OKAY")
  /\ AtMostOne("read" \in events[s], Carries(toDevice[s], "WRTE"),
               owes[s], Carries(toHost[s], "OKAY"))
  /\ AtMostOne(credit[s], Carries(toHost[s], "WRTE"),
               queue[s] # << >>, Carries(toDevice[s], "OKAY"))
  /\ Len(queue[s]) <= Payload

Waits(s) ==
  /\ sock[s] = "closing" => queue[s] # << >> /\ events[s] = {"write"}
  /\ "read" \in events[s] => sock[s] = "open"
  /\ queue[s] # << >> <=> "write" \in events[s]
  /\ "write" \in events[s] => sock[s] \in {"open", "closing"}

Told(s) ==
  /\ s \in Smart /\ given[s] # << >> => status[s] = "OKAY"
  /\ s \in Smart /\ status[s] = "FAIL" => sock[s] = "gone"
  /\ s \in Smart /\ client[s] /\ sock[s] \in {"open", "closing"} => status[s] = "OKAY"
  /\ sock[s] \in {"none", "opening"} => status[s] = "none" /\ given[s] = << >>

(* Nothing of a connection exists before its OPEN is taken. *)
Begins(s) ==
  /\ sock[s] = "none" =>
       /\ Calm(s) /\ toDevice[s] = << >>
       /\ toHost[s] = << >> \/ (toHost[s] = <<OPEN>> /\ dev[s] = "opening")
       /\ dev[s] \in {"none", "opening"}
       /\ dev[s] = "opening" => s \in Service
  /\ Carries(toDevice[s], "OPEN") =>
       /\ Calm(s) /\ toDevice[s] = <<OPEN>> /\ toHost[s] = << >>
       /\ sock[s] \in {"opening", "gone"} /\ dev[s] = "none"
  /\ Carries(toHost[s], "OPEN") => sock[s] = "none"
  /\ s \in Service /\ dev[s] = "none" => sock[s] = "none" /\ toHost[s] = << >>
  /\ s \in Service => sock[s] # "opening"

SocketInv(s) == Flow(s) /\ Waits(s) /\ Told(s) /\ Begins(s)

-----------------------------------------------------------------------------
Same(r) ==
  /\ sock'[r] = sock[r] /\ events'[r] = events[r] /\ queue'[r] = queue[r]
  /\ client'[r] = client[r] /\ status'[r] = status[r] /\ given'[r] = given[r]
  /\ toDevice'[r] = toDevice[r] /\ toHost'[r] = toHost[r] /\ dev'[r] = dev[r]
  /\ credit'[r] = credit[r] /\ owes'[r] = owes[r]

\* A socket that a step does not touch keeps its invariant.
LEMMA SameKeeps ==
  ASSUME NEW r \in Sockets, SocketInv(r), Same(r)
  PROVE  SocketInv(r)'
BY Zenon DEF SocketInv, Flow, Waits, Told, Begins, Calm, Same

\* The invariant of every socket gives the three properties.
LEMMA InvGives ==
  ASSUME \A s \in Sockets : SocketInv(s)
  PROVE  FlowControl /\ EventsMatchState /\ StatusFirst
<1>1. FlowControl
  BY Zenon DEF SocketInv, Flow, FlowControl
<1>2. EventsMatchState
  BY DEF SocketInv, Waits, EventsMatchState
<1>3. StatusFirst
  BY DEF SocketInv, Told, StatusFirst, Sockets
<1> QED  BY <1>1, <1>2, <1>3

\* The invariant holds at the start.
LEMMA SocketInvInit == Init => \A s \in Sockets : SocketInv(s)
<1> SUFFICES ASSUME Init, NEW s \in Sockets PROVE SocketInv(s)
  OBVIOUS
<1>1. Flow(s)
  BY CarriesEmpty, BoundsAssumption DEF Init, Flow, AtMostOne
<1>2. Waits(s) /\ Told(s)
  BY DEF Init, Waits, Told
<1>3. Begins(s)
  <2>1. Calm(s) /\ toDevice[s] = << >> /\ toHost[s] = << >> /\ dev[s] = "none"
        /\ sock[s] = "none"
    BY DEF Init, Calm
  <2>2. \A t : ~Carries(toDevice[s], t)
    BY <2>1, CarriesEmpty
  <2>3. \A t : ~Carries(toHost[s], t)
    BY <2>1, CarriesEmpty
  <2> QED  BY <2>1, <2>2, <2>3 DEF Begins
<1> QED  BY <1>1, <1>2, <1>3 DEF SocketInv

-----------------------------------------------------------------------------
\* A_OPEN gives each end its first right to send.
LEMMA HandleOpenKeeps ==
  ASSUME TypeOK, NEW s \in Sockets, SocketInv(s), HandleOpen(s)
  PROVE  SocketInv(s)'
<1>0. /\ toHost[s] \in Seq(Packets) /\ toHost[s] # << >> /\ Head(toHost[s]).type = "OPEN"
      /\ Carries(toHost[s], "OPEN")
  BY CarriesTail, PacketTypes5 DEF HandleOpen, TypeOK, WireType
<1>1. Calm(s) /\ toDevice[s] = << >> /\ toHost[s] = <<OPEN>> /\ s \in Service /\ dev[s] = "opening"
  BY <1>0, Zenon DEF SocketInv, Begins
<1>2. toHost'[s] = << >>
  BY <1>1 DEF HandleOpen, TypeOK, WireType
<1>3. PICK p \in {OKAY, FAILED} :
        /\ toDevice'[s] = toDevice[s] \o <<p>>
        /\ IF p = OKAY THEN sock'[s] = "open" /\ events'[s] = {"read"}
                       ELSE sock'[s] = "gone" /\ events'[s] = {}
  BY <1>1, PacketTypes5, Zenon DEF HandleOpen, Send, TypeOK, WireType, HostType, Calm
<1>4. UNCHANGED <<queue, client, status, given, dev, credit, owes>>
  BY DEF HandleOpen
<1>5. /\ \A t : Carries(toDevice'[s], t) <=> p.type = t
      /\ \A t : CarriesOne(toDevice'[s], t)
      /\ p \in Packets /\ p.type \in {"OKAY", "FAILED"} /\ (p.type = "OKAY" => p = OKAY)
  <2>1. toDevice[s] \in Seq(Packets) /\ p \in Packets /\ p.type \in {"OKAY", "FAILED"}
        /\ (p.type = "OKAY" => p = OKAY)
    BY PacketTypes5 DEF TypeOK, WireType
  <2>2. \A t : ~Carries(toDevice[s], t) /\ CarriesOne(toDevice[s], t)
    BY <1>1, CarriesEmpty
  <2> QED  BY <1>3, <2>1, <2>2, CarriesAppend
<1>6. Flow(s)'
  BY <1>1, <1>2, <1>3, <1>4, <1>5, CarriesEmpty, BoundsAssumption DEF Flow, AtMostOne, Calm
<1>7. Waits(s)'
  BY <1>1, <1>3, <1>4 DEF Waits, Calm
<1>8. Told(s)' /\ Begins(s)'
  BY <1>0, <1>1, <1>2, <1>3, <1>4, <1>5, CarriesEmpty, KindsAssumption, Zenon
     DEF SocketInv, Told, Begins
<1> QED  BY <1>6, <1>7, <1>8 DEF SocketInv

\* What taking the first packet off the wire to the host leaves on it.
LEMMA TakeHost ==
  ASSUME TypeOK, NEW s \in Sockets, toHost[s] # << >>,
         toHost' = [toHost EXCEPT ![s] = Tail(@)]
  PROVE  /\ toHost'[s] = Tail(toHost[s]) /\ Head(toHost[s]) \in Packets
         /\ Carries(toHost[s], Head(toHost[s]).type)
         /\ \A t : Carries(toHost'[s], t) => Carries(toHost[s], t)
         /\ \A t : CarriesOne(toHost[s], t) => CarriesOne(toHost'[s], t)
         /\ \A t : CarriesOne(toHost[s], t) /\ Head(toHost[s]).type = t
                     => ~Carries(toHost'[s], t)
<1>1. toHost'[s] = Tail(toHost[s]) /\ toHost[s] \in Seq(Packets)
  BY DEF TypeOK, WireType
<1> QED  BY <1>1, CarriesTail

\* Once a packet other than OPEN has come, the connection has begun.
LEMMA HasBegun ==
  ASSUME TypeOK, NEW s \in Sockets, SocketInv(s), toHost[s] # << >>,
         Head(toHost[s]).type # "OPEN"
  PROVE  /\ sock[s] # "none" /\ ~Carries(toHost[s], "OPEN") /\ ~Carries(toDevice[s], "OPEN")
         /\ s \in Service => dev[s] # "none"
<1>1. toHost[s] # <<OPEN>>
  BY PacketTypes5
<1> QED  BY <1>1, Zenon DEF SocketInv, Begins

\* A_OKAY moves the right to send from the wire to the event loop.
LEMMA HandleOkayKeeps ==
  ASSUME TypeOK, NEW s \in Sockets, SocketInv(s), HandleOkay(s)
  PROVE  SocketInv(s)'
<1>0. toHost[s] # << >> /\ Head(toHost[s]).type = "OKAY"
  BY PacketTypes5, Zenon DEF HandleOkay
<1>1. /\ Carries(toHost[s], "OKAY") /\ ~Carries(toHost'[s], "OKAY")
      /\ \A t : Carries(toHost'[s], t) => Carries(toHost[s], t)
      /\ \A t : CarriesOne(toHost[s], t) => CarriesOne(toHost'[s], t)
  BY <1>0, TakeHost, Zenon DEF HandleOkay, SocketInv, Flow
<1>2. UNCHANGED <<queue, client, given, toDevice, dev, credit, owes>>
  BY DEF HandleOkay
<1>3. \/ /\ sock[s] \in {"opening", "open"} /\ sock'[s] = "open"
         /\ events'[s] = events[s] \cup {"read"}
      \/ /\ sock[s] \notin {"opening", "open"} /\ sock'[s] = sock[s]
         /\ events'[s] = events[s]
  BY Zenon DEF HandleOkay, TypeOK, HostType
<1>4. status'[s] = IF sock[s] = "opening" /\ s \in Smart /\ client[s] THEN "OKAY"
                   ELSE status[s]
  BY Zenon DEF HandleOkay, WriteStatus, TypeOK, ClientType
<1>5. /\ sock[s] # "none" /\ ~Carries(toHost[s], "OPEN") /\ ~Carries(toDevice[s], "OPEN")
      /\ s \in Service => dev[s] # "none"
  BY <1>0, HasBegun
<1>6. Flow(s)'
  BY <1>1, <1>2, <1>3, Zenon DEF SocketInv, Flow, AtMostOne
<1>7. Waits(s)'
  BY <1>2, <1>3, <1>5, Zenon DEF SocketInv, Waits
<1>8. Told(s)'
  BY <1>2, <1>3, <1>4, <1>5, Zenon DEF SocketInv, Told
<1>9. Begins(s)'
  BY <1>1, <1>2, <1>3, <1>5, Zenon DEF SocketInv, Begins
<1> QED  BY <1>6, <1>7, <1>8, <1>9 DEF SocketInv

\* What a close does to the socket, its events and its backlog.
LEMMA CloseEffect ==
  ASSUME TypeOK, NEW s \in Sockets, NEW q, CloseLocked(s, q)
  PROVE  \/ /\ sock[s] = "closing" \/ q = << >>
            /\ sock'[s] = "gone" /\ queue'[s] = << >> /\ events'[s] = {}
         \/ /\ sock[s] # "closing" /\ q # << >>
            /\ sock'[s] = "closing" /\ queue'[s] = q
            /\ events'[s] = events[s] \ {"read"}
BY DEF CloseLocked, TypeOK, HostType

\* What a CLSE at the end of the wire to the device leaves as it was.
LEMMA SendShutdown ==
  ASSUME TypeOK, NEW s \in Sockets, NEW p \in {<< >>, <<CLSE>>}, Send(s, p)
  PROVE  /\ \A t : t # "CLSE" => (Carries(toDevice'[s], t) <=> Carries(toDevice[s], t))
         /\ \A t : t # "CLSE" /\ CarriesOne(toDevice[s], t) => CarriesOne(toDevice'[s], t)
         /\ p = << >> => toDevice'[s] = toDevice[s]
<1>1. toDevice'[s] = toDevice[s] \o p /\ toDevice[s] \in Seq(Packets)
  BY DEF Send, TypeOK, WireType
<1>2. p = << >> => toDevice'[s] = toDevice[s]
  BY <1>1
<1>3. p = <<CLSE>> => /\ \A t : Carries(toDevice'[s], t) <=> Carries(toDevice[s], t) \/ t = "CLSE"
                      /\ \A t : CarriesOne(toDevice[s], t) /\ (t = "CLSE" => ~Carries(toDevice[s], t))
                                   => CarriesOne(toDevice'[s], t)
  BY <1>1, CarriesAppend, PacketTypes5
<1> QED  BY <1>2, <1>3

\* A_CLSE ends the socket or sends it to the closing list.
LEMMA HandleCloseKeeps ==
  ASSUME TypeOK, NEW s \in Sockets, SocketInv(s), HandleClose(s)
  PROVE  SocketInv(s)'
<1>0. toHost[s] # << >> /\ Head(toHost[s]).type \in {"CLSE", "FAILED"}
  BY PacketTypes5, Zenon DEF HandleClose
<1>1. /\ \A t : Carries(toHost'[s], t) => Carries(toHost[s], t)
      /\ \A t : CarriesOne(toHost[s], t) => CarriesOne(toHost'[s], t)
  BY <1>0, TakeHost, Zenon DEF HandleClose
<1>2. UNCHANGED <<client, given, dev, credit, owes>>
  BY DEF HandleClose
<1>5. /\ sock[s] # "none" /\ ~Carries(toHost[s], "OPEN") /\ ~Carries(toDevice[s], "OPEN")
      /\ s \in Service => dev[s] # "none"
  BY <1>0, HasBegun
<1>3. CASE CloseLocked(s, queue[s]) /\ Send(s, Shutdown(s)) /\ sock[s] \in {"open", "opening"}
  <2>1. /\ \A t : t # "CLSE" => (Carries(toDevice'[s], t) <=> Carries(toDevice[s], t))
        /\ \A t : t # "CLSE" /\ CarriesOne(toDevice[s], t) => CarriesOne(toDevice'[s], t)
    BY <1>3, SendShutdown, Zenon DEF Shutdown
  <2>2. \/ /\ queue[s] = << >>
           /\ sock'[s] = "gone" /\ queue'[s] = << >> /\ events'[s] = {}
        \/ /\ queue[s] # << >>
           /\ sock'[s] = "closing" /\ queue'[s] = queue[s]
           /\ events'[s] = events[s] \ {"read"}
    BY <1>3, CloseEffect
  <2>3. status'[s] = status[s] \/ (sock[s] = "opening" /\ status'[s] = "FAIL")
    BY Zenon DEF HandleClose, WriteStatus, TypeOK, ClientType
  <2>4. sock[s] = "opening" => sock'[s] = "gone" /\ given[s] = << >>
    BY <2>2 DEF SocketInv, Waits, Told
  <2>5. Flow(s)'
    BY <1>1, <1>2, <2>1, <2>2, BoundsAssumption, Zenon DEF SocketInv, Flow, AtMostOne
  <2>6. Waits(s)'
    BY <1>2, <2>2, <1>3, <2>4, Zenon DEF SocketInv, Waits, TypeOK, HostType
  <2>7. Told(s)'
    BY <1>2, <1>3, <2>2, <2>3, <2>4, Zenon DEF SocketInv, Told
  <2>8. Begins(s)'
    BY <1>1, <1>2, <1>5, <2>1, <2>2, Zenon DEF SocketInv, Begins
  <2> QED  BY <2>5, <2>6, <2>7, <2>8 DEF SocketInv
<1>4. CASE UNCHANGED <<hostVars, toDevice, status>>
  <2>1. Flow(s)'
    BY <1>1, <1>2, <1>4, Zenon DEF SocketInv, Flow, AtMostOne
  <2>2. Waits(s)' /\ Told(s)'
    BY <1>2, <1>4, Zenon DEF SocketInv, Waits, Told
  <2>3. Begins(s)'
    BY <1>1, <1>2, <1>4, <1>5, Zenon DEF SocketInv, Begins
  <2> QED  BY <2>1, <2>2, <2>3 DEF SocketInv
<1> QED  BY <1>3, <1>4, Zenon DEF HandleClose

\* What an OKAY at the end of the wire to the device changes.
LEMMA SendOkay ==
  ASSUME TypeOK, NEW s \in Sockets, Send(s, <<OKAY>>)
  PROVE  /\ \A t : t # "OKAY" => (Carries(toDevice'[s], t) <=> Carries(toDevice[s], t))
         /\ \A t : t # "OKAY" /\ CarriesOne(toDevice[s], t) => CarriesOne(toDevice'[s], t)
         /\ ~Carries(toDevice[s], "OKAY") /\ CarriesOne(toDevice[s], "OKAY")
              => CarriesOne(toDevice'[s], "OKAY")
<1>1. toDevice'[s] = toDevice[s] \o <<OKAY>> /\ toDevice[s] \in Seq(Packets)
  BY DEF Send, TypeOK, WireType
<1> QED  BY <1>1, CarriesAppend, PacketTypes5

\* A_WRTE turns into the OKAY that answers it, or into a backlog.
LEMMA HandleWriteKeeps ==
  ASSUME TypeOK, NEW s \in Sockets, SocketInv(s), HandleWrite(s)
  PROVE  SocketInv(s)'
<1> DEFINE d == Head(toHost[s]).data
           k == SmallerOf(Len(d), Room - unread[s])
<1>0. toHost[s] # << >> /\ Head(toHost[s]).type = "WRTE"
  BY Zenon DEF HandleWrite
<1>1. /\ Carries(toHost[s], "WRTE") /\ ~Carries(toHost'[s], "WRTE")
      /\ \A t : Carries(toHost'[s], t) => Carries(toHost[s], t)
      /\ \A t : CarriesOne(toHost[s], t) => CarriesOne(toHost'[s], t)
      /\ Head(toHost[s]) \in Packets
  BY <1>0, TakeHost, Zenon DEF HandleWrite, SocketInv, Flow
<1>2. UNCHANGED <<client, status, dev, credit, owes>>
  BY Zenon DEF HandleWrite
<1>3. /\ sock[s] # "none" /\ ~Carries(toHost[s], "OPEN") /\ ~Carries(toDevice[s], "OPEN")
      /\ s \in Service => dev[s] # "none"
  BY <1>0, HasBegun
<1>4. /\ queue[s] = << >> /\ "write" \notin events[s]
      /\ ~Carries(toDevice[s], "OKAY") /\ ~credit[s]
  BY <1>1, Zenon DEF SocketInv, Flow, AtMostOne, Waits
<1>5. d \in UnitSeqs /\ Len(d) \in Nat /\ Len(d) <= Payload
  BY <1>1 DEF Packets, UnitSeqs
<1> HIDE DEF d
<1>6. /\ k \in 0 .. Len(d) /\ SubSeq(d, k + 1, Len(d)) \in UnitSeqs
      /\ Len(SubSeq(d, k + 1, Len(d))) = Len(d) - k
  BY <1>5, FitsType, Zenon DEF TypeOK
<1> HIDE DEF k
<1>7. CASE UNCHANGED <<hostVars, given, toDevice>>
  <2>1. Flow(s)'
    BY <1>1, <1>2, <1>7, Zenon DEF SocketInv, Flow, AtMostOne
  <2>2. Waits(s)' /\ Told(s)'
    BY <1>2, <1>7, Zenon DEF SocketInv, Waits, Told
  <2>3. Begins(s)'
    BY <1>1, <1>2, <1>3, <1>7, Zenon DEF SocketInv, Begins
  <2> QED  BY <2>1, <2>2, <2>3 DEF SocketInv
<1>8. CASE sock[s] = "open" /\ CloseLocked(s, << >>) /\ Send(s, <<CLSE>>) /\ given' = given
  <2>1. /\ \A t : t # "CLSE" => (Carries(toDevice'[s], t) <=> Carries(toDevice[s], t))
        /\ \A t : t # "CLSE" /\ CarriesOne(toDevice[s], t) => CarriesOne(toDevice'[s], t)
    BY <1>8, SendShutdown, Zenon
  <2>2. sock'[s] = "gone" /\ queue'[s] = << >> /\ events'[s] = {}
    BY <1>8, CloseEffect
  <2>3. Flow(s)'
    BY <1>1, <1>2, <2>1, <2>2, BoundsAssumption, Zenon DEF SocketInv, Flow, AtMostOne
  <2>4. Waits(s)' /\ Told(s)'
    BY <1>2, <1>8, <2>2, Zenon DEF SocketInv, Waits, Told
  <2>5. Begins(s)'
    BY <1>1, <1>2, <1>3, <2>1, <2>2, Zenon DEF SocketInv, Begins
  <2> QED  BY <2>3, <2>4, <2>5 DEF SocketInv
<1>9. CASE sock[s] = "open" /\ client[s] /\ Send(s, <<OKAY>>) /\ UNCHANGED hostVars
  <2>1. /\ \A t : t # "OKAY" => (Carries(toDevice'[s], t) <=> Carries(toDevice[s], t))
        /\ \A t : t # "OKAY" /\ CarriesOne(toDevice[s], t) => CarriesOne(toDevice'[s], t)
        /\ CarriesOne(toDevice'[s], "OKAY")
    BY <1>4, <1>9, SendOkay DEF SocketInv, Flow
  <2>2. Flow(s)'
    BY <1>1, <1>2, <1>4, <1>9, <2>1, Zenon DEF SocketInv, Flow, AtMostOne
  <2>3. Waits(s)' /\ Told(s)'
    BY <1>2, <1>9, Zenon DEF SocketInv, Waits, Told
  <2>4. Begins(s)'
    BY <1>1, <1>2, <1>3, <1>9, <2>1, Zenon DEF SocketInv, Begins
  <2> QED  BY <2>2, <2>3, <2>4 DEF SocketInv
<1>10. CASE /\ sock[s] = "open" /\ client[s] /\ k < Len(d)
            /\ queue' = [queue EXCEPT ![s] = SubSeq(d, k + 1, Len(d))]
            /\ events' = [events EXCEPT ![s] = @ \cup {"write"}]
            /\ UNCHANGED <<sock, toDevice>>
  <2>1. /\ queue'[s] # << >> /\ Len(queue'[s]) <= Payload
        /\ events'[s] = events[s] \cup {"write"} /\ sock'[s] = "open"
    <3>1. queue'[s] = SubSeq(d, k + 1, Len(d)) /\ events'[s] = events[s] \cup {"write"}
      BY <1>10, Zenon DEF TypeOK, HostType
    <3>2. Len(queue'[s]) = Len(d) - k /\ Len(d) - k > 0 /\ Len(d) - k <= Payload
      BY <1>5, <1>6, <1>10, <3>1, BoundsAssumption
    <3>3. queue'[s] # << >>
      BY <3>2
    <3> QED  BY <1>10, <3>1, <3>2, <3>3, Zenon
  <2>2. Flow(s)'
    BY <1>1, <1>2, <1>4, <1>10, <2>1, Zenon DEF SocketInv, Flow, AtMostOne
  <2>3. Waits(s)' /\ Told(s)'
    BY <1>2, <1>10, <2>1, Zenon DEF SocketInv, Waits, Told
  <2>4. Begins(s)'
    BY <1>1, <1>2, <1>3, <1>10, Zenon DEF SocketInv, Begins
  <2> QED  BY <2>2, <2>3, <2>4 DEF SocketInv
<1> QED  BY <1>4, <1>7, <1>8, <1>9, <1>10, Zenon DEF HandleWrite, d, k

\* FDE_WRITE drains the backlog, whose end answers the device or frees the socket.
LEMMA EventWriteKeeps ==
  ASSUME TypeOK, NEW s \in Sockets, SocketInv(s), EventWrite(s)
  PROVE  SocketInv(s)'
<1> DEFINE q == queue[s]
           k == SmallerOf(Len(q), Room - unread[s])
           rest == SubSeq(q, k + 1, Len(q))
<1>1. UNCHANGED <<client, status, dev, credit, owes, toHost>>
  BY Zenon DEF EventWrite
<1>2. /\ queue[s] # << >> /\ "write" \in events[s] /\ sock[s] \in {"open", "closing"}
      /\ ~Carries(toDevice[s], "OKAY") /\ ~credit[s]
  BY Zenon DEF EventWrite, SocketInv, Flow, AtMostOne, Waits
<1>3. /\ ~Carries(toHost[s], "OPEN") /\ ~Carries(toDevice[s], "OPEN")
      /\ s \in Service => dev[s] # "none"
  BY <1>2, Zenon DEF SocketInv, Begins
<1>4. q \in UnitSeqs /\ Len(q) \in Nat /\ Len(q) <= Payload
  BY DEF TypeOK, HostType, UnitSeqs, SocketInv, Flow
<1> HIDE DEF q
<1>5. k \in 0 .. Len(q) /\ Len(rest) = Len(q) - k
  BY <1>4, FitsType, Zenon DEF TypeOK
<1> HIDE DEF k, rest
<1>6. CASE ~client[s] /\ CloseLocked(s, queue[s]) /\ Send(s, Shutdown(s)) /\ given' = given
  <2>1. /\ \A t : t # "CLSE" => (Carries(toDevice'[s], t) <=> Carries(toDevice[s], t))
        /\ \A t : t # "CLSE" /\ CarriesOne(toDevice[s], t) => CarriesOne(toDevice'[s], t)
    BY <1>6, SendShutdown, Zenon DEF Shutdown
  <2>2. \/ sock'[s] = "gone" /\ queue'[s] = << >> /\ events'[s] = {}
        \/ /\ sock'[s] = "closing" /\ queue'[s] = queue[s]
           /\ events'[s] = events[s] \ {"read"}
    BY <1>6, CloseEffect, Zenon
  <2>3. Flow(s)'
    BY <1>1, <2>1, <2>2, BoundsAssumption, SMTT(30) DEF SocketInv, Flow, AtMostOne
  <2>4. Waits(s)'
    BY <1>2, <2>2, Zenon DEF SocketInv, Waits, TypeOK, HostType
  <2>5. Told(s)'
    BY <1>1, <1>2, <1>6, <2>2, Zenon DEF SocketInv, Told
  <2>6. Begins(s)'
    BY <1>1, <1>3, <2>1, <2>2, Zenon DEF SocketInv, Begins
  <2> QED  BY <2>3, <2>4, <2>5, <2>6, Zenon DEF SocketInv
<1>7. CASE client[s] /\ queue' = [queue EXCEPT ![s] = rest] /\ rest # << >>
           /\ UNCHANGED <<sock, events, toDevice>>
  <2>1. queue'[s] = rest /\ rest # << >> /\ Len(rest) <= Payload
    BY <1>4, <1>5, <1>7, BoundsAssumption DEF TypeOK, HostType
  <2>2. Flow(s)'
    BY <1>1, <1>2, <1>7, <2>1, Zenon DEF SocketInv, Flow, AtMostOne
  <2>3. Waits(s)' /\ Told(s)'
    BY <1>1, <1>2, <1>7, <2>1, Zenon DEF SocketInv, Waits, Told
  <2>4. Begins(s)'
    BY <1>1, <1>2, <1>3, <1>7, Zenon DEF SocketInv, Begins
  <2> QED  BY <2>2, <2>3, <2>4 DEF SocketInv
<1>8. CASE client[s] /\ sock[s] = "closing" /\ CloseLocked(s, << >>) /\ toDevice' = toDevice
  <2>1. sock'[s] = "gone" /\ queue'[s] = << >> /\ events'[s] = {}
    BY <1>8, CloseEffect
  <2>2. Flow(s)'
    BY <1>1, <1>8, <2>1, BoundsAssumption, SMTT(30) DEF SocketInv, Flow, AtMostOne
  <2>3. Waits(s)' /\ Told(s)'
    BY <1>1, <1>8, <2>1, Zenon DEF SocketInv, Waits, Told
  <2>4. Begins(s)'
    BY <1>1, <1>3, <1>8, <2>1, Zenon DEF SocketInv, Begins
  <2> QED  BY <2>2, <2>3, <2>4 DEF SocketInv
<1>9. CASE /\ client[s] /\ sock[s] = "open" /\ queue' = [queue EXCEPT ![s] = << >>]
           /\ events' = [events EXCEPT ![s] = @ \ {"write"}]
           /\ Send(s, <<OKAY>>) /\ sock' = sock
  <2>1. queue'[s] = << >> /\ events'[s] = events[s] \ {"write"} /\ sock'[s] = "open"
    BY <1>9, Zenon DEF TypeOK, HostType
  <2>2. /\ \A t : t # "OKAY" => (Carries(toDevice'[s], t) <=> Carries(toDevice[s], t))
        /\ \A t : t # "OKAY" /\ CarriesOne(toDevice[s], t) => CarriesOne(toDevice'[s], t)
        /\ CarriesOne(toDevice'[s], "OKAY")
    BY <1>2, <1>9, SendOkay, Zenon DEF SocketInv, Flow
  <2>3. Flow(s)'
    <3>1. /\ Carries(toDevice'[s], "WRTE") <=> Carries(toDevice[s], "WRTE")
          /\ CarriesOne(toDevice'[s], "WRTE") /\ CarriesOne(toDevice'[s], "OKAY")
      BY <2>2, Zenon DEF SocketInv, Flow
    <3>2. ~Carries(toHost[s], "WRTE")
      BY <1>2, Zenon DEF SocketInv, Flow, AtMostOne
    <3>3. Len(queue'[s]) <= Payload
      BY <2>1, BoundsAssumption
    <3> QED  BY <1>1, <1>2, <2>1, <3>1, <3>2, <3>3, Zenon DEF SocketInv, Flow, AtMostOne
  <2>4. Waits(s)' /\ Told(s)'
    BY <1>1, <1>9, <2>1, Zenon DEF SocketInv, Waits, Told
  <2>5. Begins(s)'
    BY <1>1, <1>3, <2>1, <2>2, Zenon DEF SocketInv, Begins
  <2> QED  BY <2>3, <2>4, <2>5 DEF SocketInv
<1> QED  BY <1>6, <1>7, <1>8, <1>9, Zenon DEF EventWrite, q, k, rest

\* FDE_READ turns the right to send into a WRTE, or ends the socket.
LEMMA EventReadKeeps ==
  ASSUME TypeOK, NEW s \in Sockets, SocketInv(s), EventRead(s)
  PROVE  SocketInv(s)'
<1> DEFINE k == SmallerOf(inbuf[s], Payload)
           c == Chunk(sent[s] - inbuf[s], k)
           data == IF k = 0 THEN << >> ELSE <<WRTE(c)>>
           sentOff == toDevice[s] \o data
<1>1. UNCHANGED <<client, status, given, dev, credit, owes, toHost>>
  BY Zenon DEF EventRead
<1>2. /\ sock[s] = "open" /\ "read" \in events[s]
      /\ ~Carries(toDevice[s], "WRTE") /\ ~owes[s] /\ ~Carries(toHost[s], "OKAY")
  BY Zenon DEF EventRead, SocketInv, Flow, AtMostOne, Waits
<1>3. /\ ~Carries(toHost[s], "OPEN") /\ ~Carries(toDevice[s], "OPEN")
      /\ s \in Service => dev[s] # "none"
  BY <1>2, Zenon DEF SocketInv, Begins
<1>4. c \in UnitSeqs /\ Len(c) <= Payload
  <2>1. k \in Nat /\ k <= Payload /\ sent[s] - inbuf[s] \in Nat
    <3>1. inbuf[s] \in Nat /\ Payload \in Nat /\ sent[s] - inbuf[s] \in Nat
      BY BoundsAssumption DEF TypeOK, ClientType
    <3>2. k \in 0 .. inbuf[s] /\ k <= Payload
      BY <3>1, SmallerOfType, Zenon
    <3> QED  BY <3>1, <3>2
  <2> HIDE DEF k
  <2> QED  BY <2>1, ChunkType, Zenon
<1>5. WRTE(c) \in Packets /\ WRTE(c).type = "WRTE" /\ toDevice[s] \in Seq(Packets)
  BY <1>4, PacketTypes5, Zenon DEF TypeOK, WireType
<1> HIDE DEF c, k
<1>6. /\ sentOff \in Seq(Packets)
      /\ \A t : t # "WRTE" => (Carries(sentOff, t) <=> Carries(toDevice[s], t))
      /\ \A t : CarriesOne(toDevice[s], t) => CarriesOne(sentOff, t)
  <2>1. CASE data = << >>
    <3>1. sentOff = toDevice[s]
      BY <1>5, <2>1, WireConcat, Zenon
    <3> QED  BY <1>5, <3>1, Zenon
  <2>2. CASE data = <<WRTE(c)>>
    BY <1>2, <1>5, <2>2, CarriesAppend
  <2> QED  BY <2>1, <2>2, Zenon
<1> HIDE DEF data, sentOff
<1>7. CASE /\ events' = [events EXCEPT ![s] = @ \ {"read"}] /\ Send(s, data)
           /\ UNCHANGED <<sock, queue>>
  <2>1. toDevice'[s] = sentOff /\ events'[s] = events[s] \ {"read"}
    BY <1>7, Zenon DEF Send, TypeOK, WireType, HostType, sentOff
  <2>2. Flow(s)'
    BY <1>1, <1>2, <1>6, <1>7, <2>1, Zenon DEF SocketInv, Flow, AtMostOne
  <2>3. Waits(s)' /\ Told(s)'
    BY <1>1, <1>2, <1>7, <2>1, Zenon DEF SocketInv, Waits, Told
  <2>4. Begins(s)'
    BY <1>1, <1>2, <1>3, <1>6, <1>7, <2>1, Zenon DEF SocketInv, Begins
  <2> QED  BY <2>2, <2>3, <2>4 DEF SocketInv
<1>8. CASE CloseLocked(s, queue[s]) /\ Send(s, data \o Shutdown(s))
  <2>1. \/ /\ queue[s] = << >>
           /\ sock'[s] = "gone" /\ queue'[s] = << >> /\ events'[s] = {}
        \/ /\ queue[s] # << >>
           /\ sock'[s] = "closing" /\ queue'[s] = queue[s]
           /\ events'[s] = events[s] \ {"read"}
    BY <1>2, <1>8, CloseEffect, Zenon
  <2>2. toDevice'[s] = sentOff \o <<CLSE>>
    <3>1. toDevice'[s] = toDevice[s] \o (data \o <<CLSE>>)
      BY <1>2, <1>8, Zenon DEF Send, Shutdown, TypeOK, WireType
    <3>2. data \in Seq(Packets) /\ <<CLSE>> \in Seq(Packets)
      BY <1>5, PacketTypes5, ShortSeqs DEF data
    <3>3. toDevice[s] \o (data \o <<CLSE>>) = (toDevice[s] \o data) \o <<CLSE>>
      BY <1>5, <3>2, WireConcat, ZenonT(60)
    <3> QED  BY <3>1, <3>3, Zenon DEF sentOff
  <2>3. /\ \A t : t \notin {"WRTE", "CLSE"} =>
                 (Carries(toDevice'[s], t) <=> Carries(toDevice[s], t))
        /\ \A t : t # "CLSE" /\ CarriesOne(toDevice[s], t) => CarriesOne(toDevice'[s], t)
    BY <1>6, <2>2, CarriesAppend, PacketTypes5
  <2>4. Flow(s)'
    BY <1>1, <1>2, <2>1, <2>3, BoundsAssumption, Zenon DEF SocketInv, Flow, AtMostOne
  <2>5. Waits(s)'
    BY <1>2, <2>1, Zenon DEF SocketInv, Waits, TypeOK, HostType
  <2>6. Told(s)'
    BY <1>1, <1>2, <2>1, Zenon DEF SocketInv, Told
  <2>7. Begins(s)'
    BY <1>1, <1>3, <2>1, <2>3, Zenon DEF SocketInv, Begins
  <2> QED  BY <2>4, <2>5, <2>6, <2>7 DEF SocketInv
<1> QED  BY <1>7, <1>8, Zenon DEF EventRead, data, c, k

\* The main thread keeps the invariant of the socket it works on.
LEMMA MainKeeps ==
  ASSUME TypeOK, NEW s \in Sockets, SocketInv(s), Main(s)
  PROVE  SocketInv(s)'
BY HandleOpenKeeps, HandleOkayKeeps, HandleCloseKeeps, HandleWriteKeeps, EventWriteKeeps,
   EventReadKeeps DEF Main

\* A client that connects, writes, reads or leaves.
LEMMA ClientKeeps ==
  ASSUME TypeOK, NEW s \in Sockets, SocketInv(s), Client(s)
  PROVE  SocketInv(s)'
<1>1. CASE Connect(s)
  <2>1. /\ Calm(s) /\ toDevice[s] = << >> /\ toHost[s] = << >> /\ s \notin Service
        /\ status[s] = "none" /\ given[s] = << >> /\ dev[s] = "none"
    BY <1>1, KindsAssumption, Zenon DEF Connect, SocketInv, Begins, Told
  <2>2. toDevice'[s] = toDevice[s] \o <<OPEN>> /\ toDevice[s] \in Seq(Packets)
        /\ sock'[s] \in {"opening", "gone"}
    BY <1>1, Zenon DEF Connect, Send, TypeOK, WireType, HostType
  <2>3. toDevice'[s] = <<OPEN>>
    BY <2>1, <2>2
  <2>4. \A t : ~Carries(toDevice[s], t) /\ CarriesOne(toDevice[s], t)
    BY <2>1, CarriesEmpty
  <2>5. \A t : ~Carries(toHost[s], t) /\ CarriesOne(toHost[s], t)
    BY <2>1, CarriesEmpty
  <2>6. \A t : (Carries(toDevice'[s], t) => t = "OPEN") /\ CarriesOne(toDevice'[s], t)
    BY <2>2, <2>4, CarriesAppend, PacketTypes5
  <2>7. UNCHANGED <<events, queue, client, status, given, toHost, dev, credit, owes>>
    BY <1>1 DEF Connect
  <2>8. Flow(s)'
    BY <2>1, <2>5, <2>6, <2>7, BoundsAssumption DEF Flow, AtMostOne, Calm
  <2>9. Waits(s)' /\ Told(s)'
    BY <2>1, <2>2, <2>7, Zenon DEF Waits, Told, Calm
  <2>10. Begins(s)'
    BY <2>1, <2>2, <2>3, <2>5, <2>7, Zenon DEF Begins, Calm
  <2> QED  BY <2>8, <2>9, <2>10 DEF SocketInv
<1>2. CASE ClientWrite(s) \/ ClientRead(s)
  <2>1. Same(s)
    BY <1>2, Zenon DEF ClientWrite, ClientRead, Same
  <2> QED  BY <2>1, SameKeeps
<1>3. CASE ClientClose(s)
  <2>1. UNCHANGED <<sock, events, queue, status, given, toDevice, toHost, dev, credit, owes>>
        /\ ~client'[s]
    BY <1>3 DEF ClientClose, TypeOK, ClientType
  <2>2. Flow(s)' /\ Waits(s)' /\ Begins(s)'
    BY <2>1, Zenon DEF SocketInv, Flow, Waits, Begins, Calm
  <2>3. Told(s)'
    BY <2>1, Zenon DEF SocketInv, Told
  <2> QED  BY <2>2, <2>3 DEF SocketInv
<1> QED  BY <1>1, <1>2, <1>3 DEF Client

-----------------------------------------------------------------------------
\* What adbd's taking of the first packet leaves on the wire.
LEMMA TakeDevice ==
  ASSUME TypeOK, NEW s \in Sockets, NEW type, DevTake(s, type)
  PROVE  /\ Carries(toDevice[s], type) /\ toDevice[s] # << >>
         /\ \A t : Carries(toDevice'[s], t) => Carries(toDevice[s], t)
         /\ \A t : CarriesOne(toDevice[s], t) => CarriesOne(toDevice'[s], t)
         /\ CarriesOne(toDevice[s], type) => ~Carries(toDevice'[s], type)
<1>1. /\ toDevice'[s] = Tail(toDevice[s]) /\ toDevice[s] \in Seq(Packets)
      /\ toDevice[s] # << >> /\ Head(toDevice[s]).type = type
  BY DEF DevTake, TypeOK, WireType
<1> QED  BY <1>1, CarriesTail

\* What an answer of adbd puts on the wire to the host.
LEMMA AnswerEffect ==
  ASSUME TypeOK, NEW s \in Sockets, NEW p \in Packets, DevAnswer(s, <<p>>)
  PROVE  /\ toHost'[s] = toHost[s] \o <<p>>
         /\ \A t : Carries(toHost'[s], t) <=> Carries(toHost[s], t) \/ p.type = t
         /\ \A t : CarriesOne(toHost[s], t) /\ (p.type = t => ~Carries(toHost[s], t))
                     => CarriesOne(toHost'[s], t)
<1>1. toHost'[s] = toHost[s] \o <<p>> /\ toHost[s] \in Seq(Packets)
  BY Zenon DEF DevAnswer, TypeOK, WireType
<1> QED  BY <1>1, CarriesAppend

\* A connection with something on its way to adbd, or open there, has begun.
LEMMA DevHasBegun ==
  ASSUME TypeOK, NEW s \in Sockets, SocketInv(s),
         toDevice[s] # << >> \/ dev[s] = "open" \/ credit[s] \/ owes[s]
  PROVE  sock[s] # "none" /\ ~Carries(toHost[s], "OPEN")
BY Zenon DEF SocketInv, Begins, Calm

\* A service of the device asks for one of the host.
LEMMA DevOpenKeeps ==
  ASSUME TypeOK, NEW s \in Sockets, SocketInv(s), DevOpen(s)
  PROVE  SocketInv(s)'
<1>1. sock[s] = "none" /\ toHost[s] = << >> /\ Calm(s) /\ toDevice[s] = << >> /\ s \in Service
  BY Zenon DEF DevOpen, SocketInv, Begins
<1>2. /\ UNCHANGED <<sock, events, queue, client, status, given, toDevice, credit, owes>>
      /\ dev'[s] = "opening"
  BY DEF DevOpen, TypeOK, DevType
<1>3. /\ toHost'[s] = toHost[s] \o <<OPEN>>
      /\ \A t : Carries(toHost'[s], t) <=> Carries(toHost[s], t) \/ t = "OPEN"
      /\ \A t : CarriesOne(toHost[s], t) /\ ~Carries(toHost[s], t) => CarriesOne(toHost'[s], t)
  <2>1. DevAnswer(s, <<OPEN>>) /\ OPEN \in Packets /\ OPEN.type = "OPEN"
    BY PacketTypes5 DEF DevOpen
  <2>2. /\ toHost'[s] = toHost[s] \o <<OPEN>>
        /\ \A t : Carries(toHost'[s], t) <=> Carries(toHost[s], t) \/ OPEN.type = t
        /\ \A t : CarriesOne(toHost[s], t) /\ (OPEN.type = t => ~Carries(toHost[s], t))
                    => CarriesOne(toHost'[s], t)
    BY <2>1, AnswerEffect, Zenon
  <2> QED  BY <2>1, <2>2, Zenon
<1>4. \A t : ~Carries(toHost[s], t) /\ CarriesOne(toHost[s], t)
  BY <1>1, CarriesEmpty
<1>5. \A t : ~Carries(toDevice[s], t) /\ CarriesOne(toDevice[s], t)
  BY <1>1, CarriesEmpty
<1>6. toHost'[s] = <<OPEN>>
  BY <1>1, <1>3
<1>7. Flow(s)'
  BY <1>1, <1>2, <1>3, <1>4, <1>5, BoundsAssumption DEF Flow, AtMostOne, Calm
<1>8. Waits(s)' /\ Told(s)'
  BY <1>2, Zenon DEF SocketInv, Waits, Told
<1>9. Begins(s)'
  BY <1>1, <1>2, <1>5, <1>6, Zenon DEF SocketInv, Begins, Calm
<1> QED  BY <1>7, <1>8, <1>9 DEF SocketInv

\* OPEN taken by adbd: the first rights to send, or a refusal.
LEMMA DevAcceptKeeps ==
  ASSUME TypeOK, NEW s \in Sockets, SocketInv(s), DevAccept(s)
  PROVE  SocketInv(s)'
<1>1. /\ Calm(s) /\ toDevice[s] = <<OPEN>> /\ toHost[s] = << >> /\ sock[s] \in {"opening", "gone"}
  BY TakeDevice, Zenon DEF DevAccept, SocketInv, Begins
<1>2. UNCHANGED <<sock, events, queue, client, status, given, owes>>
  BY DEF DevAccept
<1>3. toDevice'[s] = << >>
  BY <1>1 DEF DevAccept, DevTake, TypeOK, WireType
<1>4. PICK p \in {OKAY, FAILED} : DevAnswer(s, <<p>>) /\ (p # OKAY => credit' = credit)
                                /\ dev'[s] # "none"
  BY Zenon DEF DevAccept, TypeOK, DevType
<1>5. p \in Packets /\ p.type \in {"OKAY", "FAILED"} /\ (p.type = "FAILED" => p # OKAY)
  BY PacketTypes5
<1>6. /\ \A t : Carries(toHost'[s], t) <=> Carries(toHost[s], t) \/ p.type = t
      /\ \A t : CarriesOne(toHost[s], t) /\ (p.type = t => ~Carries(toHost[s], t))
                  => CarriesOne(toHost'[s], t)
  BY <1>4, <1>5, AnswerEffect, Zenon
<1>7. \A t : ~Carries(toHost[s], t) /\ CarriesOne(toHost[s], t)
  BY <1>1, CarriesEmpty
<1>8. \A t : ~Carries(toDevice'[s], t) /\ CarriesOne(toDevice'[s], t)
  BY <1>3, CarriesEmpty
<1>9. Flow(s)'
  BY <1>1, <1>2, <1>5, <1>6, <1>7, <1>8, BoundsAssumption DEF Flow, AtMostOne, Calm
<1>10. Waits(s)' /\ Told(s)'
  BY <1>2, Zenon DEF SocketInv, Waits, Told
<1>11. Begins(s)'
  BY <1>1, <1>2, <1>4, <1>5, <1>6, <1>7, <1>8, Zenon DEF SocketInv, Begins
<1> QED  BY <1>9, <1>10, <1>11 DEF SocketInv

\* An OKAY taken by adbd, a WRTE given to its service, an OKAY it answers with
\* and a WRTE it sends: the right to send moves from one place to the next.
LEMMA DevMovesKeep ==
  ASSUME TypeOK, NEW s \in Sockets, SocketInv(s),
         DevOkay(s) \/ DevReceive(s) \/ DevReady(s) \/ DevWrite(s)
  PROVE  SocketInv(s)'
<1>0. UNCHANGED <<sock, events, queue, client, status, given>>
  BY Zenon DEF DevOkay, DevReceive, DevReady, DevWrite
<1>1. Waits(s)' /\ Told(s)'
  BY <1>0, Zenon DEF SocketInv, Waits, Told
<1>2. CASE DevOkay(s)
  <2>1. /\ Carries(toDevice[s], "OKAY") /\ ~Carries(toDevice'[s], "OKAY") /\ toDevice[s] # << >>
        /\ \A t : Carries(toDevice'[s], t) => Carries(toDevice[s], t)
        /\ \A t : CarriesOne(toDevice[s], t) => CarriesOne(toDevice'[s], t)
    BY <1>2, TakeDevice DEF DevOkay, SocketInv, Flow
  <2>2. UNCHANGED <<toHost, owes>> /\ (dev[s] # "none" => dev'[s] # "none")
    BY <1>2, Zenon DEF DevOkay, TypeOK, DevType
  <2>3. toDevice[s] # <<OPEN>>
    <3>1. toDevice[s] = <<OPEN>> => Head(toDevice[s]) = OPEN
      OBVIOUS
    <3> QED  BY <1>2, <3>1, PacketTypes5, Zenon DEF DevOkay, DevTake
  <2>4. ~Carries(toDevice[s], "OPEN") /\ sock[s] # "none" /\ ~Carries(toHost[s], "OPEN")
        /\ (s \in Service => dev[s] # "none")
    BY <2>1, <2>3, DevHasBegun, Zenon DEF SocketInv, Begins
  <2>5. Flow(s)'
    BY <1>0, <2>1, <2>2, Zenon DEF SocketInv, Flow, AtMostOne
  <2>6. Begins(s)'
    BY <1>0, <2>1, <2>2, <2>4, Zenon DEF SocketInv, Begins
  <2> QED  BY <1>1, <2>5, <2>6 DEF SocketInv
<1>3. CASE DevReceive(s)
  <2>1. /\ Carries(toDevice[s], "WRTE") /\ ~Carries(toDevice'[s], "WRTE") /\ toDevice[s] # << >>
        /\ \A t : Carries(toDevice'[s], t) => Carries(toDevice[s], t)
        /\ \A t : CarriesOne(toDevice[s], t) => CarriesOne(toDevice'[s], t)
    BY <1>3, TakeDevice, Zenon DEF DevReceive, SocketInv, Flow
  <2>2. UNCHANGED <<toHost, credit, dev>>
    BY <1>3, Zenon DEF DevReceive
  <2>3. toDevice[s] # <<OPEN>>
    <3>1. toDevice[s] = <<OPEN>> => Head(toDevice[s]) = OPEN
      OBVIOUS
    <3> QED  BY <1>3, <3>1, PacketTypes5, Zenon DEF DevReceive, DevTake
  <2>4. ~Carries(toDevice[s], "OPEN") /\ sock[s] # "none" /\ ~Carries(toHost[s], "OPEN")
        /\ (s \in Service => dev[s] # "none")
    BY <2>1, <2>3, DevHasBegun, Zenon DEF SocketInv, Begins
  <2>5. Flow(s)'
    BY <1>0, <2>1, <2>2, Zenon DEF SocketInv, Flow, AtMostOne
  <2>6. Begins(s)'
    BY <1>0, <2>1, <2>2, <2>4, Zenon DEF SocketInv, Begins
  <2> QED  BY <1>1, <2>5, <2>6 DEF SocketInv
<1>4. CASE DevReady(s)
  <2>1. owes[s] /\ ~owes'[s] /\ dev[s] = "open" /\ UNCHANGED <<toDevice, dev, credit>>
    BY <1>4, Zenon DEF DevReady, TypeOK, DevType
  <2>2. /\ \A t : Carries(toHost'[s], t) <=> Carries(toHost[s], t) \/ t = "OKAY"
        /\ \A t : CarriesOne(toHost[s], t) /\ (t = "OKAY" => ~Carries(toHost[s], t))
                    => CarriesOne(toHost'[s], t)
    <3>1. DevAnswer(s, <<OKAY>>) /\ OKAY \in Packets /\ OKAY.type = "OKAY"
      BY <1>4, PacketTypes5, Zenon DEF DevReady
    <3>2. /\ \A t : Carries(toHost'[s], t) <=> Carries(toHost[s], t) \/ OKAY.type = t
          /\ \A t : CarriesOne(toHost[s], t) /\ (OKAY.type = t => ~Carries(toHost[s], t))
                      => CarriesOne(toHost'[s], t)
      BY <3>1, AnswerEffect, Zenon
    <3> QED  BY <3>1, <3>2
  <2>3. sock[s] # "none" /\ ~Carries(toHost[s], "OPEN") /\ ~Carries(toDevice[s], "OPEN")
    BY <2>1, DevHasBegun, Zenon DEF SocketInv, Begins, Calm
  <2>4. Flow(s)'
    BY <1>0, <2>1, <2>2, Zenon DEF SocketInv, Flow, AtMostOne
  <2>5. Begins(s)'
    BY <1>0, <2>1, <2>2, <2>3, Zenon DEF SocketInv, Begins
  <2> QED  BY <1>1, <2>4, <2>5 DEF SocketInv
<1>5. CASE DevWrite(s)
  <2>1. credit[s] /\ ~credit'[s] /\ dev[s] = "open" /\ UNCHANGED <<toDevice, dev, owes>>
    BY <1>5, Zenon DEF DevWrite, TypeOK, DevType
  <2>2. PICK k \in 1 .. Payload : DevAnswer(s, <<WRTE(Chunk(devSent[s], k))>>)
    BY <1>5, Zenon DEF DevWrite
  <2> DEFINE p == WRTE(Chunk(devSent[s], k))
  <2>3. p \in Packets /\ p.type = "WRTE"
    <3>1. devSent[s] \in Nat /\ k \in Nat /\ k <= Payload
      BY BoundsAssumption DEF TypeOK, DevType
    <3> QED  BY <3>1, ChunkType, PacketTypes5, Zenon
  <2> HIDE DEF p
  <2>4. /\ \A t : Carries(toHost'[s], t) <=> Carries(toHost[s], t) \/ p.type = t
        /\ \A t : CarriesOne(toHost[s], t) /\ (p.type = t => ~Carries(toHost[s], t))
                    => CarriesOne(toHost'[s], t)
    BY <2>2, <2>3, AnswerEffect, Zenon DEF p
  <2>5. sock[s] # "none" /\ ~Carries(toHost[s], "OPEN") /\ ~Carries(toDevice[s], "OPEN")
    BY <2>1, DevHasBegun, Zenon DEF SocketInv, Begins, Calm
  <2>6. Flow(s)'
    BY <1>0, <2>1, <2>3, <2>4, Zenon DEF SocketInv, Flow, AtMostOne
  <2>7. Begins(s)'
    BY <1>0, <2>1, <2>3, <2>4, <2>5, Zenon DEF SocketInv, Begins
  <2> QED  BY <1>1, <2>6, <2>7 DEF SocketInv
<1> QED  BY <1>2, <1>3, <1>4, <1>5

\* adbd ends a service, or closes its socket because the host did.
LEMMA DevEndsKeep ==
  ASSUME TypeOK, NEW s \in Sockets, SocketInv(s), DevEnd(s) \/ DevClose(s)
  PROVE  SocketInv(s)'
<1>0. /\ UNCHANGED <<sock, events, queue, client, status, given>>
      /\ dev'[s] = "gone" /\ ~credit'[s] /\ ~owes'[s]
  BY Zenon DEF DevEnd, DevClose, TypeOK, DevType
<1>1. Waits(s)' /\ Told(s)'
  BY <1>0, Zenon DEF SocketInv, Waits, Told
<1>2. ~Carries(toDevice[s], "OPEN") /\ sock[s] # "none" /\ ~Carries(toHost[s], "OPEN")
  <2>1. CASE DevEnd(s)
    BY <2>1, DevHasBegun, Zenon DEF DevEnd, SocketInv, Begins
  <2>2. CASE DevClose(s)
    <3>1. toDevice[s] = <<OPEN>> => Head(toDevice[s]) = OPEN
      OBVIOUS
    <3>2. toDevice[s] # << >> /\ toDevice[s] # <<OPEN>>
      BY <2>2, <3>1, PacketTypes5, Zenon DEF DevClose, DevTake
    <3> QED  BY <3>2, DevHasBegun, Zenon DEF SocketInv, Begins
  <2> QED  BY <2>1, <2>2
<1>3. /\ \A t : Carries(toDevice'[s], t) => Carries(toDevice[s], t)
      /\ \A t : CarriesOne(toDevice[s], t) => CarriesOne(toDevice'[s], t)
  <2>1. CASE DevEnd(s)
    BY <2>1, Zenon DEF DevEnd
  <2>2. CASE DevClose(s)
    BY <2>2, TakeDevice, Zenon DEF DevClose
  <2> QED  BY <2>1, <2>2, Zenon
<1>4. /\ \A t : t # "CLSE" => (Carries(toHost'[s], t) <=> Carries(toHost[s], t))
      /\ \A t : t # "CLSE" /\ CarriesOne(toHost[s], t) => CarriesOne(toHost'[s], t)
  <2>1. CASE DevAnswer(s, <<CLSE>>)
    <3>1. CLSE \in Packets /\ CLSE.type = "CLSE"
      BY PacketTypes5
    <3>2. /\ \A t : Carries(toHost'[s], t) <=> Carries(toHost[s], t) \/ CLSE.type = t
          /\ \A t : CarriesOne(toHost[s], t) /\ (CLSE.type = t => ~Carries(toHost[s], t))
                      => CarriesOne(toHost'[s], t)
      BY <2>1, <3>1, AnswerEffect, Zenon
    <3> QED  BY <3>1, <3>2, Zenon
  <2>2. CASE DevAnswer(s, << >>)
    <3>1. toHost'[s] = toHost[s] \o << >> /\ toHost[s] \in Seq(Packets)
      BY <2>2, Zenon DEF DevAnswer, TypeOK, WireType
    <3>2. toHost'[s] = toHost[s]
      BY <3>1, WireConcat
    <3> QED  BY <3>2
  <2> QED  BY <2>1, <2>2, Zenon DEF DevEnd, DevClose
<1>5. Flow(s)'
  BY <1>0, <1>3, <1>4, Zenon DEF SocketInv, Flow, AtMostOne
<1>6. Begins(s)'
  BY <1>0, <1>2, <1>3, <1>4, Zenon DEF SocketInv, Begins
<1> QED  BY <1>1, <1>5, <1>6 DEF SocketInv

\* A packet lost with the link takes at most a right to send with it.
LEMMA LoseKeeps ==
  ASSUME TypeOK, NEW s \in Sockets, SocketInv(s), LosePacket(s)
  PROVE  SocketInv(s)'
<1>0. UNCHANGED <<sock, events, queue, client, status, given, toDevice, dev, credit, owes>>
  BY DEF LosePacket
<1>1. /\ toHost'[s] = SubSeq(toHost[s], 1, Len(toHost[s]) - 1)
      /\ toHost[s] \in Seq(Packets) /\ toHost[s] # << >>
  BY Zenon DEF LosePacket, TypeOK, WireType
<1>2. /\ \A t : Carries(toHost'[s], t) => Carries(toHost[s], t)
      /\ \A t : CarriesOne(toHost[s], t) => CarriesOne(toHost'[s], t)
  BY <1>1, CarriesFront
<1>3. toHost[s] = <<OPEN>> => toHost'[s] = << >>
  BY <1>1
<1>4. Flow(s)'
  BY <1>0, <1>2, Zenon DEF SocketInv, Flow, AtMostOne
<1>5. Waits(s)' /\ Told(s)'
  BY <1>0, Zenon DEF SocketInv, Waits, Told
<1>6. Begins(s)'
  BY <1>0, <1>1, <1>2, <1>3, Zenon DEF SocketInv, Begins, Calm
<1> QED  BY <1>4, <1>5, <1>6 DEF SocketInv

\* handle_offline and close_all_sockets, for each socket.
LEMMA LossKeeps ==
  ASSUME TypeOK, NEW s \in Sockets, SocketInv(s), HandleOffline \/ CloseAllSockets
  PROVE  SocketInv(s)'
<1>0. UNCHANGED <<queue, client, status, given, toDevice, toHost, dev, credit, owes>>
  BY Zenon DEF HandleOffline, CloseAllSockets
<1>1. \/ sock'[s] = sock[s] /\ events'[s] = events[s]
      \/ /\ sock[s] = "open" /\ queue[s] = << >> /\ sock'[s] = "gone" /\ events'[s] = {}
      \/ /\ sock[s] = "open" /\ queue[s] # << >> /\ sock'[s] = "closing"
         /\ events'[s] = events[s] \ {"read"}
      \/ sock[s] = "opening" /\ sock'[s] = "gone" /\ events'[s] = events[s]
  BY Zenon DEF HandleOffline, CloseAllSockets, TypeOK, HostType
<1>2. Flow(s)'
  BY <1>0, <1>1, Zenon DEF SocketInv, Flow, AtMostOne
<1>3. Waits(s)'
  BY <1>0, <1>1 DEF SocketInv, Waits, TypeOK, HostType
<1>4. Told(s)'
  BY <1>0, <1>1, Zenon DEF SocketInv, Told
<1>5. Begins(s)'
  BY <1>0, <1>1, Zenon DEF SocketInv, Begins, Calm
<1> QED  BY <1>2, <1>3, <1>4, <1>5 DEF SocketInv

-----------------------------------------------------------------------------
\* A step on one socket leaves the others as they were.
LEMMA Others ==
  ASSUME TypeOK, NEW s \in Sockets, NEW r \in Sockets, r # s,
         Main(s) \/ Client(s) \/ Device(s) \/ LosePacket(s)
  PROVE  Same(r)
<1> USE DEF Same, TypeOK, HostType, ClientType, WireType, DevType
<1>1. CASE HandleOpen(s) \/ HandleOkay(s)
  BY <1>1, ZenonT(60) DEF HandleOpen, HandleOkay, Send, WriteStatus
<1>2. CASE HandleClose(s)
  <2>1. sock'[r] = sock[r] /\ events'[r] = events[r] /\ queue'[r] = queue[r]
    BY <1>2, ZenonT(60) DEF HandleClose, CloseLocked
  <2>2. toDevice'[r] = toDevice[r] /\ toHost'[r] = toHost[r]
    BY <1>2, Zenon DEF HandleClose, Send
  <2>3. status'[r] = status[r]
    BY <1>2, Zenon DEF HandleClose, WriteStatus
  <2> QED  BY <1>2, <2>1, <2>2, <2>3, Zenon DEF HandleClose
<1>3. CASE HandleWrite(s)
  BY <1>3, ZenonT(60) DEF HandleWrite, CloseLocked, Send, WriteFd
<1>4. CASE EventWrite(s)
  BY <1>4, ZenonT(60) DEF EventWrite, CloseLocked, Send, WriteFd
<1>5. CASE EventRead(s)
  BY <1>5, ZenonT(60) DEF EventRead, CloseLocked, Send
<1>6. CASE Client(s)
  BY <1>6, Zenon DEF Client, Connect, ClientWrite, ClientRead, ClientClose, Send
<1>7. CASE DevOpen(s) \/ DevAccept(s) \/ DevOkay(s) \/ DevReceive(s)
  BY <1>7, ZenonT(60) DEF DevOpen, DevAccept, DevOkay, DevReceive, DevTake, DevAnswer
<1>8. CASE DevReady(s) \/ DevWrite(s) \/ DevEnd(s) \/ DevClose(s)
  BY <1>8, ZenonT(60) DEF DevReady, DevWrite, DevEnd, DevClose, DevTake, DevAnswer
<1>9. CASE LosePacket(s)
  BY <1>9, Zenon DEF LosePacket
<1> QED  BY <1>1, <1>2, <1>3, <1>4, <1>5, <1>6, <1>7, <1>8, <1>9, Zenon DEF Main, Device

\* Every step keeps the invariant of every socket.
LEMMA SocketInvStep ==
  TypeOK /\ (\A r \in Sockets : SocketInv(r)) /\ [Next]_vars => (\A r \in Sockets : SocketInv(r))'
<1> SUFFICES ASSUME TypeOK, \A r \in Sockets : SocketInv(r), [Next]_vars, NEW r \in Sockets
             PROVE  SocketInv(r)'
  BY Zenon
<1>1. ASSUME NEW s \in Sockets, Main(s) \/ Client(s) \/ Device(s) \/ LosePacket(s)
      PROVE  SocketInv(r)'
  <2>1. CASE r # s
    BY <1>1, <2>1, Others, SameKeeps, Zenon
  <2>2. SocketInv(s)'
    BY <1>1, MainKeeps, ClientKeeps, DevOpenKeeps, DevAcceptKeeps, DevMovesKeep, DevEndsKeep,
       LoseKeeps, Zenon DEF Device
  <2> QED  BY <2>1, <2>2
<1>2. CASE HandleOffline \/ CloseAllSockets
  BY <1>2, LossKeeps
<1>3. CASE LoseLink \/ UNCHANGED vars
  <2>1. Same(r)
    BY <1>3, Zenon DEF LoseLink, vars, Same
  <2> QED  BY <2>1, SameKeeps, Zenon
<1> QED  BY <1>1, <1>2, <1>3, Zenon DEF Next

\* For any number of sockets and streams of any length.
LEMMA SocketsHold == Spec => [](FlowControl /\ EventsMatchState /\ StatusFirst)
<1>1. Init => TypeOK /\ \A r \in Sockets : SocketInv(r)
  BY TypeInit, SocketInvInit
<1>2. (TypeOK /\ \A r \in Sockets : SocketInv(r)) /\ [Next]_vars
        => (TypeOK /\ \A r \in Sockets : SocketInv(r))'
  BY TypeStep, SocketInvStep
<1>3. (TypeOK /\ \A r \in Sockets : SocketInv(r))
        => FlowControl /\ EventsMatchState /\ StatusFirst
  BY InvGives, Zenon
<1> QED  BY <1>1, <1>2, <1>3, PTL DEF Spec

\* A_WRTE and A_OKAY alternate: one unanswered WRTE per direction, and a
\* backlog of one packet at most, whichever side closes and whatever is lost.
THEOREM FlowIsControlled == Spec => []FlowControl
BY SocketsHold, PTL

\* local_socket_event_func() waits for what the state of the socket needs: no
\* socket is stranded on the closing list.
THEOREM EventsAgree == Spec => []EventsMatchState
BY SocketsHold, PTL

\* OKAY or FAIL reaches the client before any data of the service.
THEOREM StatusComesFirst == Spec => []StatusFirst
BY SocketsHold, PTL
=============================================================================
