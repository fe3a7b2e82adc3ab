------------------------------ MODULE Sockets -------------------------------
(***************************************************************************)
(* The sockets of the adb host server over one transport (sockets.c and    *)
(* the stream packets of handle_packet in adb.c).  A local socket owns a    *)
(* client's file descriptor; a remote socket stands for the service on the  *)
(* device.  The two are each other's peer, and the packets OPEN, OKAY, WRTE *)
(* and CLSE join them to the same pair in adbd.                             *)
(*                                                                         *)
(* The server's main thread runs one event callback or one packet at a      *)
(* time, so each is one action.  The input thread of the transport runs     *)
(* close_all_sockets under socket_list_lock.  The clients and adbd are      *)
(* external, and adbd is the same protocol code on the other side.          *)
(***************************************************************************)
EXTENDS Naturals, Sequences, FiniteSets

CONSTANTS Smart,      \* sockets a client opens through the smart socket
          Forward,    \* sockets a forward listener opens
          Service,    \* sockets the device opens to a service of the host
          MaxOpen,    \* bound: connections made
          MaxUnits,   \* bound: units each end of a connection writes
          Payload,    \* units a packet holds (MAX_PAYLOAD)
          Room        \* units the kernel buffers towards a client

Sockets == Smart \cup Forward \cup Service

ASSUME KindsAssumption ==
  Smart \cap Forward = {} /\ Smart \cap Service = {} /\ Forward \cap Service = {}
ASSUME BoundsAssumption ==
  MaxOpen \in Nat /\ MaxUnits \in Nat /\ Payload \in Nat \ {0} /\ Room \in Nat \ {0}

VARIABLES
  sock,       \* per socket: where the asocket is in its life
  events,     \* per socket: the fdevent events asked for
  queue,      \* per socket: the unwritten data of pkt_first .. pkt_last
  client,     \* per socket: the client's end of the descriptor is open
  sent,       \* per socket: units the client has written
  inbuf,      \* per socket: of these, units the server has not read
  status,     \* per socket: the status message written to the descriptor
  given,      \* per socket: the units written to the descriptor
  unread,     \* per socket: how many of these the client has not read
  toDevice,   \* per socket: packets on the way to the device
  toHost,     \* per socket: packets on the way to handle_packet
  dev,        \* per socket: where adbd's local socket is in its life
  credit,     \* per socket: adbd may send a WRTE
  owes,       \* per socket: adbd holds a WRTE it has not answered
  devSent,    \* per socket: units the device's service has written
  devGiven,   \* per socket: units the device's service has been given
  link        \* the transport: "up", "lost", "offline", "closed"

hostVars == <<sock, events, queue>>
clientVars == <<client, sent, inbuf, status, given, unread>>
wireVars == <<toDevice, toHost>>
devVars == <<dev, credit, owes, devSent, devGiven>>
vars == <<hostVars, clientVars, wireVars, devVars, link>>

-----------------------------------------------------------------------------
(* Packets.  Units of a stream are numbered, so that what arrives can be     *)
(* compared with what was sent.  "FAILED" is CLOSE(0, id), which answers an  *)
(* OPEN the device refused; "CLSE" carries both ids.                         *)

Chunk(n, k) == [i \in 1 .. k |-> n + i]
Statuses == {"none", "OKAY", "FAIL"}

Packet(t, d) == [type |-> t, data |-> d]
OPEN == Packet("OPEN", << >>)
OKAY == Packet("OKAY", << >>)
CLSE == Packet("CLSE", << >>)
FAILED == Packet("FAILED", << >>)
WRTE(d) == Packet("WRTE", d)

SmallerOf(a, b) == IF a < b THEN a ELSE b

(* "none": no client yet; "opening": OPEN sent, peer 0; "open": it has a     *)
(* remote peer; "closing": on local_socket_closing_list; "gone": freed.      *)
SockStates == {"none", "opening", "open", "closing", "gone"}
DevStates == {"none", "opening", "open", "gone"}

Init ==
  /\ sock = [s \in Sockets |-> "none"]
  /\ events = [s \in Sockets |-> {}]
  /\ queue = [s \in Sockets |-> << >>]
  /\ client = [s \in Sockets |-> TRUE]
  /\ sent = [s \in Sockets |-> 0]
  /\ inbuf = [s \in Sockets |-> 0]
  /\ status = [s \in Sockets |-> "none"]
  /\ given = [s \in Sockets |-> << >>]
  /\ unread = [s \in Sockets |-> 0]
  /\ toDevice = [s \in Sockets |-> << >>]
  /\ toHost = [s \in Sockets |-> << >>]
  /\ dev = [s \in Sockets |-> "none"]
  /\ credit = [s \in Sockets |-> FALSE]
  /\ owes = [s \in Sockets |-> FALSE]
  /\ devSent = [s \in Sockets |-> 0]
  /\ devGiven = [s \in Sockets |-> << >>]
  /\ link = "up"

-----------------------------------------------------------------------------
(* Helpers of the server. *)

Online == link \in {"up", "lost"}

(* send_packet to the transport the remote peer belongs to. *)
Send(s, packets) == toDevice' = [toDevice EXCEPT ![s] = @ \o packets]

(* remote_socket_shutdown, called for a local socket that has a peer. *)
Shutdown(s) == IF sock[s] = "open" THEN <<CLSE>> ELSE << >>

(* adb_write of data to the client's descriptor. *)
WriteFd(s, data) ==
  /\ given' = [given EXCEPT ![s] = @ \o data]
  /\ unread' = [unread EXCEPT ![s] = @ + Len(data)]

(* adb_write of a status, by the hooks of a smart socket's peer.  It fits in *)
(* the empty buffer; the result of the call is not looked at.                *)
WriteStatus(s, message) ==
  status' = [status EXCEPT ![s] = IF s \in Smart /\ client[s] THEN message ELSE @]

(* Mutants of CloseLocked: the closing list is never used; a socket that is  *)
(* closing already is kept; the FDE_READ event is left on.                   *)
CloseLockedAtOnce(s, q) ==
  /\ sock' = [sock EXCEPT ![s] = "gone"]
  /\ queue' = [queue EXCEPT ![s] = << >>]
  /\ events' = [events EXCEPT ![s] = {}]

CloseLockedKeepsClosing(s, q) ==
  LET destroyed == q = << >>
  IN /\ sock' = [sock EXCEPT ![s] = IF destroyed THEN "gone" ELSE "closing"]
     /\ queue' = [queue EXCEPT ![s] = IF destroyed THEN << >> ELSE q]
     /\ events' = [events EXCEPT ![s] = IF destroyed THEN {} ELSE @ \ {"read"}]

CloseLockedReading(s, q) ==
  LET destroyed == sock[s] = "closing" \/ q = << >>
  IN /\ sock' = [sock EXCEPT ![s] = IF destroyed THEN "gone" ELSE "closing"]
     /\ queue' = [queue EXCEPT ![s] = IF destroyed THEN << >> ELSE q]
     /\ events' = [events EXCEPT ![s] = IF destroyed THEN {} ELSE @]

(* local_socket_close_locked without the peer's part: the socket is freed    *)
(* with what it still holds if it was closing already or holds nothing, and  *)
(* otherwise goes to the closing list, where it only waits to write.         *)
CloseLocked(s, q) ==
  LET destroyed == sock[s] = "closing" \/ q = << >>
  IN /\ sock' = [sock EXCEPT ![s] = IF destroyed THEN "gone" ELSE "closing"]
     /\ queue' = [queue EXCEPT ![s] = IF destroyed THEN << >> ELSE q]
     /\ events' = [events EXCEPT ![s] = IF destroyed THEN {} ELSE @ \ {"read"}]

-----------------------------------------------------------------------------
(* Connecting. *)

(* The connections that some end has begun, and whether s may be one. *)
Begun == {s \in Sockets : sock[s] # "none" \/ dev[s] # "none" \/ ~client[s]}
MayBegin(s) == s \in Begun \/ Cardinality(Begun) < MaxOpen

(* smart_socket_enqueue's last part, or listener_event_func: the client's    *)
(* socket asks the device for a service and waits, not reading.  The         *)
(* listener does not look at the state of its transport.  A client           *)
(* that left before its request was read is met by the same FDE_READ         *)
(* callback, which closes the socket it has just connected.                  *)
Connect(s) ==
  /\ s \in Smart \cup Forward
  /\ sock[s] = "none" /\ (s \in Smart => Online) /\ MayBegin(s)
  /\ sock' = [sock EXCEPT ![s] = IF s \in Smart /\ ~client[s] THEN "gone" ELSE "opening"]
  /\ Send(s, <<OPEN>>)
  /\ UNCHANGED <<events, queue, clientVars, toHost, devVars, link>>

(* A_OPEN: the device asks for a service of the host, which exists or not. *)
HandleOpen(s) ==
  /\ toHost[s] # << >> /\ Head(toHost[s]) = OPEN
  /\ toHost' = [toHost EXCEPT ![s] = Tail(@)]
  /\ \/ /\ sock' = [sock EXCEPT ![s] = "open"]
        /\ events' = [events EXCEPT ![s] = {"read"}]
        /\ Send(s, <<OKAY>>)
     \/ /\ sock' = [sock EXCEPT ![s] = "gone"]
        /\ Send(s, <<FAILED>>)
        /\ UNCHANGED events
  /\ UNCHANGED <<queue, clientVars, devVars, link>>

(* Mutants of HandleOkay: the hook that tells the client is not called; only *)
(* the first OKAY turns reading on.                                          *)
HandleOkaySilent(s) ==
  /\ toHost[s] # << >> /\ Head(toHost[s]) = OKAY
  /\ toHost' = [toHost EXCEPT ![s] = Tail(@)]
  /\ IF sock[s] \in {"opening", "open"}
     THEN /\ sock' = [sock EXCEPT ![s] = "open"]
          /\ events' = [events EXCEPT ![s] = @ \cup {"read"}]
     ELSE UNCHANGED <<sock, events>>
  /\ UNCHANGED <<queue, clientVars, toDevice, devVars, link>>

HandleOkayDeaf(s) ==
  /\ toHost[s] # << >> /\ Head(toHost[s]) = OKAY
  /\ toHost' = [toHost EXCEPT ![s] = Tail(@)]
  /\ IF sock[s] = "opening"
     THEN /\ sock' = [sock EXCEPT ![s] = "open"]
          /\ events' = [events EXCEPT ![s] = @ \cup {"read"}]
          /\ WriteStatus(s, "OKAY")
     ELSE UNCHANGED <<sock, events, status>>
  /\ UNCHANGED <<queue, client, sent, inbuf, given, unread, toDevice, devVars, link>>

(* A_OKAY.  The first one makes the remote peer; through                     *)
(* local_socket_ready_notify the client of a smart socket is told.  Each     *)
(* lets the client's descriptor be read again.  A socket that is closing has *)
(* no id any more and is not found.                                          *)
HandleOkay(s) ==
  /\ toHost[s] # << >> /\ Head(toHost[s]) = OKAY
  /\ toHost' = [toHost EXCEPT ![s] = Tail(@)]
  /\ IF sock[s] \in {"opening", "open"}
     THEN /\ sock' = [sock EXCEPT ![s] = "open"]
          /\ events' = [events EXCEPT ![s] = @ \cup {"read"}]
     ELSE UNCHANGED <<sock, events>>
  /\ IF sock[s] = "opening" THEN WriteStatus(s, "OKAY") ELSE UNCHANGED status
  /\ UNCHANGED <<queue, client, sent, inbuf, given, unread, toDevice, devVars, link>>

(* A_CLSE: find_local_socket by both ids, or by the local id for a refused   *)
(* OPEN.  local_socket_close_notify tells the client of a smart socket that  *)
(* was never connected.                                                      *)
HandleClose(s) ==
  /\ toHost[s] # << >> /\ Head(toHost[s]) \in {CLSE, FAILED}
  /\ toHost' = [toHost EXCEPT ![s] = Tail(@)]
  /\ LET found == \/ sock[s] = "open"
                  \/ sock[s] = "opening" /\ Head(toHost[s]) = FAILED
     IN IF found
        THEN CloseLocked(s, queue[s]) /\ Send(s, Shutdown(s))
        ELSE UNCHANGED <<hostVars, toDevice>>
  /\ IF sock[s] = "opening" /\ Head(toHost[s]) = FAILED
     THEN WriteStatus(s, "FAIL")
     ELSE UNCHANGED status
  /\ UNCHANGED <<client, sent, inbuf, given, unread, devVars, link>>

-----------------------------------------------------------------------------
(* Data from the device to the client. *)

(* Mutant of HandleWrite: the device gets its OKAY whatever enqueue returns. *)
HandleWriteAlwaysReady(s) ==
  /\ toHost[s] # << >> /\ Head(toHost[s]).type = "WRTE"
  /\ toHost' = [toHost EXCEPT ![s] = Tail(@)]
  /\ LET d == Head(toHost[s]).data
         k == IF queue[s] = << >> THEN SmallerOf(Len(d), Room - unread[s]) ELSE 0
     IN IF sock[s] = "open" /\ client[s]
        THEN /\ WriteFd(s, SubSeq(d, 1, k))
             /\ queue' = [queue EXCEPT ![s] = @ \o SubSeq(d, k + 1, Len(d))]
             /\ events' = [events EXCEPT ![s] =
                             IF k < Len(d) THEN @ \cup {"write"} ELSE @]
             /\ Send(s, <<OKAY>>)
             /\ UNCHANGED sock
        ELSE UNCHANGED <<hostVars, given, unread, toDevice>>
  /\ UNCHANGED <<client, sent, inbuf, status, devVars, link>>

(* A_WRTE: local_socket_enqueue.  Behind a backlog the packet only waits.    *)
(* Otherwise the server writes what fits: all of it earns the device an      *)
(* OKAY, the rest of it waits for room, and a client that left closes the    *)
(* socket.                                                                   *)
HandleWrite(s) ==
  /\ toHost[s] # << >> /\ Head(toHost[s]).type = "WRTE"
  /\ toHost' = [toHost EXCEPT ![s] = Tail(@)]
  /\ LET d == Head(toHost[s]).data
         k == SmallerOf(Len(d), Room - unread[s])
     IN \/ /\ sock[s] # "open"
           /\ UNCHANGED <<hostVars, given, unread, toDevice>>
        \/ /\ sock[s] = "open" /\ queue[s] # << >>
           /\ queue' = [queue EXCEPT ![s] = @ \o d]
           /\ events' = [events EXCEPT ![s] = @ \cup {"write"}]
           /\ UNCHANGED <<sock, given, unread, toDevice>>
        \/ /\ sock[s] = "open" /\ queue[s] = << >> /\ ~client[s]
           /\ CloseLocked(s, << >>)
           /\ Send(s, <<CLSE>>)
           /\ UNCHANGED <<given, unread>>
        \/ /\ sock[s] = "open" /\ queue[s] = << >> /\ client[s] /\ k = Len(d)
           /\ WriteFd(s, d)
           /\ Send(s, <<OKAY>>)
           /\ UNCHANGED hostVars
        \/ /\ sock[s] = "open" /\ queue[s] = << >> /\ client[s] /\ k < Len(d)
           /\ WriteFd(s, SubSeq(d, 1, k))
           /\ queue' = [queue EXCEPT ![s] = SubSeq(d, k + 1, Len(d))]
           /\ events' = [events EXCEPT ![s] = @ \cup {"write"}]
           /\ UNCHANGED <<sock, toDevice>>
  /\ UNCHANGED <<client, sent, inbuf, status, devVars, link>>

(* local_socket_event_func, FDE_WRITE: write the backlog until it is empty   *)
(* or would block.  An empty backlog ends a closing socket and earns the     *)
(* device of an open one its OKAY.                                           *)
EventWrite(s) ==
  /\ "write" \in events[s]
  /\ LET k == SmallerOf(Len(queue[s]), Room - unread[s])
         rest == SubSeq(queue[s], k + 1, Len(queue[s]))
     IN \/ /\ ~client[s]
           /\ CloseLocked(s, queue[s])
           /\ Send(s, Shutdown(s))
           /\ UNCHANGED <<given, unread>>
        \/ /\ client[s] /\ unread[s] < Room
           /\ WriteFd(s, SubSeq(queue[s], 1, k))
           /\ \/ /\ rest # << >>
                 /\ queue' = [queue EXCEPT ![s] = rest]
                 /\ UNCHANGED <<sock, events, toDevice>>
              \/ /\ rest = << >> /\ sock[s] = "closing"
                 /\ CloseLocked(s, << >>)
                 /\ UNCHANGED toDevice
              \/ /\ rest = << >> /\ sock[s] = "open"
                 /\ queue' = [queue EXCEPT ![s] = << >>]
                 /\ events' = [events EXCEPT ![s] = @ \ {"write"}]
                 /\ Send(s, <<OKAY>>)
                 /\ UNCHANGED sock
  /\ UNCHANGED <<client, sent, inbuf, status, toHost, devVars, link>>

-----------------------------------------------------------------------------
(* Data from the client to the device. *)

(* local_socket_event_func, FDE_READ: read up to a packet, send it and stop  *)
(* reading until the device is ready; close the socket if the end of the     *)
(* client's data was met while there was still room in the packet.           *)
EventRead(s) ==
  /\ "read" \in events[s]
  /\ inbuf[s] > 0 \/ ~client[s]
  /\ LET k == SmallerOf(inbuf[s], Payload)
         eof == k < Payload /\ ~client[s]
         data == IF k = 0 THEN << >>
                 ELSE <<WRTE(Chunk(sent[s] - inbuf[s], k))>>
     IN /\ inbuf' = [inbuf EXCEPT ![s] = @ - k]
        /\ IF eof
           THEN CloseLocked(s, queue[s]) /\ Send(s, data \o Shutdown(s))
           ELSE /\ events' = [events EXCEPT ![s] = @ \ {"read"}]
                /\ Send(s, data)
                /\ UNCHANGED <<sock, queue>>
  /\ UNCHANGED <<client, sent, status, given, unread, toHost, devVars, link>>

-----------------------------------------------------------------------------
(* The loss of the transport. *)

(* The connection to the device breaks.  What adbd sent last and the output  *)
(* thread had not read is lost; the rest is still handled, then SYNC(0).     *)
LoseLink ==
  /\ link = "up"
  /\ link' = "lost"
  /\ UNCHANGED <<hostVars, clientVars, wireVars, devVars>>

LosePacket(s) ==
  /\ link = "lost" /\ toHost[s] # << >>
  /\ toHost' = [toHost EXCEPT ![s] = SubSeq(@, 1, Len(@) - 1)]
  /\ UNCHANGED <<hostVars, clientVars, toDevice, devVars, link>>

(* A_SYNC(0): handle_offline runs remote_socket_disconnect for every remote  *)
(* socket, which closes its local peer.  A socket that is still opening has  *)
(* no remote socket and is left alone.                                       *)
HandleOffline ==
  /\ link = "lost" /\ \A s \in Sockets : toHost[s] = << >>
  /\ link' = "offline"
  /\ sock' = [s \in Sockets |-> IF sock[s] # "open" THEN sock[s]
                                ELSE IF queue[s] = << >> THEN "gone" ELSE "closing"]
  /\ events' = [s \in Sockets |-> IF sock[s] # "open" THEN events[s]
                                  ELSE IF queue[s] = << >> THEN {}
                                  ELSE events[s] \ {"read"}]
  /\ UNCHANGED <<queue, clientVars, wireVars, devVars>>

(* Mutant of CloseAllSockets: only the transport of a socket's peer counts. *)
CloseAllPeersOnly ==
  /\ link = "offline"
  /\ link' = "closed"
  /\ UNCHANGED <<hostVars, clientVars, wireVars, devVars>>

(* The input thread, after SYNC(0) came back: close_all_sockets calls        *)
(* local_socket_close_locked for what still names the transport.             *)
CloseAllSockets ==
  /\ link = "offline"
  /\ link' = "closed"
  /\ sock' = [s \in Sockets |-> IF sock[s] = "opening" THEN "gone" ELSE sock[s]]
  /\ UNCHANGED <<events, queue, clientVars, wireVars, devVars>>

-----------------------------------------------------------------------------
(* External: the clients. *)

ClientWrite(s) ==
  /\ sock[s] \in {"opening", "open", "closing"} /\ client[s] /\ sent[s] < MaxUnits
  /\ sent' = [sent EXCEPT ![s] = @ + 1]
  /\ inbuf' = [inbuf EXCEPT ![s] = @ + 1]
  /\ UNCHANGED <<hostVars, client, status, given, unread, wireVars, devVars, link>>

ClientRead(s) ==
  /\ client[s] /\ unread[s] > 0
  /\ unread' = [unread EXCEPT ![s] = @ - 1]
  /\ UNCHANGED <<hostVars, client, sent, inbuf, status, given, wireVars, devVars, link>>

(* The client closes its end, whatever the server thinks of the socket. *)
ClientClose(s) ==
  /\ sock[s] # "none" \/ s \notin Service
  /\ client[s] /\ MayBegin(s)
  /\ client' = [client EXCEPT ![s] = FALSE]
  /\ unread' = [unread EXCEPT ![s] = 0]
  /\ UNCHANGED <<hostVars, sent, inbuf, status, given, wireVars, devVars, link>>

-----------------------------------------------------------------------------
(* External: adbd, which follows the same rules as the host. *)

DevAnswer(s, packets) == toHost' = [toHost EXCEPT ![s] = @ \o packets]

DevTake(s, type) ==
  /\ link = "up" /\ toDevice[s] # << >> /\ Head(toDevice[s]).type = type
  /\ toDevice' = [toDevice EXCEPT ![s] = Tail(@)]

(* A service of the device asks for a service of the host. *)
DevOpen(s) ==
  /\ link = "up" /\ s \in Service /\ dev[s] = "none" /\ MayBegin(s)
  /\ dev' = [dev EXCEPT ![s] = "opening"]
  /\ DevAnswer(s, <<OPEN>>)
  /\ UNCHANGED <<hostVars, clientVars, toDevice, credit, owes, devSent, devGiven, link>>

(* OPEN from the host: the service starts, or there is none. *)
DevAccept(s) ==
  /\ DevTake(s, "OPEN")
  /\ \/ /\ dev' = [dev EXCEPT ![s] = "open"]
        /\ credit' = [credit EXCEPT ![s] = TRUE]
        /\ DevAnswer(s, <<OKAY>>)
     \/ /\ dev' = [dev EXCEPT ![s] = "gone"]
        /\ DevAnswer(s, <<FAILED>>)
        /\ UNCHANGED credit
  /\ UNCHANGED <<hostVars, clientVars, owes, devSent, devGiven, link>>

DevOkay(s) ==
  /\ DevTake(s, "OKAY")
  /\ dev' = [dev EXCEPT ![s] = IF @ = "opening" THEN "open" ELSE @]
  /\ credit' = [credit EXCEPT ![s] = dev[s] # "gone"]
  /\ UNCHANGED <<hostVars, clientVars, toHost, owes, devSent, devGiven, link>>

(* WRTE from the host: the service is given the data, and adbd answers at    *)
(* once or when the service has made room (DevReady).                        *)
DevReceive(s) ==
  /\ DevTake(s, "WRTE")
  /\ IF dev[s] = "open"
     THEN /\ devGiven' = [devGiven EXCEPT ![s] = @ \o Head(toDevice[s]).data]
          /\ owes' = [owes EXCEPT ![s] = TRUE]
     ELSE UNCHANGED <<devGiven, owes>>
  /\ UNCHANGED <<hostVars, clientVars, toHost, dev, credit, devSent, link>>

DevReady(s) ==
  /\ link = "up" /\ dev[s] = "open" /\ owes[s]
  /\ owes' = [owes EXCEPT ![s] = FALSE]
  /\ DevAnswer(s, <<OKAY>>)
  /\ UNCHANGED <<hostVars, clientVars, toDevice, dev, credit, devSent, devGiven, link>>

DevWrite(s) ==
  /\ link = "up" /\ dev[s] = "open" /\ credit[s]
  /\ \E k \in 1 .. Payload :
       /\ devSent[s] + k <= MaxUnits
       /\ devSent' = [devSent EXCEPT ![s] = @ + k]
       /\ DevAnswer(s, <<WRTE(Chunk(devSent[s], k))>>)
  /\ credit' = [credit EXCEPT ![s] = FALSE]
  /\ UNCHANGED <<hostVars, clientVars, toDevice, dev, owes, devGiven, link>>

(* The service ends; adbd drops what it had not given to it. *)
DevEnd(s) ==
  /\ link = "up" /\ dev[s] = "open"
  /\ dev' = [dev EXCEPT ![s] = "gone"]
  /\ credit' = [credit EXCEPT ![s] = FALSE]
  /\ owes' = [owes EXCEPT ![s] = FALSE]
  /\ DevAnswer(s, <<CLSE>>)
  /\ UNCHANGED <<hostVars, clientVars, toDevice, devSent, devGiven, link>>

(* CLSE from the host: adbd closes its socket and answers with a CLSE. *)
DevClose(s) ==
  /\ DevTake(s, "CLSE") \/ DevTake(s, "FAILED")
  /\ dev' = [dev EXCEPT ![s] = "gone"]
  /\ credit' = [credit EXCEPT ![s] = FALSE]
  /\ owes' = [owes EXCEPT ![s] = FALSE]
  /\ DevAnswer(s, IF dev[s] = "open" THEN <<CLSE>> ELSE << >>)
  /\ UNCHANGED <<hostVars, clientVars, devSent, devGiven, link>>

-----------------------------------------------------------------------------
Main(s) ==
  \/ HandleOpen(s) \/ HandleOkay(s) \/ HandleClose(s) \/ HandleWrite(s)
  \/ EventWrite(s) \/ EventRead(s)

Client(s) == Connect(s) \/ ClientWrite(s) \/ ClientRead(s) \/ ClientClose(s)

Device(s) ==
  \/ DevOpen(s) \/ DevAccept(s) \/ DevOkay(s) \/ DevReceive(s) \/ DevReady(s)
  \/ DevWrite(s) \/ DevEnd(s) \/ DevClose(s)

Next ==
  \/ \E s \in Sockets : Main(s) \/ Client(s) \/ Device(s) \/ LosePacket(s)
  \/ LoseLink \/ HandleOffline \/ CloseAllSockets

Spec == Init /\ [][Next]_vars

(* The event loop serves every ready descriptor and every packet in turn,    *)
(* the input thread runs, adbd takes what arrives and its services make      *)
(* room.  Nothing is asked of the clients.                                   *)
Fairness ==
  /\ \A s \in Sockets :
       /\ WF_vars(HandleOpen(s)) /\ WF_vars(HandleOkay(s))
       /\ WF_vars(HandleClose(s)) /\ WF_vars(HandleWrite(s))
       /\ WF_vars(EventWrite(s)) /\ WF_vars(EventRead(s))
       /\ WF_vars(DevAccept(s)) /\ WF_vars(DevOkay(s)) /\ WF_vars(DevReceive(s))
       /\ WF_vars(DevReady(s)) /\ WF_vars(DevClose(s))
  /\ WF_vars(HandleOffline) /\ WF_vars(CloseAllSockets)

FairSpec == Spec /\ Fairness

-----------------------------------------------------------------------------
(* Properties. *)

UnitSeqs == Seq(Nat)
PacketTypes == {"OPEN", "OKAY", "CLSE", "FAILED", "WRTE"}
Packets == [type : PacketTypes, data : {d \in UnitSeqs : Len(d) <= Payload}]

HostType ==
  /\ sock \in [Sockets -> SockStates]
  /\ events \in [Sockets -> SUBSET {"read", "write"}]
  /\ queue \in [Sockets -> UnitSeqs]

ClientType ==
  /\ client \in [Sockets -> BOOLEAN]
  /\ sent \in [Sockets -> Nat] /\ inbuf \in [Sockets -> Nat]
  /\ \A s \in Sockets : inbuf[s] <= sent[s]
  /\ status \in [Sockets -> Statuses]
  /\ given \in [Sockets -> UnitSeqs]
  /\ unread \in [Sockets -> 0 .. Room]

WireType == toDevice \in [Sockets -> Seq(Packets)] /\ toHost \in [Sockets -> Seq(Packets)]

DevType ==
  /\ dev \in [Sockets -> DevStates]
  /\ credit \in [Sockets -> BOOLEAN] /\ owes \in [Sockets -> BOOLEAN]
  /\ devSent \in [Sockets -> Nat] /\ devGiven \in [Sockets -> UnitSeqs]

(* The types of the state, with the bounds of a packet and of the kernel     *)
(* buffer that adb_write respects.                                           *)
TypeOK ==
  /\ HostType /\ ClientType /\ WireType /\ DevType
  /\ link \in {"up", "lost", "offline", "closed"}

(* The client of a smart socket is told OKAY before it is given data, is     *)
(* told one thing only, and after FAIL there is no socket                    *)
(* (local_socket_ready_notify, local_socket_close_notify).                   *)
StatusFirst ==
  \A s \in Smart :
    /\ given[s] # << >> => status[s] = "OKAY"
    /\ status[s] = "FAIL" => sock[s] = "gone"

(* A wire carries a packet of a type; it carries at most one. *)
Carries(wire, t) == \E i \in 1 .. Len(wire) : wire[i].type = t
CarriesOne(wire, t) ==
  \A i, j \in 1 .. Len(wire) : wire[i].type = t /\ wire[j].type = t => i = j

AtMostOne(a, b, c, d) ==
  /\ a => ~b /\ ~c /\ ~d
  /\ b => ~c /\ ~d
  /\ c => ~d

(* The right to send one WRTE is in one place per direction.  Towards the    *)
(* device: the server reads its client, or a WRTE is under way, or adbd owes *)
(* the answer, or the OKAY is under way.  Towards the host: adbd holds the   *)
(* credit, or a WRTE is under way, or the server holds a backlog, or its     *)
(* OKAY is under way.  So no end ever has two unanswered WRTEs, however      *)
(* closes cross on the wire, and a backlog is what is left of one packet     *)
(* (local_socket_enqueue, ready and the FDE_READ switch).                    *)
FlowControl ==
  \A s \in Sockets :
    /\ CarriesOne(toDevice[s], "WRTE") /\ CarriesOne(toHost[s], "OKAY")
    /\ CarriesOne(toHost[s], "WRTE") /\ CarriesOne(toDevice[s], "OKAY")
    /\ AtMostOne("read" \in events[s], Carries(toDevice[s], "WRTE"),
                 owes[s], Carries(toHost[s], "OKAY"))
    /\ AtMostOne(credit[s], Carries(toHost[s], "WRTE"),
                 queue[s] # << >>, Carries(toDevice[s], "OKAY"))
    /\ Len(queue[s]) <= Payload

(* A socket on the closing list still holds data and still waits to write,   *)
(* so that it is freed in the end; only an open one reads; a freed one waits *)
(* for nothing.  local_socket_event_func relies on it when it calls          *)
(* s->peer->ready after the last write.                                      *)
EventsMatchState ==
  \A s \in Sockets :
    /\ sock[s] = "closing" => queue[s] # << >> /\ events[s] = {"write"}
    /\ "read" \in events[s] => sock[s] = "open"
    /\ queue[s] # << >> <=> "write" \in events[s]
    /\ "write" \in events[s] => sock[s] \in {"open", "closing"}

(* "send the failure message if they are closed before connected (to avoid   *)
(* closing them without a status message)", sockets.c.                       *)
StatusBeforeEnd ==
  \A s \in Smart : sock[s] = "gone" /\ client[s] => status[s] # "none"

(* A forward that was accepted after close_all_sockets() and before the      *)
(* listener went: nothing will ever answer its OPEN.                         *)
Stranded(s) == s \in Forward /\ sock[s] = "opening" /\ link = "closed"

(* Once the device is lost, every client that is connecting or connected to  *)
(* it is let go, if it came before close_all_sockets(); one that has not     *)
(* read its last data is on the closing list (remote_socket_disconnect).     *)
LostLinkReleases ==
  \A s \in Sockets :
    link \in {"lost", "offline"} /\ sock[s] \in {"opening", "open"}
      ~> sock[s] \notin {"opening", "open"}

(* The server frees the socket of a client that left. *)
ClientLeftIsFreed ==
  \A s \in Sockets :
    ~client[s] /\ sock[s] # "none" ~> sock[s] = "gone" \/ Stranded(s)

(* What a client writes into an open connection is read by the server, which *)
(* never stays deaf to it (FDE_READ is set again by each OKAY).              *)
UploadProgresses ==
  \A s \in Sockets :
    inbuf[s] > 0 ~> inbuf[s] = 0 \/ sock[s] \in {"closing", "gone"} \/ Stranded(s)
=============================================================================
