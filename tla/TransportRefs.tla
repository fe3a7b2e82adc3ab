---------------------------- MODULE TransportRefs ----------------------------
(***************************************************************************)
(* The type invariant of Transport, for any set of transports, clients and *)
(* keys and any number of packets; who is on the registration queue, and   *)
(* what the reference count counts.                                        *)
(***************************************************************************)
EXTENDS Transport, SequenceTheorems, TLAPS

\* Every step keeps the types; the packets built by the handlers are packets.
LEMMA PacketTypes ==
    /\ \A a, b \in Nat : SyncPacket(a, b) \in Packet
    /\ \A b \in BannerStates : CnxnPacket(b) \in Packet
    /\ \A k \in Nat, n \in 0..NKeys : AuthPacket(k, n) \in Packet
    /\ \A k \in Nat : HdskPacket(k) \in Packet
    /\ StreamPacket \in Packet
    /\ RemotePackets \subseteq Packet
BY TransportAssumption DEF SyncPacket, CnxnPacket, AuthPacket, HdskPacket, StreamPacket,
    Packet, Commands, RemotePackets, BannerStates, CS_BOOTLOADER, CS_DEVICE, CS_HOST,
    CS_RECOVERY, CS_SIDELOAD, ADB_AUTH_TOKEN, PAX_HANDSHAKE_REQ

\* What the pipe operations do to the types of the queues.
LEMMA WriteType ==
    ASSUME PipeType, NEW t \in Transports, NEW p \in Packet, WritePacket(t, p)
    PROVE  up' \in [Transports -> Seq(Packet)]
<1>1. Append(up[t], p) \in Seq(Packet)
  BY DEF PipeType
<1> QED  BY <1>1 DEF PipeType, WritePacket

\* What main reads off a pipe is a packet, and what is left is packets.
LEMMA ReadType ==
    ASSUME PipeType, NEW t \in Transports, up[t] # << >>, ReadPacket(t)
    PROVE  up' \in [Transports -> Seq(Packet)] /\ Head(up[t]) \in Packet
<1>1. up[t] \in Seq(Packet)
  BY DEF PipeType
<1>2. Tail(up[t]) \in Seq(Packet) /\ Head(up[t]) \in Packet
  BY <1>1
<1> QED  BY <1>2 DEF PipeType, ReadPacket

\* send_packet() keeps the pipe a queue of packets.
LEMMA SendType ==
    ASSUME PipeType, NEW t \in Transports, NEW ps \in Seq(Packet), SendPacket(t, ps)
    PROVE  down' \in [Transports -> Seq(Packet)]
<1>1. down[t] \o ps \in Seq(Packet)
  BY DEF PipeType
<1> QED  BY <1>1 DEF PipeType, SendPacket

\* What the input thread reads is a packet.
LEMMA DownType ==
    ASSUME PipeType, NEW t \in Transports, down[t] # << >>
    PROVE  /\ Tail(down[t]) \in Seq(Packet)
           /\ Head(down[t]) \in Packet
BY DEF PipeType

\* Registration messages name a transport and an action.
LEMMA RegqType ==
    ASSUME RefType, NEW t \in Transports
    PROVE  /\ \A a \in {0, 1} : Append(regq, <<t, a>>) \in Seq(Transports \X {0, 1})
           /\ regq # << >> => Tail(regq) \in Seq(Transports \X {0, 1})
BY DEF RefType

\* transport_unref_locked() keeps the types of what it changes.
LEMMA UnrefType ==
    ASSUME RefType, NEW t \in Transports, UnrefLocked(t)
    PROVE  /\ regq' \in Seq(Transports \X {0, 1})
           /\ ref' \in [Transports -> Int]
           /\ fdCloses' \in [Transports -> Nat]
<1>1. regq' \in Seq(Transports \X {0, 1})
  BY RegqType, Zenon DEF UnrefLocked, RefType
<1>2. ref' \in [Transports -> Int]
  BY DEF UnrefLocked, RefType
<1>3. fdCloses' \in [Transports -> Nat]
  <2>1. (IF t \in Usb THEN fdCloses[t] ELSE fdCloses[t] + 1) \in Nat
    BY DEF RefType
  <2> QED  BY <2>1, Zenon DEF UnrefLocked, RefType
<1> QED  BY <1>1, <1>2, <1>3

USE DEF lifeVars, refVars, protoVars, devVars, clientVars

\* close_all_sockets() at the end of an input thread only lets clients go.
LEMMA InputHeld ==
    ASSUME ClientType, NEW t \in Transports, Input(t)
    PROVE  /\ held' \in [Smart -> Transports \cup {Null, Gone}]
           /\ \A c \in Smart : held'[c] = held[c] \/ held'[c] = Gone
<1>1. held' = held \/ CloseAllSockets(t)
  BY Zenon DEF Input, InputSync, InputWrite, InputReadFails
<1> QED  BY <1>1 DEF CloseAllSockets, ClientType

\* The type invariant is inductive: each action keeps each part.
LEMMA TypeStep == TypeOK /\ [Next]_vars => TypeOK'
<1> SUFFICES ASSUME TypeOK, [Next]_vars PROVE TypeOK'
  OBVIOUS
<1> USE DEF TypeOK
<1>1. CASE UNCHANGED vars
  BY <1>1, Zenon
     DEF vars, LifeType, RefType, ProtoType, ThreadType, PipeType, DeviceType, ClientType
<1>2. ASSUME NEW t \in Transports, Registration(t) PROVE TypeOK'
  <2>1. CASE RegisterUsbTransport(t)
    <3>1. LifeType'
      BY <2>1 DEF LifeType, RegisterUsbTransport, Allocate
    <3>2. RefType'
      BY <2>1, RegqType, Zenon DEF RefType, RegisterUsbTransport, Allocate
    <3>3. ProtoType'
      BY <2>1 DEF ProtoType, RegisterUsbTransport, Allocate, ConnectionStates
    <3>4. ThreadType' /\ PipeType' /\ DeviceType' /\ ClientType'
      BY <2>1, Zenon
         DEF ThreadType, PipeType, DeviceType, ClientType, RegisterUsbTransport, Allocate
    <3> QED  BY <3>1, <3>2, <3>3, <3>4
  <2>2. CASE RegisterSocketTransport(t)
    <3>1. LifeType'
      BY <2>2 DEF LifeType, RegisterSocketTransport, Allocate
    <3>2. RefType'
      BY <2>2, RegqType, Zenon DEF RefType, RegisterSocketTransport, Allocate
    <3>3. ProtoType'
      BY <2>2 DEF ProtoType, RegisterSocketTransport, Allocate, ConnectionStates
    <3>4. ThreadType' /\ PipeType' /\ DeviceType' /\ ClientType'
      BY <2>2, Zenon
         DEF ThreadType, PipeType, DeviceType, ClientType, RegisterSocketTransport, Allocate
    <3> QED  BY <3>1, <3>2, <3>3, <3>4
  <2>3. CASE UnregisterUsbTransport(t)
    <3>1. LifeType'
      BY <2>3 DEF LifeType, UnregisterUsbTransport
    <3>2. RefType' /\ ProtoType' /\ ThreadType' /\ PipeType' /\ DeviceType' /\ ClientType'
      BY <2>3, Zenon
         DEF RefType, ProtoType, ThreadType, PipeType, DeviceType, ClientType, UnregisterUsbTransport
    <3> QED  BY <3>1, <3>2
  <2>4. CASE TransportRegistered(t)
    <3>1. LifeType'
      BY <2>4 DEF LifeType, TransportRegistered
    <3>2. RefType'
      <4>1. regq' \in Seq(Transports \X {0, 1})
        BY <2>4, RegqType, Zenon DEF TransportRegistered
      <4>2. ref' \in [Transports -> Int] /\ UNCHANGED <<kicked, fdCloses>>
        BY <2>4 DEF RefType, TransportRegistered
      <4> QED  BY <4>1, <4>2 DEF RefType
    <3>3. ThreadType'
      <4>1. pc' \in [Transports -> [Callers -> PCs]]
        <5>1. CASE state[t] = CS_NOPERM
          BY <2>4, <5>1 DEF ThreadType, TransportRegistered
        <5>2. CASE state[t] # CS_NOPERM
          <6> DEFINE started == [pc[t] EXCEPT !["out"] = "sync", !["in"] = "loop"]
          <6>1. started \in [Callers -> PCs]
            BY DEF ThreadType, Callers, Threads, PCs
          <6>2. pc' = [pc EXCEPT ![t] = started]
            BY <2>4, <5>2, Zenon DEF ThreadType, TransportRegistered
          <6> HIDE DEF started
          <6> QED  BY <6>1, <6>2 DEF ThreadType
        <5> QED  BY <5>1, <5>2
      <4> QED  BY <2>4, <4>1, Zenon DEF ThreadType, TransportRegistered
    <3>4. ClientType'
      BY <2>4, Zenon DEF ClientType, TransportRegistered, ProtoType, UpdateTransports
    <3>5. ProtoType' /\ PipeType' /\ DeviceType'
      BY <2>4, Zenon DEF ProtoType, PipeType, DeviceType, TransportRegistered
    <3> QED  BY <3>1, <3>2, <3>3, <3>4, <3>5
  <2>5. CASE TransportRemoved(t)
    <3>1. LifeType'
      BY <2>5 DEF LifeType, TransportRemoved
    <3>2. RefType'
      <4>1. regq' \in Seq(Transports \X {0, 1})
        BY <2>5, RegqType, Zenon DEF TransportRemoved
      <4>2. fdCloses' \in [Transports -> Nat] /\ UNCHANGED <<ref, kicked>>
        BY <2>5 DEF RefType, TransportRemoved
      <4> QED  BY <4>1, <4>2 DEF RefType
    <3>3. PipeType'
      BY <2>5 DEF PipeType, TransportRemoved
    <3>4. ClientType'
      BY <2>5, Zenon DEF ClientType, TransportRemoved, ProtoType, UpdateTransports
    <3>5. ProtoType' /\ ThreadType' /\ DeviceType'
      BY <2>5, Zenon DEF ProtoType, ThreadType, DeviceType, TransportRemoved
    <3> QED  BY <3>1, <3>2, <3>3, <3>4, <3>5
  <2> QED  BY <1>2, <2>1, <2>2, <2>3, <2>4, <2>5, Zenon DEF Registration
<1>3. ASSUME NEW t \in Transports, Output(t) PROVE TypeOK'
  <2>1. CASE OutputSync(t)
    <3>1. ThreadType'
      BY <2>1 DEF ThreadType, OutputSync, Callers, Threads, PCs
    <3>2. PipeType'
      BY <2>1, WriteType, PacketTypes DEF PipeType, OutputSync, ThreadType
    <3>3. LifeType' /\ RefType' /\ ProtoType' /\ DeviceType' /\ ClientType'
      BY <2>1, Zenon DEF LifeType, RefType, ProtoType, DeviceType, ClientType, OutputSync
    <3> QED  BY <3>1, <3>2, <3>3
  <2>2. CASE OutputRead(t)
    <3>1. ThreadType'
      BY <2>2, Zenon DEF ThreadType, OutputRead, Callers, Threads, PCs
    <3>2. PipeType'
      BY <2>2, WriteType, PacketTypes, Zenon DEF PipeType, OutputRead
    <3>3. DeviceType'
      BY <2>2 DEF DeviceType, OutputRead
    <3>4. LifeType' /\ RefType' /\ ProtoType' /\ ClientType'
      BY <2>2, Zenon DEF LifeType, RefType, ProtoType, ClientType, OutputRead
    <3> QED  BY <3>1, <3>2, <3>3, <3>4
  <2>3. CASE OutputReadFails(t)
    <3>1. ThreadType'
      BY <2>3, Zenon DEF ThreadType, OutputReadFails, Callers, Threads, PCs
    <3>2. LifeType' /\ RefType' /\ ProtoType' /\ PipeType' /\ DeviceType' /\ ClientType'
      BY <2>3, Zenon
         DEF LifeType, RefType, ProtoType, PipeType, DeviceType, ClientType, OutputReadFails
    <3> QED  BY <3>1, <3>2
  <2>4. CASE OutputOffline(t)
    <3>1. ThreadType'
      BY <2>4, Zenon DEF ThreadType, OutputOffline, Callers, Threads, PCs
    <3>2. PipeType'
      BY <2>4, WriteType, PacketTypes, Zenon DEF PipeType, OutputOffline
    <3>3. LifeType' /\ RefType' /\ ProtoType' /\ DeviceType' /\ ClientType'
      BY <2>4, Zenon DEF LifeType, RefType, ProtoType, DeviceType, ClientType, OutputOffline
    <3> QED  BY <3>1, <3>2, <3>3
  <2> QED  BY <1>3, <2>1, <2>2, <2>3, <2>4 DEF Output
<1>4. ASSUME NEW t \in Transports, Input(t) PROVE TypeOK'
  <2>1. CASE InputSync(t)
    <3>1. ThreadType'
      <4>1. pc' \in [Transports -> [Callers -> PCs]]
        <5>1. CASE Head(down[t]).arg0 = 0
          <6>1. pc' = [pc EXCEPT ![t]["in"] = "kick"]
            BY <2>1, <5>1, Zenon DEF InputSync
          <6> QED  BY <6>1 DEF ThreadType, Callers, Threads, PCs
        <5>2. CASE Head(down[t]).arg0 # 0
          BY <2>1, <5>2, Zenon DEF ThreadType, InputSync
        <5> QED  BY <5>1, <5>2
      <4>2. (active[t] \/ Head(down[t]).arg1 = token[t]) \in BOOLEAN
        OBVIOUS
      <4>3. active' \in [Transports -> BOOLEAN]
        BY <2>1, <4>2, Zenon DEF ThreadType, InputSync
      <4> QED  BY <2>1, <4>1, <4>3, Zenon DEF ThreadType, InputSync
    <3>2. PipeType'
      BY <2>1, DownType, Zenon DEF PipeType, InputSync
    <3>3. LifeType' /\ RefType' /\ ProtoType' /\ DeviceType'
      BY <2>1, Zenon DEF LifeType, RefType, ProtoType, DeviceType, InputSync
    <3>4. ClientType'
      BY <1>4, <2>1, InputHeld, Zenon DEF ClientType, InputSync
    <3> QED  BY <3>1, <3>2, <3>3, <3>4
  <2>2. CASE InputWrite(t)
    <3>1. PipeType'
      BY <2>2, DownType DEF PipeType, InputWrite
    <3>2. DeviceType'
      BY <2>2, DownType DEF DeviceType, InputWrite
    <3>3. LifeType' /\ RefType' /\ ProtoType' /\ ThreadType' /\ ClientType'
      BY <2>2, Zenon DEF LifeType, RefType, ProtoType, ThreadType, ClientType, InputWrite
    <3> QED  BY <3>1, <3>2, <3>3
  <2>3. CASE InputReadFails(t)
    <3>1. ThreadType'
      BY <2>3 DEF ThreadType, InputReadFails, Callers, Threads, PCs
    <3>2. LifeType' /\ RefType' /\ ProtoType' /\ PipeType' /\ DeviceType'
      BY <2>3, Zenon DEF LifeType, RefType, ProtoType, PipeType, DeviceType, InputReadFails
    <3>3. ClientType'
      BY <1>4, <2>3, InputHeld, Zenon DEF ClientType, InputReadFails
    <3> QED  BY <3>1, <3>2, <3>3
  <2> QED  BY <1>4, <2>1, <2>2, <2>3 DEF Input
<1>5. ASSUME NEW t \in Transports, NEW th \in Callers, Ending(t, th) PROVE TypeOK'
  <2>1. CASE KickTransport(t, th)
    <3>1. RefType'
      BY <2>1 DEF RefType, KickTransport
    <3>2. ThreadType'
      BY <2>1, Zenon DEF ThreadType, KickTransport, Callers, Threads, PCs
    <3>3. LifeType' /\ ProtoType' /\ PipeType' /\ DeviceType' /\ ClientType'
      BY <2>1, Zenon DEF LifeType, ProtoType, PipeType, DeviceType, ClientType, KickTransport
    <3> QED  BY <3>1, <3>2, <3>3
  <2>2. CASE RemoteKick(t, th)
    <3>1. ThreadType'
      BY <2>2 DEF ThreadType, RemoteKick, Callers, Threads, PCs
    <3>2. DeviceType'
      BY <2>2 DEF DeviceType, RemoteKick
    <3>3. LifeType' /\ RefType' /\ ProtoType' /\ PipeType' /\ ClientType'
      BY <2>2, Zenon DEF LifeType, RefType, ProtoType, PipeType, ClientType, RemoteKick
    <3> QED  BY <3>1, <3>2, <3>3
  <2>3. CASE TransportUnref(t, th)
    <3>1. RefType'
      BY <2>3, UnrefType, Zenon DEF RefType, TransportUnref, Kick
    <3>2. ThreadType'
      BY <2>3, Zenon DEF ThreadType, TransportUnref, Callers, Threads, PCs
    <3>3. DeviceType'
      BY <2>3, Zenon DEF DeviceType, TransportUnref, Kick
    <3>4. LifeType' /\ ProtoType' /\ PipeType' /\ ClientType'
      BY <2>3, Zenon DEF LifeType, ProtoType, PipeType, ClientType, TransportUnref
    <3> QED  BY <3>1, <3>2, <3>3, <3>4
  <2>4. CASE ThreadUsesFreed(t, th)
    <3>1. ClientType'
      BY <2>4, Zenon DEF ClientType, ThreadUsesFreed
    <3>2. LifeType' /\ RefType' /\ ProtoType' /\ ThreadType' /\ PipeType' /\ DeviceType'
      BY <2>4, Zenon
         DEF LifeType, RefType, ProtoType, ThreadType, PipeType, DeviceType, ThreadUsesFreed
    <3> QED  BY <3>1, <3>2
  <2> QED  BY <1>5, <2>1, <2>2, <2>3, <2>4 DEF Ending
<1>6. ASSUME NEW t \in Transports, LinkFails(t) PROVE TypeOK'
  <2>1. DeviceType'
    BY <1>6 DEF DeviceType, LinkFails
  <2>2. LifeType' /\ RefType' /\ ProtoType' /\ ThreadType' /\ PipeType' /\ ClientType'
    BY <1>6, Zenon DEF LifeType, RefType, ProtoType, ThreadType, PipeType, ClientType, LinkFails
  <2> QED  BY <2>1, <2>2
<1>7. ASSUME NEW t \in Transports, HandlePacket(t) PROVE TypeOK'
  <2>1. CASE HandleSync(t)
    <3>1. up' \in [Transports -> Seq(Packet)] /\ Head(up[t]) \in Packet
      BY <2>1, ReadType, Zenon DEF HandleSync, Received
    <3>2. /\ <<Head(up[t])>> \in Seq(Packet)
          /\ <<Head(up[t]), CnxnPacket(CS_HOST)>> \in Seq(Packet)
      BY <3>1, PacketTypes DEF BannerStates
    <3>3. PipeType'
      BY <2>1, <3>1, <3>2, SendType, Zenon DEF HandleSync, PipeType
    <3>4. ProtoType'
      BY <2>1, Zenon DEF HandleSync, ProtoType, ConnectionStates
    <3>5. LifeType' /\ RefType' /\ ThreadType' /\ DeviceType' /\ ClientType'
      BY <2>1, Zenon DEF HandleSync, Received, LifeType, RefType, ThreadType, DeviceType, ClientType
    <3> QED  BY <3>3, <3>4, <3>5
  <2>2. CASE HandleConnect(t)
    <3>1. up' \in [Transports -> Seq(Packet)] /\ Head(up[t]) \in Packet
      BY <2>2, ReadType, Zenon DEF HandleConnect, Received
    <3>2. Head(up[t]).data \in ConnectionStates
      BY <2>2, <3>1, Zenon DEF HandleConnect, Received, Packet, ConnectionStates
    <3>3. ProtoType'
      BY <2>2, <3>2 DEF HandleConnect, ProtoType
    <3>4. PipeType'
      BY <2>2, <3>1 DEF HandleConnect, PipeType
    <3>5. shown' \in [Transports -> ConnectionStates \cup {Absent}]
      BY <2>2, <3>3 DEF HandleConnect, UpdateTransports, ProtoType, ClientType
    <3>6. ClientType'
      BY <2>2, <3>5, Zenon DEF HandleConnect, Received, ClientType
    <3>7. LifeType' /\ RefType' /\ ThreadType' /\ DeviceType'
      BY <2>2, Zenon DEF HandleConnect, Received, LifeType, RefType, ThreadType, DeviceType
    <3> QED  BY <3>3, <3>4, <3>6, <3>7
  <2>3. CASE HandleAuth(t)
    <3>1. up' \in [Transports -> Seq(Packet)]
      BY <2>3, ReadType, Zenon DEF HandleAuth, Received
    <3>2. ProtoType'
      BY <2>3, TransportAssumption DEF HandleAuth, NextKey, ProtoType, ConnectionStates
    <3>3. \A kind \in {ADB_AUTH_RSAPUBLICKEY, ADB_AUTH_SIGNATURE} :
             <<AuthPacket(kind, key'[t])>> \in Seq(Packet)
      BY <3>2, PacketTypes DEF ADB_AUTH_RSAPUBLICKEY, ADB_AUTH_SIGNATURE, ProtoType
    <3>4. PipeType'
      BY <2>3, <3>1, <3>3, SendType, Zenon DEF HandleAuth, PipeType
    <3>5. LifeType' /\ RefType' /\ ThreadType' /\ DeviceType' /\ ClientType'
      BY <2>3, Zenon DEF HandleAuth, Received, LifeType, RefType, ThreadType, DeviceType, ClientType
    <3> QED  BY <3>2, <3>4, <3>5
  <2>4. CASE HandleHandshake(t)
    <3>1. up' \in [Transports -> Seq(Packet)]
      BY <2>4, ReadType, Zenon DEF HandleHandshake, Received
    <3>2. <<HdskPacket(PAX_HANDSHAKE_RES)>> \in Seq(Packet)
      BY PacketTypes DEF PAX_HANDSHAKE_RES
    <3>3. PipeType'
      BY <2>4, <3>1, <3>2, SendType, Zenon DEF HandleHandshake, PipeType
    <3>4. LifeType' /\ RefType' /\ ProtoType' /\ ThreadType' /\ DeviceType' /\ ClientType'
      BY <2>4, Zenon
         DEF HandleHandshake, Received, LifeType, RefType, ProtoType, ThreadType, DeviceType,
         ClientType
    <3> QED  BY <3>3, <3>4
  <2>5. CASE HandleStream(t)
    <3>1. up' \in [Transports -> Seq(Packet)]
      BY <2>5, ReadType, Zenon DEF HandleStream, Received
    <3>2. <<StreamPacket>> \in Seq(Packet)
      BY PacketTypes
    <3>3. PipeType'
      BY <2>5, <3>1, <3>2, SendType, Zenon DEF HandleStream, PipeType
    <3>4. LifeType' /\ RefType' /\ ProtoType' /\ ThreadType' /\ DeviceType' /\ ClientType'
      BY <2>5, Zenon
         DEF HandleStream, Received, LifeType, RefType, ProtoType, ThreadType, DeviceType,
         ClientType
    <3> QED  BY <3>3, <3>4
  <2> QED  BY <1>7, <2>1, <2>2, <2>3, <2>4, <2>5 DEF HandlePacket
<1>8. CASE Client
  <2>1. ASSUME NEW c \in Smart, OpenService(c) PROVE TypeOK'
    <3>1. <<StreamPacket>> \in Seq(Packet)
      BY PacketTypes
    <3>2. PipeType'
      BY <2>1, <3>1, SendType, Zenon DEF OpenService, PipeType, ClientType
    <3>3. ClientType'
      BY <2>1, Zenon DEF OpenService, ClientType
    <3>4. LifeType' /\ RefType' /\ ProtoType' /\ ThreadType' /\ DeviceType'
      BY <2>1, Zenon DEF OpenService, LifeType, RefType, ProtoType, ThreadType, DeviceType
    <3> QED  BY <3>2, <3>3, <3>4
  <2>2. ASSUME NEW c \in Smart, NEW sel \in Selections, SwitchTransport(c, sel)
        PROVE  TypeOK'
    <3>1. ClientType'
      BY <2>2, Zenon DEF ClientType, SwitchTransport, LifeType
    <3>2. LifeType' /\ RefType' /\ ProtoType' /\ ThreadType' /\ PipeType' /\ DeviceType'
      BY <2>2, Zenon
         DEF LifeType, RefType, ProtoType, ThreadType, PipeType, DeviceType, SwitchTransport
    <3> QED  BY <3>1, <3>2
  <2>3. ASSUME NEW w \in Waiters, WaitPick(w) PROVE TypeOK'
    <3>1. ClientType'
      BY <2>3, Zenon DEF ClientType, WaitPick, LifeType
    <3>2. LifeType' /\ RefType' /\ ProtoType' /\ ThreadType' /\ PipeType' /\ DeviceType'
      BY <2>3, Zenon DEF LifeType, RefType, ProtoType, ThreadType, PipeType, DeviceType, WaitPick
    <3> QED  BY <3>1, <3>2
  <2>4. ASSUME NEW w \in Waiters, WaitInspect(w) PROVE TypeOK'
    <3>1. ClientType'
      BY <2>4 DEF ClientType, WaitInspect
    <3>2. LifeType' /\ RefType' /\ ProtoType' /\ ThreadType' /\ PipeType' /\ DeviceType'
      BY <2>4, Zenon DEF LifeType, RefType, ProtoType, ThreadType, PipeType, DeviceType, WaitInspect
    <3> QED  BY <3>1, <3>2
  <2> QED  BY <1>8, <2>1, <2>2, <2>3, <2>4 DEF Client
<1>9. ASSUME NEW t \in Transports, DisconnectAll(t) PROVE TypeOK'
  <2>1. LifeType'
    BY <1>9 DEF LifeType, DisconnectAll
  <2>2. RefType'
    BY <1>9, UnrefType, Zenon DEF RefType, DisconnectAll, Kick
  <2>3. DeviceType'
    BY <1>9 DEF DeviceType, DisconnectAll, Kick
  <2>4. ProtoType' /\ ThreadType' /\ PipeType' /\ ClientType'
    BY <1>9, Zenon DEF ProtoType, ThreadType, PipeType, ClientType, DisconnectAll
  <2> QED  BY <2>1, <2>2, <2>3, <2>4
<1>10. ASSUME NEW t \in Transports, Disconnect(t) PROVE TypeOK'
  <2>1. LifeType'
    BY <1>10 DEF LifeType, Disconnect
  <2>2. ThreadType'
    BY <1>10, Zenon DEF ThreadType, Disconnect, Callers, Threads, PCs
  <2>3. RefType' /\ ProtoType' /\ PipeType' /\ DeviceType' /\ ClientType'
    BY <1>10, Zenon DEF RefType, ProtoType, PipeType, DeviceType, ClientType, Disconnect
  <2> QED  BY <2>1, <2>2, <2>3
<1> QED
  BY <1>1, <1>2, <1>3, <1>4, <1>5, <1>6, <1>7, <1>8, <1>9, <1>10, Zenon
     DEF Next, Step, Unregistration,
     Callers

\* The initial state is well typed.
LEMMA TypeInit == Init => TypeOK
<1> SUFFICES ASSUME Init PROVE TypeOK
  OBVIOUS
<1>1. LifeType /\ RefType
  BY DEF Init, LifeType, RefType
<1>2. ProtoType
  BY TransportAssumption DEF Init, ProtoType, ConnectionStates
<1>3. ThreadType
  BY DEF Init, ThreadType, Callers, Threads, PCs
<1>4. PipeType /\ DeviceType /\ ClientType
  BY DEF Init, PipeType, DeviceType, ClientType
<1> QED  BY <1>1, <1>2, <1>3, <1>4 DEF TypeOK

\* Every reachable state is well typed, whatever the devices and clients do.
THEOREM TypeCorrect == Spec => []TypeOK
BY TypeInit, TypeStep, PTL DEF Spec

-----------------------------------------------------------------------------
(* What a step does to the program counters. *)

Moves(t, th, l) == pc' = [pc EXCEPT ![t][th] = l]

\* One thread takes a step.
LEMMA OneMoves ==
    ASSUME ThreadType, NEW t \in Transports, NEW th \in Callers, NEW l, Moves(t, th, l)
    PROVE  /\ pc'[t][th] = l
           /\ \A o \in Callers \ {th} : pc'[t][o] = pc[t][o]
           /\ \A u \in Transports \ {t} : pc'[u] = pc[u]
BY DEF ThreadType, Moves

\* The output thread reads until the link fails or t->fd is closed.
LEMMA OutputMoves ==
    ASSUME ThreadType, NEW t \in Transports, Output(t)
    PROVE  /\ mem[t] = "live" /\ pc[t]["out"] \in {"sync", "read", "offline"}
           /\ pc'[t]["out"] \in {"read", "offline", "kick"}
           /\ \A o \in Callers \ {"out"} : pc'[t][o] = pc[t][o]
           /\ \A u \in Transports \ {t} : pc'[u] = pc[u]
<1>1. PICK l \in {"read", "offline", "kick"} : Moves(t, "out", l)
  BY Zenon DEF Output, OutputSync, OutputRead, OutputReadFails, OutputOffline, Moves
<1>2. mem[t] = "live" /\ pc[t]["out"] \in {"sync", "read", "offline"}
  BY Zenon DEF Output, OutputSync, OutputRead, OutputReadFails, OutputOffline
<1>3. "out" \in Callers
  BY DEF Callers, Threads
<1> QED  BY <1>1, <1>2, <1>3, OneMoves

\* The input thread loops until the SYNC(0) or a closed t->fd.
LEMMA InputMoves ==
    ASSUME ThreadType, NEW t \in Transports, Input(t)
    PROVE  /\ mem[t] = "live" /\ pc[t]["in"] = "loop"
           /\ pc'[t]["in"] \in {"loop", "kick"}
           /\ \A o \in Callers \ {"in"} : pc'[t][o] = pc[t][o]
           /\ \A u \in Transports \ {t} : pc'[u] = pc[u]
<1>1. pc' = pc \/ Moves(t, "in", "kick")
  BY Zenon DEF Input, InputSync, InputWrite, InputReadFails, Moves
<1>2. mem[t] = "live" /\ pc[t]["in"] = "loop"
  BY Zenon DEF Input, InputSync, InputWrite, InputReadFails
<1>3. "in" \in Callers
  BY DEF Callers, Threads
<1> QED  BY <1>1, <1>2, <1>3, OneMoves

\* The end of a thread.
LEMMA EndingMoves ==
    ASSUME ThreadType, NEW t \in Transports, NEW th \in Callers, Ending(t, th)
    PROVE  \/ pc' = pc /\ mem[t] = "freed"
           \/ /\ mem[t] = "live" /\ pc[t][th] \in {"kick", "kicking", "unref"}
              /\ pc'[t][th] \in {"kicking", "unref", "done"}
              /\ pc'[t][th] = "done" <=> pc[t][th] = "unref"
              /\ \A o \in Callers \ {th} : pc'[t][o] = pc[t][o]
              /\ \A u \in Transports \ {t} : pc'[u] = pc[u]
<1>1. CASE ThreadUsesFreed(t, th)
  BY <1>1 DEF ThreadUsesFreed
<1>2. CASE KickTransport(t, th) \/ RemoteKick(t, th)
  <2>1. PICK l \in {"kicking", "unref"} : Moves(t, th, l)
    BY <1>2 DEF KickTransport, RemoteKick, Moves
  <2>2. mem[t] = "live" /\ pc[t][th] \in {"kick", "kicking"}
    BY <1>2 DEF KickTransport, RemoteKick
  <2> QED  BY <2>1, <2>2, OneMoves
<1>3. CASE TransportUnref(t, th)
  <2>1. mem[t] = "live" /\ pc[t][th] = "unref" /\ Moves(t, th, "done")
    BY <1>3 DEF TransportUnref, Moves
  <2> QED  BY <2>1, OneMoves
<1> QED  BY <1>1, <1>2, <1>3, Zenon DEF Ending

-----------------------------------------------------------------------------

(***************************************************************************)
(* The registration queue.  A transport is announced once, before it has   *)
(* threads; a transport nobody allocated is nowhere to be seen.            *)
(***************************************************************************)
Queued(t, a) == \E i \in DOMAIN regq : regq[i] = <<t, a>>

AnnouncedOnce ==
    \A t \in Transports : \A i, j \in DOMAIN regq :
        regq[i] = <<t, 1>> /\ regq[j] = <<t, 1>> => i = j

Announced(t) ==
    Queued(t, 1) => /\ mem[t] # "unused"
                    /\ pc[t]["out"] = "none" /\ pc[t]["in"] = "none"

Unallocated(t) ==
    mem[t] = "unused" =>
        /\ ~Queued(t, 0)
        /\ t \notin master
        /\ pc[t]["out"] = "none" /\ pc[t]["in"] = "none"
        /\ up[t] = << >> /\ down[t] = << >>
        /\ \A c \in Smart : held[c] # t

RegInv == AnnouncedOnce /\ \A t \in Transports : Announced(t) /\ Unallocated(t)

(***************************************************************************)
(* The reference count is the number of threads that have not dropped      *)
(* their reference, while nobody calls unregister_transport().             *)
(***************************************************************************)
Running(t, th) == IF pc[t][th] = "done" THEN 0 ELSE 1

RefCounts(t) ==
    \/ /\ pc[t]["out"] = "none" /\ pc[t]["in"] = "none"
       /\ ref[t] = 0 /\ ~Queued(t, 0) /\ mem[t] # "freed"
    \/ /\ pc[t]["out"] # "none" /\ pc[t]["in"] # "none"
       /\ ref[t] = Running(t, "out") + Running(t, "in")
       /\ Queued(t, 0) \/ mem[t] = "freed" => ref[t] = 0

RefInv == RegInv /\ \A t \in Transports : RefCounts(t)

-----------------------------------------------------------------------------
\* What the three things an action does to regq mean for who is in it.
LEMMA QueueSame ==
    ASSUME regq' = regq
    PROVE  /\ \A t \in Transports, a \in {0, 1} : Queued(t, a)' <=> Queued(t, a)
           /\ AnnouncedOnce' <=> AnnouncedOnce
BY DEF Queued, AnnouncedOnce

\* A message added to the registration queue.
LEMMA QueueAppend ==
    ASSUME RefType, NEW t \in Transports, NEW a \in {0, 1}, regq' = Append(regq, <<t, a>>)
    PROVE  /\ \A u \in Transports, b \in {0, 1} :
                 Queued(u, b)' <=> Queued(u, b) \/ (u = t /\ b = a)
           /\ AnnouncedOnce /\ (a = 1 => ~Queued(t, 1)) => AnnouncedOnce'
<1>1. /\ DOMAIN regq = 1..Len(regq) /\ Len(regq) \in Nat
      /\ DOMAIN regq' = 1..(Len(regq) + 1)
      /\ \A i \in 1..Len(regq) : regq'[i] = regq[i]
      /\ regq'[Len(regq) + 1] = <<t, a>>
  BY DEF RefType
<1>2. ASSUME NEW u \in Transports, NEW b \in {0, 1}
      PROVE  Queued(u, b)' <=> Queued(u, b) \/ (u = t /\ b = a)
  BY <1>1, SMTT(30) DEF Queued
<1>3. ASSUME AnnouncedOnce, a = 1 => ~Queued(t, 1) PROVE AnnouncedOnce'
  <2> SUFFICES ASSUME NEW u \in Transports, NEW i \in DOMAIN regq', NEW j \in DOMAIN regq',
                      regq'[i] = <<u, 1>>, regq'[j] = <<u, 1>>
               PROVE  i = j
    BY Zenon DEF AnnouncedOnce
  <2>1. CASE i \in 1..Len(regq) /\ j \in 1..Len(regq)
    BY <1>1, <1>3, <2>1, Zenon DEF AnnouncedOnce
  <2>2. CASE i = Len(regq) + 1 \/ j = Len(regq) + 1
    <3>1. u = t /\ a = 1
      BY <1>1, <2>2
    <3>2. \A k \in 1..Len(regq) : regq[k] # <<u, 1>>
      BY <1>1, <1>3, <3>1, Zenon DEF Queued
    <3> QED  BY <1>1, <2>2, <3>2
  <2> QED  BY <1>1, <2>1, <2>2
<1> QED  BY <1>2, <1>3

\* A message taken off the registration queue.
LEMMA QueueTail ==
    ASSUME RefType, NEW t \in Transports, NEW a \in {0, 1}, regq # << >>,
           Head(regq) = <<t, a>>, regq' = Tail(regq)
    PROVE  /\ Queued(t, a)
           /\ \A u \in Transports, b \in {0, 1} : Queued(u, b)' => Queued(u, b)
           /\ AnnouncedOnce => AnnouncedOnce'
           /\ AnnouncedOnce /\ a = 1 => ~Queued(t, 1)'
<1>1. /\ DOMAIN regq = 1..Len(regq) /\ Len(regq) \in Nat \ {0}
      /\ DOMAIN regq' = 1..(Len(regq) - 1)
      /\ \A i \in 1..(Len(regq) - 1) : regq'[i] = regq[i + 1]
      /\ regq[1] = <<t, a>>
  BY DEF RefType
<1>2. Queued(t, a)
  BY <1>1 DEF Queued
<1>3. \A u \in Transports, b \in {0, 1} : Queued(u, b)' => Queued(u, b)
  BY <1>1 DEF Queued
<1>4. ASSUME AnnouncedOnce, NEW u \in Transports, NEW i \in DOMAIN regq', NEW j \in DOMAIN regq',
             regq'[i] = <<u, 1>>, regq'[j] = <<u, 1>>
      PROVE  i = j
  <2>1. i + 1 \in DOMAIN regq /\ j + 1 \in DOMAIN regq
    BY <1>1
  <2>2. regq[i + 1] = <<u, 1>> /\ regq[j + 1] = <<u, 1>>
    BY <1>1, <1>4
  <2>3. i + 1 = j + 1
    BY <1>4, <2>1, <2>2 DEF AnnouncedOnce
  <2> QED  BY <1>1, <2>3
<1>5. AnnouncedOnce /\ a = 1 => ~Queued(t, 1)'
  BY <1>1 DEF AnnouncedOnce, Queued
<1> QED  BY <1>2, <1>3, <1>4, <1>5 DEF AnnouncedOnce

\* UnrefLocked queues a removal or leaves regq alone.
LEMMA QueueUnref ==
    ASSUME RefType, NEW t \in Transports, UnrefLocked(t)
    PROVE  /\ \A u \in Transports : Queued(u, 1)' <=> Queued(u, 1)
           /\ \A u \in Transports : Queued(u, 0)' <=> Queued(u, 0) \/ (u = t /\ ref[t] = 1)
           /\ AnnouncedOnce => AnnouncedOnce'
<1>1. CASE ref[t] = 1
  BY <1>1, QueueAppend DEF UnrefLocked
<1>2. CASE ref[t] # 1
  BY <1>2, QueueSame DEF UnrefLocked
<1> QED  BY <1>1, <1>2

\* The registration facts are inductive, disconnects included.
LEMMA RegStep == TypeOK /\ RegInv /\ [Next]_vars => RegInv'
<1> SUFFICES ASSUME TypeOK, RegInv, [Next]_vars PROVE RegInv'
  OBVIOUS
<1> USE DEF TypeOK, RegInv, Announced, Unallocated
<1>0. "out" \in Callers /\ "in" \in Callers
  BY DEF Callers, Threads
<1>1. CASE UNCHANGED vars
  BY <1>1, QueueSame, Zenon DEF vars
<1>2. ASSUME NEW t \in Transports, Registration(t) PROVE RegInv'
  <2>1. CASE RegisterUsbTransport(t)
    BY <2>1, QueueAppend DEF RegisterUsbTransport, Allocate, LifeType
  <2>2. CASE RegisterSocketTransport(t)
    BY <2>2, QueueAppend, Zenon DEF RegisterSocketTransport, Allocate, LifeType
  <2>3. CASE UnregisterUsbTransport(t)
    BY <2>3, QueueSame, Zenon DEF UnregisterUsbTransport
  <2>4. CASE TransportRegistered(t)
    BY <2>4, QueueTail, Zenon DEF TransportRegistered, ThreadType, Callers, Threads
  <2>5. CASE TransportRemoved(t)
    BY <2>5, QueueTail, Zenon DEF TransportRemoved, LifeType, PipeType
  <2> QED  BY <1>2, <2>1, <2>2, <2>3, <2>4, <2>5, Zenon DEF Registration
<1>3. ASSUME NEW t \in Transports, Output(t) PROVE RegInv'
  <2>1. /\ UNCHANGED <<mem, regq, master, down, held>>
        /\ \A u \in Transports \ {t} : up'[u] = up[u]
    BY <1>3, Zenon DEF Output, OutputSync, OutputRead, OutputReadFails, OutputOffline, WritePacket,
       PipeType
  <2> QED  BY <1>0, <1>3, <2>1, OutputMoves, QueueSame
<1>4. ASSUME NEW t \in Transports, Input(t) PROVE RegInv'
  <2>1. \A c \in Smart, u \in Transports : held[c] # u => held'[c] # u
    BY <1>4, InputHeld, TransportAssumption, Zenon
  <2>2. /\ UNCHANGED <<mem, regq, master, up>>
        /\ \A u \in Transports \ {t} : down'[u] = down[u]
    BY <1>4, Zenon DEF Input, InputSync, InputWrite, InputReadFails, PipeType
  <2> QED  BY <1>0, <1>4, <2>1, <2>2, InputMoves, QueueSame
<1>5. ASSUME NEW t \in Transports, NEW th \in Callers, Ending(t, th) PROVE RegInv'
  <2>1. UNCHANGED <<mem, master, up, down, held>>
    BY <1>5, Zenon DEF Ending, KickTransport, RemoteKick, TransportUnref, ThreadUsesFreed
  <2>2. \/ pc' = pc
        \/ /\ mem[t] = "live" /\ \A u \in Transports \ {t} : pc'[u] = pc[u]
           /\ \A o \in {"out", "in"} : pc[t][o] = "none" => pc'[t][o] = "none"
    BY <1>0, <1>5, EndingMoves
  <2>3. CASE TransportUnref(t, th)
    BY <2>1, <2>2, <2>3, QueueUnref DEF TransportUnref
  <2>4. CASE ~TransportUnref(t, th)
    <3>1. regq' = regq
      BY <1>5, <2>4, Zenon DEF Ending, KickTransport, RemoteKick, ThreadUsesFreed
    <3> QED  BY <2>1, <2>2, <3>1, QueueSame, Zenon
  <2> QED  BY <2>3, <2>4, Zenon
<1>6. ASSUME NEW t \in Transports, LinkFails(t) PROVE RegInv'
  BY <1>6, QueueSame, Zenon DEF LinkFails
<1>7. ASSUME NEW t \in Transports, HandlePacket(t) PROVE RegInv'
  <2>1. /\ up[t] # << >>
        /\ UNCHANGED <<mem, regq, master, pc, held>>
        /\ \A u \in Transports \ {t} : up'[u] = up[u] /\ down'[u] = down[u]
    BY <1>7, Zenon DEF HandlePacket, HandleSync, HandleConnect, HandleAuth, HandleHandshake,
       HandleStream, Received, ReadPacket, SendPacket, PipeType
  <2> QED  BY <2>1, QueueSame, Zenon
<1>8. CASE Client
  <2>1. ASSUME NEW c \in Smart, OpenService(c) PROVE RegInv'
    <3>1. /\ UNCHANGED <<mem, regq, master, pc, up>>
          /\ \A d \in Smart, u \in Transports : held[d] # u => held'[d] # u
      BY <2>1, TransportAssumption, Zenon DEF OpenService, ClientType
    <3>2. \A u \in Transports : held[c] # u => down'[u] = down[u]
      BY <2>1, Zenon DEF OpenService, SendPacket, PipeType, ClientType
    <3> QED  BY <3>1, <3>2, QueueSame, Zenon
  <2>2. ASSUME NEW c \in Smart, NEW sel \in Selections, SwitchTransport(c, sel)
        PROVE  RegInv'
    BY <2>2, QueueSame, Zenon DEF SwitchTransport, ClientType, LifeType
  <2>3. ASSUME NEW w \in Waiters, WaitPick(w) PROVE RegInv'
    BY <2>3, QueueSame, Zenon DEF WaitPick
  <2>4. ASSUME NEW w \in Waiters, WaitInspect(w) PROVE RegInv'
    BY <2>4, QueueSame, Zenon DEF WaitInspect
  <2> QED  BY <1>8, <2>1, <2>2, <2>3, <2>4, Zenon DEF Client
<1>9. ASSUME NEW t \in Transports, DisconnectAll(t) PROVE RegInv'
  BY <1>9, QueueUnref, Zenon DEF DisconnectAll
<1>10. ASSUME NEW t \in Transports, Disconnect(t) PROVE RegInv'
  <2>1. "main" \in Callers /\ "main" # "out" /\ "main" # "in"
    BY DEF Callers
  <2>2. \A u \in Transports : pc'[u]["out"] = pc[u]["out"] /\ pc'[u]["in"] = pc[u]["in"]
    <3>1. Moves(t, "main", "kick")
      BY <1>10, Zenon DEF Disconnect, Moves
    <3> QED  BY <1>0, <2>1, <3>1, OneMoves
  <2>3. UNCHANGED <<mem, regq, up, down, held>> /\ master' \subseteq master
    BY <1>10, Zenon DEF Disconnect
  <2> QED  BY <2>2, <2>3, QueueSame, Zenon
<1> QED
  BY <1>1, <1>2, <1>3, <1>4, <1>5, <1>6, <1>7, <1>8, <1>9, <1>10, Zenon
     DEF Next, Step, Unregistration,
     Callers

\* The reference counts are inductive as long as nobody disconnects.
LEMMA RefStep == TypeOK /\ RefInv /\ [NextNoDisconnect]_vars => RefInv'
<1> SUFFICES ASSUME TypeOK, RefInv, [NextNoDisconnect]_vars
             PROVE  \A u \in Transports : RefCounts(u)'
  BY RegStep DEF RefInv, Next, NextNoDisconnect
<1> DEFINE Goal == \A u \in Transports : RefCounts(u)'
<1> USE DEF TypeOK, RefInv, RefCounts, Running
<1>0. "out" \in Callers /\ "in" \in Callers /\ Threads \subseteq Callers
  BY DEF Callers, Threads
<1>1. CASE UNCHANGED vars
  BY <1>1, QueueSame, Zenon DEF vars
<1>2. ASSUME NEW t \in Transports, Registration(t) PROVE Goal
  <2>1. CASE RegisterUsbTransport(t) \/ RegisterSocketTransport(t)
    <3>1. /\ regq' = Append(regq, <<t, 1>>) /\ UNCHANGED <<pc, ref>> /\ mem[t] = "unused"
          /\ mem' = [mem EXCEPT ![t] = "live"]
      BY <2>1, Zenon DEF RegisterUsbTransport, RegisterSocketTransport, Allocate
    <3>2. \A u \in Transports : mem'[u] = "freed" <=> mem[u] = "freed"
      BY <3>1 DEF LifeType
    <3>3. \A u \in Transports : Queued(u, 0)' <=> Queued(u, 0)
      BY <3>1, QueueAppend
    <3> QED  BY <3>1, <3>2, <3>3, Zenon
  <2>3. CASE UnregisterUsbTransport(t)
    BY <2>3, QueueSame, Zenon DEF UnregisterUsbTransport
  <2>4. CASE TransportRegistered(t)
    <3>1. /\ pc[t]["out"] = "none" /\ pc[t]["in"] = "none"
          /\ UNCHANGED mem
          /\ \A u \in Transports : Queued(u, 0)' => Queued(u, 0)
      BY <2>4, QueueTail, Zenon DEF TransportRegistered, RegInv, Announced
    <3>2. CASE state[t] = CS_NOPERM
      BY <2>4, <3>1, <3>2, Zenon DEF TransportRegistered
    <3>3. CASE state[t] # CS_NOPERM
      <4>1. /\ ref'[t] = 2 /\ pc'[t]["out"] = "sync" /\ pc'[t]["in"] = "loop"
            /\ \A u \in Transports \ {t} : ref'[u] = ref[u] /\ pc'[u] = pc[u]
        <5>1. ref'[t] = 2 /\ \A u \in Transports \ {t} : ref'[u] = ref[u]
          BY <2>4, <3>3, Zenon DEF TransportRegistered, RefType
        <5>2. /\ pc'[t]["out"] = "sync" /\ pc'[t]["in"] = "loop"
              /\ \A u \in Transports \ {t} : pc'[u] = pc[u]
          BY <1>0, <2>4, <3>3 DEF TransportRegistered, ThreadType
        <5> QED  BY <5>1, <5>2, Zenon
      <4> QED  BY <3>1, <4>1
    <3> QED  BY <3>2, <3>3, Zenon
  <2>5. CASE TransportRemoved(t)
    BY <2>5, QueueTail, Zenon DEF TransportRemoved, LifeType
  <2> QED  BY <1>2, <2>1, <2>3, <2>4, <2>5, Zenon DEF Registration
<1>3. ASSUME NEW t \in Transports, Output(t) PROVE Goal
  <2>1. UNCHANGED <<mem, regq, ref>>
    BY <1>3, Zenon DEF Output, OutputSync, OutputRead, OutputReadFails, OutputOffline
  <2> QED  BY <1>0, <1>3, <2>1, OutputMoves, QueueSame
<1>4. ASSUME NEW t \in Transports, Input(t) PROVE Goal
  <2>1. UNCHANGED <<mem, regq, ref>>
    BY <1>4, Zenon DEF Input, InputSync, InputWrite, InputReadFails
  <2> QED  BY <1>0, <1>4, <2>1, InputMoves, QueueSame
<1>5. ASSUME NEW t \in Transports, NEW th \in Threads, Ending(t, th) PROVE Goal
  <2>1. CASE KickTransport(t, th) \/ RemoteKick(t, th)
    <3>1. UNCHANGED <<mem, regq, ref>> /\ pc[t][th] # "unref" /\ mem[t] = "live"
      BY <2>1, Zenon DEF KickTransport, RemoteKick
    <3>2. /\ pc[t][th] \notin {"none", "done"} /\ pc'[t][th] \notin {"none", "done"}
          /\ \A o \in Callers \ {th} : pc'[t][o] = pc[t][o]
          /\ \A u \in Transports \ {t} : pc'[u] = pc[u]
      BY <1>0, <1>5, <3>1, EndingMoves, Zenon
    <3> QED  BY <1>0, <3>1, <3>2, QueueSame
  <2>3. CASE TransportUnref(t, th)
    <3>1. /\ ref'[t] = ref[t] - 1 /\ mem[t] = "live" /\ UNCHANGED mem
          /\ pc[t][th] = "unref" /\ pc'[t][th] = "done"
          /\ \A x \in Threads \ {th} : pc'[t][x] = pc[t][x]
          /\ \A u \in Transports \ {t} : ref'[u] = ref[u] /\ pc'[u] = pc[u]
      <4>1. /\ ref'[t] = ref[t] - 1 /\ mem[t] = "live" /\ UNCHANGED mem /\ pc[t][th] = "unref"
            /\ \A u \in Transports \ {t} : ref'[u] = ref[u]
        BY <2>3, Zenon DEF TransportUnref, UnrefLocked, RefType
      <4> QED  BY <1>0, <1>5, <4>1, EndingMoves
    <3>2. \A u \in Transports : Queued(u, 0)' <=> Queued(u, 0) \/ (u = t /\ ref[t] = 1)
      BY <2>3, QueueUnref, Zenon DEF TransportUnref
    <3>3. th = "out" \/ th = "in"
      BY DEF Threads
    <3> QED  BY <3>1, <3>2, <3>3 DEF Threads
  <2>4. CASE ThreadUsesFreed(t, th)
    BY <2>4, QueueSame, Zenon DEF ThreadUsesFreed
  <2> QED  BY <1>5, <2>1, <2>3, <2>4, Zenon DEF Ending
<1>6. ASSUME NEW t \in Transports, LinkFails(t) PROVE Goal
  BY <1>6, QueueSame, Zenon DEF LinkFails
<1>7. ASSUME NEW t \in Transports, HandlePacket(t) PROVE Goal
  <2>1. UNCHANGED <<mem, regq, pc, ref>>
    BY <1>7, Zenon DEF HandlePacket, HandleSync, HandleConnect, HandleAuth, HandleHandshake,
       HandleStream, Received
  <2> QED  BY <2>1, QueueSame, Zenon
<1>8. CASE Client
  <2>1. UNCHANGED <<mem, regq, pc, ref>>
    BY <1>8, Zenon DEF Client, OpenService, SwitchTransport, WaitPick, WaitInspect
  <2> QED  BY <2>1, QueueSame, Zenon
<1> QED
  BY <1>1, <1>2, <1>3, <1>4, <1>5, <1>6, <1>7, <1>8, Zenon DEF NextNoDisconnect, Step

\* Nothing is registered and nobody holds a reference at first.
LEMMA RefInit == Init => RefInv
<1> SUFFICES ASSUME Init PROVE RefInv
  OBVIOUS
<1>1. RegInv
  BY TransportAssumption DEF Init, RegInv, AnnouncedOnce, Announced, Unallocated, Queued, Callers,
     Threads
<1>2. \A t \in Transports : RefCounts(t)
  BY DEF Init, RefCounts, Queued, Callers, Threads
<1> QED  BY <1>1, <1>2 DEF RefInv
=============================================================================
