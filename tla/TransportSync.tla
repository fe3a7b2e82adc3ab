---------------------------- MODULE TransportSync ----------------------------
(***************************************************************************)
(* The SYNC that starts the input thread reaches it before any packet for  *)
(* the device.                                                             *)
(***************************************************************************)
EXTENDS TransportRefs

USE DEF lifeVars, refVars, protoVars, devVars, clientVars

(***************************************************************************)
(* Where the SYNC(1) of the output thread is.  Until main has handled it   *)
(* nothing is sent down; then it is the head of the pipe, with the CNXN    *)
(* behind it; then the input thread is active.                             *)
(***************************************************************************)
StartsWithSync(t, q) == q # << >> /\ Head(q) = SyncPacket(1, token[t])

Unsynced(t) ==
    /\ ~active[t] /\ down[t] = << >> /\ wrote[t] = << >>
    /\ state[t] \in {CS_OFFLINE, CS_NOPERM}
    /\ IF pc[t]["out"] \in {"none", "sync"} THEN up[t] = << >>
       ELSE IF up[t] = << >> THEN fdCloses[t] > 0 ELSE StartsWithSync(t, up[t])

Syncing(t) ==
    /\ ~active[t] /\ wrote[t] = << >>
    /\ pc[t]["out"] \notin {"none", "sync"}
    /\ StartsWithSync(t, down[t])
    /\ Len(down[t]) > 1 /\ down[t][2].cmd = "CNXN"

Synced(t) ==
    /\ active[t]
    /\ pc[t]["out"] \notin {"none", "sync"}
    /\ wrote[t] = << >> =>
          \/ down[t] # << >> /\ Head(down[t]).cmd = "CNXN"
          \/ link[t] = "down" \/ mem[t] = "freed"
    /\ wrote[t] # << >> => wrote[t][1].cmd = "CNXN"

Removed(t) ==
    /\ mem[t] = "freed" /\ up[t] = << >> /\ down[t] = << >>
    /\ wrote[t] # << >> => wrote[t][1].cmd = "CNXN"

HeldUsable == \A c \in Smart : held[c] \in Transports => state[held[c]] # CS_NOPERM

SyncInv ==
    /\ RegInv /\ HeldUsable
    /\ \A t \in Transports : Unsynced(t) \/ Syncing(t) \/ Synced(t) \/ Removed(t)
-----------------------------------------------------------------------------
\* Appending to a queue keeps its head, and the packet behind it.
LEMMA SendKeeps ==
    ASSUME PipeType, NEW t \in Transports, NEW ps \in Seq(Packet), SendPacket(t, ps),
           down[t] # << >>
    PROVE  /\ down'[t] # << >> /\ Head(down'[t]) = Head(down[t])
           /\ Len(down[t]) > 1 => Len(down'[t]) > 1 /\ down'[t][2] = down[t][2]
<1>1. down[t] \in Seq(Packet) /\ down'[t] = down[t] \o ps
  BY DEF PipeType, SendPacket
<1>2. /\ Len(down[t]) \in Nat \ {0} /\ Len(ps) \in Nat
      /\ Len(down'[t]) = Len(down[t]) + Len(ps)
      /\ \A i \in 1..Len(down[t]) : down'[t][i] = down[t][i]
  BY <1>1
<1>3. down'[t] # << >> /\ Head(down'[t]) = down'[t][1] /\ Head(down[t]) = down[t][1]
  BY <1>1, <1>2
<1> QED  BY <1>2, <1>3

\* What a write by the output thread does to the head of the pipe.
LEMMA WriteKeeps ==
    ASSUME PipeType, NEW t \in Transports, NEW p \in Packet, WritePacket(t, p)
    PROVE  /\ up[t] # << >> => up'[t] # << >> /\ Head(up'[t]) = Head(up[t])
           /\ fdCloses[t] # 0 => up'[t] = up[t]
           /\ fdCloses[t] = 0 /\ up[t] = << >> => up'[t] # << >> /\ Head(up'[t]) = p
<1>1. up[t] \in Seq(Packet)
  BY DEF PipeType
<1>2. fdCloses[t] # 0 => up'[t] = up[t]
  BY DEF PipeType, WritePacket
<1>3. fdCloses[t] = 0 => up'[t] = Append(up[t], p)
  BY DEF PipeType, WritePacket
<1>4. up[t] # << >> => Append(up[t], p) # << >> /\ Head(Append(up[t], p)) = Head(up[t])
  BY <1>1
<1>5. Append(<< >>, p) # << >> /\ Head(Append(<< >>, p)) = p
  OBVIOUS
<1> QED  BY <1>2, <1>3, <1>4, <1>5, Zenon

\* The pointer a smart socket keeps is never to an inaccessible device.
LEMMA HeldStep == TypeOK /\ RegInv /\ HeldUsable /\ [Next]_vars => HeldUsable'
<1> SUFFICES ASSUME TypeOK, RegInv, HeldUsable, [Next]_vars PROVE HeldUsable'
  OBVIOUS
<1> USE DEF TypeOK, HeldUsable
<1>1. ASSUME held' = held, state' = state PROVE HeldUsable'
  BY <1>1
<1>2. CASE UNCHANGED vars
  BY <1>1, <1>2, Zenon DEF vars
<1>3. ASSUME NEW t \in Transports, Registration(t) PROVE HeldUsable'
  <2>1. CASE RegisterUsbTransport(t) \/ RegisterSocketTransport(t)
    BY <2>1 DEF RegisterUsbTransport, RegisterSocketTransport, Allocate, RegInv, Unallocated,
       ProtoType
  <2>2. CASE UnregisterUsbTransport(t) \/ TransportRegistered(t) \/ TransportRemoved(t)
    BY <1>1, <2>2, Zenon DEF UnregisterUsbTransport, TransportRegistered, TransportRemoved
  <2> QED  BY <1>3, <2>1, <2>2, Zenon DEF Registration
<1>4. ASSUME NEW t \in Transports,
             Output(t) \/ Input(t) \/ LinkFails(t) \/ Disconnect(t) \/ DisconnectAll(t)
      PROVE  HeldUsable'
  <2>1. CASE Input(t)
    <3>1. state' = state
      BY <2>1, Zenon DEF Input, InputSync, InputWrite, InputReadFails
    <3> QED  BY <2>1, <3>1, InputHeld, TransportAssumption
  <2>2. CASE ~Input(t)
    BY <1>1, <1>4, <2>2, Zenon DEF Output, OutputSync, OutputRead, OutputReadFails, OutputOffline,
       LinkFails, Disconnect, DisconnectAll
  <2> QED  BY <2>1, <2>2
<1>5. ASSUME NEW t \in Transports, NEW th \in Callers, Ending(t, th) PROVE HeldUsable'
  BY <1>1, <1>5, Zenon DEF Ending, KickTransport, RemoteKick, TransportUnref, ThreadUsesFreed
<1>6. ASSUME NEW t \in Transports, HandlePacket(t) PROVE HeldUsable'
  <2>1. held' = held
    BY <1>6, Zenon DEF HandlePacket, HandleSync, HandleConnect, HandleAuth, HandleHandshake,
       HandleStream, Received
  <2>2. \A u \in Transports : state'[u] = state[u] \/ state'[u] # CS_NOPERM
    <3>1. CASE HandleSync(t)
      BY <3>1 DEF HandleSync, ProtoType, CS_OFFLINE, CS_NOPERM
    <3>2. CASE HandleConnect(t)
      <4>1. Head(up[t]).data \in BannerStates
        BY <3>2, ReadType, Zenon DEF HandleConnect, Received, Packet
      <4>2. Head(up[t]).data # CS_NOPERM
        BY <4>1 DEF BannerStates, CS_BOOTLOADER, CS_DEVICE, CS_HOST, CS_RECOVERY, CS_SIDELOAD,
           CS_NOPERM
      <4> QED  BY <3>2, <4>2, Zenon DEF HandleConnect, ProtoType
    <3>3. CASE HandleAuth(t)
      BY <3>3 DEF HandleAuth, ProtoType, CS_UNAUTHORIZED, CS_NOPERM
    <3>4. CASE HandleHandshake(t) \/ HandleStream(t)
      BY <3>4 DEF HandleHandshake, HandleStream
    <3> QED  BY <1>6, <3>1, <3>2, <3>3, <3>4 DEF HandlePacket
  <2> QED  BY <2>1, <2>2
<1>7. CASE Client
  <2>1. ASSUME NEW c \in Smart, OpenService(c) PROVE HeldUsable'
    BY <2>1, TransportAssumption, Zenon DEF OpenService, ClientType
  <2>2. ASSUME NEW c \in Smart, NEW sel \in Selections, SwitchTransport(c, sel)
        PROVE  HeldUsable'
    <3>1. PICK t \in master : Matches(sel) = {t} /\ held' = [held EXCEPT ![c] = t]
      BY <2>2, Zenon DEF SwitchTransport
    <3>2. state[t] # CS_NOPERM
      BY <3>1 DEF Matches
    <3> QED  BY <2>2, <3>1, <3>2, Zenon DEF SwitchTransport, ClientType
  <2>3. ASSUME NEW w \in Waiters, WaitPick(w) \/ WaitInspect(w) PROVE HeldUsable'
    BY <1>1, <2>3, Zenon DEF WaitPick, WaitInspect
  <2> QED  BY <1>7, <2>1, <2>2, <2>3, Zenon DEF Client
<1> QED
  BY <1>2, <1>3, <1>4, <1>5, <1>6, <1>7, Zenon DEF Next, Step, Unregistration, Callers

\* What a handler sends down the pipe is packets.
LEMMA SendsPackets ==
    ASSUME TypeOK, NEW t \in Transports, HandlePacket(t)
    PROVE  down'[t] = down[t] \/ \E ps \in Seq(Packet) : SendPacket(t, ps)
<1> USE DEF TypeOK
<1>1. CASE HandleSync(t)
  <2>1. Head(up[t]) \in Packet
    BY <1>1, ReadType, Zenon DEF HandleSync, Received
  <2>2. /\ <<Head(up[t])>> \in Seq(Packet)
        /\ <<Head(up[t]), CnxnPacket(CS_HOST)>> \in Seq(Packet)
    BY <2>1, PacketTypes DEF BannerStates
  <2> QED  BY <1>1, <2>2, Zenon DEF HandleSync
<1>2. CASE HandleConnect(t)
  BY <1>2 DEF HandleConnect
<1>3. CASE HandleAuth(t)
  <2>1. key'[t] \in 0..NKeys
    BY <1>3, TransportAssumption DEF HandleAuth, NextKey, ProtoType
  <2>2. \A kind \in {ADB_AUTH_RSAPUBLICKEY, ADB_AUTH_SIGNATURE} :
           <<AuthPacket(kind, key'[t])>> \in Seq(Packet)
    BY <2>1, PacketTypes DEF ADB_AUTH_RSAPUBLICKEY, ADB_AUTH_SIGNATURE
  <2> QED  BY <1>3, <2>2, Zenon DEF HandleAuth
<1>4. CASE HandleHandshake(t) \/ HandleStream(t)
  <2>1. <<HdskPacket(PAX_HANDSHAKE_RES)>> \in Seq(Packet) /\ <<StreamPacket>> \in Seq(Packet)
    BY PacketTypes DEF PAX_HANDSHAKE_RES
  <2> QED  BY <1>4, <2>1, Zenon DEF HandleHandshake, HandleStream
<1> QED  BY <1>1, <1>2, <1>3, <1>4 DEF HandlePacket

\* The fields of the SYNC that the output thread starts with.
LEMMA SyncFields ==
    ASSUME NEW t, NEW q, StartsWithSync(t, q)
    PROVE  q # << >> /\ Head(q).cmd = "SYNC" /\ Head(q).arg0 = 1 /\ Head(q).arg1 = token[t]
  BY DEF StartsWithSync, SyncPacket

\* The second packet of a queue is the head of the rest.
LEMMA SecondIsNext ==
    ASSUME NEW q \in Seq(Packet), Len(q) > 1
    PROVE  Tail(q) # << >> /\ Head(Tail(q)) = q[2]
<1>1. /\ Tail(q) \in Seq(Packet) /\ Len(Tail(q)) = Len(q) - 1 /\ Tail(q)[1] = q[2]
      /\ Len(Tail(q)) # 0
  OBVIOUS
<1>2. Tail(q) # << >>
  BY <1>1, EmptySeq, Zenon
<1> QED  BY <1>1, <1>2

\* remote_close() leaves a closed descriptor closed.
LEMMA UnrefCloses ==
    ASSUME RefType, NEW t \in Transports, UnrefLocked(t), NEW u \in Transports
    PROVE  fdCloses[u] > 0 => fdCloses'[u] > 0
<1>1. CASE u = t
  BY <1>1 DEF UnrefLocked, RefType
<1>2. CASE u # t
  BY <1>2 DEF UnrefLocked, RefType
<1> QED  BY <1>1, <1>2

\* t->kick() does not bring a link back.
LEMMA KickDowns ==
    ASSUME DeviceType, NEW t \in Transports, Kick(t), NEW u \in Transports
    PROVE  link[u] = "down" => link'[u] = "down"
BY Zenon DEF Kick, DeviceType

\* The path of the SYNC that starts the input thread is inductive.
LEMMA SyncStep == TypeOK /\ SyncInv /\ [Next]_vars => SyncInv'
<1> DEFINE Phase(u) == Unsynced(u) \/ Syncing(u) \/ Synced(u) \/ Removed(u)
           Begun(u) == pc[u]["out"] \notin {"none", "sync"}
           Goal == \A u \in Transports : Phase(u)'
<1> SUFFICES ASSUME TypeOK, SyncInv, [Next]_vars PROVE Goal
  BY RegStep, HeldStep DEF SyncInv
<1> USE DEF TypeOK, SyncInv
<1>0. ASSUME NEW u \in Transports, active'[u] = active[u], wrote'[u] = wrote[u],
             state'[u] = state[u], up'[u] = up[u], token'[u] = token[u], mem'[u] = mem[u],
             down'[u] = down[u], Begun(u)' <=> Begun(u),
             fdCloses[u] > 0 => fdCloses'[u] > 0, link[u] = "down" => link'[u] = "down"
      PROVE  Phase(u)'
  BY <1>0, Zenon DEF Unsynced, Syncing, Synced, Removed, StartsWithSync
<1>1. CASE UNCHANGED vars
  BY <1>0, <1>1, Zenon DEF vars
<1>2. ASSUME NEW t \in Transports, Registration(t) PROVE Goal
  <2>1. CASE RegisterUsbTransport(t) \/ RegisterSocketTransport(t)
    <3>1. /\ mem[t] = "unused" /\ state'[t] \in {CS_OFFLINE, CS_NOPERM}
          /\ UNCHANGED <<active, wrote, up, token, down, pc, fdCloses, link>>
          /\ \A u \in Transports \ {t} : state'[u] = state[u] /\ mem'[u] = mem[u]
      BY <2>1, Zenon
         DEF RegisterUsbTransport, RegisterSocketTransport, Allocate, ProtoType, LifeType
    <3>2. pc[t]["out"] = "none"
      BY <3>1, Zenon DEF RegInv, Unallocated
    <3>3. Unsynced(t)'
      BY <3>1, <3>2, Zenon DEF Unsynced, Syncing, Synced, Removed
    <3> QED  BY <1>0, <3>1, <3>3, Zenon
  <2>2. CASE UnregisterUsbTransport(t)
    BY <1>0, <2>2, Zenon DEF UnregisterUsbTransport
  <2>3. CASE TransportRegistered(t)
    <3>1. /\ pc[t]["out"] = "none"
          /\ UNCHANGED <<active, wrote, up, token, down, fdCloses, link, state, mem>>
      BY <2>3, QueueTail, Zenon DEF TransportRegistered, RegInv, Announced
    <3>2. /\ pc'[t]["out"] \in {"none", "sync"}
          /\ \A u \in Transports \ {t} : pc'[u] = pc[u]
      BY <2>3, <3>1 DEF TransportRegistered, ThreadType, Callers, Threads
    <3> QED  BY <1>0, <3>1, <3>2, Zenon
  <2>4. CASE TransportRemoved(t)
    <3>1. /\ mem'[t] = "freed" /\ up'[t] = << >> /\ down'[t] = << >>
          /\ UNCHANGED <<active, wrote, token, pc, link, state>>
          /\ \A u \in Transports \ {t} : /\ up'[u] = up[u] /\ down'[u] = down[u]
                                       /\ mem'[u] = mem[u] /\ fdCloses'[u] = fdCloses[u]
      BY <2>4, Zenon DEF TransportRemoved, LifeType, PipeType, RefType
    <3>2. Removed(t)'
      BY <3>1, Zenon DEF Unsynced, Syncing, Synced, Removed
    <3> QED  BY <1>0, <3>1, <3>2, Zenon
  <2> QED  BY <1>2, <2>1, <2>2, <2>3, <2>4, Zenon DEF Registration
<1>3. ASSUME NEW t \in Transports, Output(t) PROVE Goal
  <2>1. /\ mem[t] = "live"
        /\ UNCHANGED <<active, wrote, down, fdCloses, link, state, mem>>
        /\ \A u \in Transports \ {t} : up'[u] = up[u] /\ token'[u] = token[u]
    BY <1>3, Zenon DEF Output, OutputSync, OutputRead, OutputReadFails, OutputOffline, WritePacket,
       PipeType, ThreadType
  <2>2. \A u \in Transports \ {t} : pc'[u] = pc[u]
    BY <1>3, Zenon DEF Output, OutputSync, OutputRead, OutputReadFails, OutputOffline, ThreadType
  <2>3. fdCloses[t] \in Nat
    BY DEF RefType
  <2>4. CASE OutputSync(t)
    <3>1. /\ pc[t]["out"] = "sync" /\ pc'[t]["out"] \in {"read", "kick"}
          /\ token'[t] = token[t] + 1 /\ WritePacket(t, SyncPacket(1, token'[t]))
      BY <2>4, Zenon DEF OutputSync, ThreadType, Callers, Threads
    <3>2. Unsynced(t) /\ up[t] = << >>
      BY <2>1, <3>1, Zenon DEF Unsynced, Syncing, Synced, Removed
    <3>3. SyncPacket(1, token'[t]) \in Packet
      <4>1. token[t] \in Nat
        BY Zenon DEF ThreadType
      <4>2. token'[t] \in Nat
        BY <3>1, <4>1
      <4> QED  BY <4>2, PacketTypes
    <3>4. IF fdCloses[t] = 0 THEN StartsWithSync(t, up[t])' ELSE up'[t] = << >>
      BY <3>1, <3>2, <3>3, WriteKeeps, Zenon DEF StartsWithSync
    <3>5. Unsynced(t)'
      BY <2>1, <2>3, <3>1, <3>2, <3>4 DEF Unsynced, StartsWithSync
    <3> QED  BY <1>0, <2>1, <2>2, <3>5, Zenon
  <2>5. CASE ~OutputSync(t)
    <3>1. token' = token
      BY <1>3, <2>5, Zenon DEF Output, OutputRead, OutputReadFails, OutputOffline
    <3>2. Begun(t) /\ Begun(t)'
      BY <1>3, <2>5, Zenon
         DEF Output, OutputRead, OutputReadFails, OutputOffline, ThreadType, Callers, Threads
    <3>3. up' = up \/ \E p \in Packet : WritePacket(t, p)
      BY <1>3, <2>5, PacketTypes, Zenon DEF Output, OutputRead, OutputReadFails, OutputOffline
    <3>4. CASE Unsynced(t)
      <4>1. /\ up[t] = << >> => up'[t] = << >> /\ fdCloses[t] > 0
            /\ up[t] # << >> => up'[t] # << >> /\ Head(up'[t]) = Head(up[t])
        BY <2>3, <3>2, <3>3, <3>4, WriteKeeps DEF Unsynced
      <4>2. Unsynced(t)'
        BY <2>1, <3>1, <3>2, <3>4, <4>1, Zenon DEF Unsynced, StartsWithSync
      <4> QED  BY <1>0, <2>1, <2>2, <3>1, <4>2, Zenon
    <3>5. CASE Syncing(t) \/ Synced(t) \/ Removed(t)
      <4>1. Syncing(t)' \/ Synced(t)'
        BY <2>1, <3>1, <3>2, <3>5, Zenon DEF Syncing, Synced, Removed, StartsWithSync
      <4> QED  BY <1>0, <2>1, <2>2, <3>1, <4>1, Zenon
    <3> QED  BY <3>4, <3>5
  <2> QED  BY <2>4, <2>5, Zenon
<1>4. ASSUME NEW t \in Transports, Input(t) PROVE Goal
  <2>1. /\ mem[t] = "live" /\ UNCHANGED <<token, up, fdCloses, link, state, mem>>
        /\ \A u \in Transports \ {t} : down'[u] = down[u] /\ wrote'[u] = wrote[u]
    BY <1>4, Zenon DEF Input, InputSync, InputWrite, InputReadFails, PipeType, DeviceType
  <2>2. /\ Begun(t)' <=> Begun(t)
        /\ \A u \in Transports \ {t} : pc'[u] = pc[u]
    BY <1>4, InputMoves, Zenon DEF Callers, Threads
  <2>3. \A u \in Transports \ {t} : active'[u] = active[u]
    BY <1>4, Zenon DEF Input, InputSync, InputWrite, InputReadFails, ThreadType
  <2>4. CASE InputSync(t)
    <3>1. /\ down[t] # << >> /\ Head(down[t]).cmd = "SYNC" /\ down'[t] = Tail(down[t])
          /\ UNCHANGED wrote
      BY <2>4, Zenon DEF InputSync, PipeType
    <3>2. CASE Syncing(t)
      <4>1. Head(down[t]).arg0 = 1 /\ Head(down[t]).arg1 = token[t]
        BY <3>2, SyncFields, Zenon DEF Syncing
      <4>5. /\ active' = [active EXCEPT ![t] = active[t] \/ Head(down[t]).arg1 = token[t]]
            /\ active \in [Transports -> BOOLEAN]
        BY <2>4, <4>1 DEF InputSync, ThreadType
      <4>2. active'[t]
        BY <4>1, <4>5, Zenon
      <4>3. down'[t] # << >> /\ Head(down'[t]) = down[t][2]
        BY <3>1, <3>2, SecondIsNext, Zenon DEF Syncing, PipeType
      <4>4. Synced(t)'
        BY <2>2, <3>1, <3>2, <4>2, <4>3, Zenon DEF Syncing, Synced
      <4> QED  BY <1>0, <2>1, <2>2, <2>3, <3>1, <4>4, Zenon
    <3>3. CASE Synced(t)
      <4>1. active'[t]
        BY <2>4, <3>3, Zenon DEF InputSync, ThreadType, Synced
      <4>2. Synced(t)'
        BY <2>1, <2>2, <3>1, <3>3, <4>1, Zenon DEF Synced
      <4> QED  BY <1>0, <2>1, <2>2, <2>3, <3>1, <4>2, Zenon
    <3> QED  BY <2>1, <3>1, <3>2, <3>3, Zenon DEF Unsynced, Removed
  <2>5. CASE InputWrite(t)
    <3>1. /\ down[t] # << >> /\ Head(down[t]).cmd # "SYNC" /\ UNCHANGED <<active, pc>>
          /\ wrote'[t] = IF active[t] /\ link[t] = "up" THEN Append(wrote[t], Head(down[t]))
                         ELSE wrote[t]
      BY <2>5, Zenon DEF InputWrite, DeviceType
    <3>2. Synced(t)
      BY <2>1, <3>1, SyncFields, Zenon DEF Unsynced, Syncing, Removed
    <3>3. wrote[t] \in Seq(Packet) /\ link[t] \in {"up", "down"} /\ Head(down[t]) \in Packet
      BY <3>1 DEF DeviceType, PipeType
    <3>4. /\ Append(wrote[t], Head(down[t])) # << >>
          /\ wrote[t] = << >> => Append(wrote[t], Head(down[t]))[1] = Head(down[t])
          /\ wrote[t] # << >> => Append(wrote[t], Head(down[t]))[1] = wrote[t][1]
      BY <3>3
    <3>5. Synced(t)'
      BY <2>1, <2>2, <3>1, <3>2, <3>3, <3>4, Zenon DEF Synced
    <3> QED  BY <1>0, <2>1, <2>2, <2>3, <3>5, Zenon
  <2>6. CASE InputReadFails(t)
    BY <1>0, <2>1, <2>2, <2>6, Zenon DEF InputReadFails
  <2> QED  BY <1>4, <2>4, <2>5, <2>6, Zenon DEF Input
<1>5. ASSUME NEW t \in Transports, NEW th \in Callers, Ending(t, th) PROVE Goal
  <2>1. UNCHANGED <<active, wrote, state, up, token, mem, down>>
    BY <1>5, Zenon DEF Ending, KickTransport, RemoteKick, TransportUnref, ThreadUsesFreed
  <2>2. \A u \in Transports : Begun(u)' <=> Begun(u)
    <3>1. \A u \in Transports : pc'[u]["out"] = pc[u]["out"] \/ (Begun(u) /\ Begun(u)')
      BY <1>5, EndingMoves DEF Callers, Threads
    <3> QED  BY <3>1, Zenon
  <2>3. \A u \in Transports :
        /\ fdCloses[u] > 0 => fdCloses'[u] > 0
        /\ link[u] = "down" => link'[u] = "down"
    <3>1. CASE TransportUnref(t, th)
      BY <3>1, UnrefCloses, KickDowns, Zenon DEF TransportUnref
    <3>2. CASE ~TransportUnref(t, th)
      <4>1. fdCloses' = fdCloses /\ (link' = link \/ link' = [link EXCEPT ![t] = "down"])
        BY <1>5, <3>2, Zenon DEF Ending, KickTransport, RemoteKick, ThreadUsesFreed
      <4> QED  BY <4>1, Zenon DEF DeviceType
    <3> QED  BY <3>1, <3>2
  <2> SUFFICES ASSUME NEW u \in Transports PROVE Phase(u)'
    OBVIOUS
  <2>4. /\ fdCloses[u] > 0 => fdCloses'[u] > 0
        /\ link[u] = "down" => link'[u] = "down"
    BY <2>3
  <2>5. Begun(u)' <=> Begun(u)
    BY <2>2, Zenon
  <2> QED  BY <1>0, <2>1, <2>4, <2>5, Zenon
<1>6. ASSUME NEW t \in Transports, LinkFails(t) PROVE Goal
  <2>1. \A u \in Transports : link[u] = "down" => link'[u] = "down"
    BY <1>6, Zenon DEF LinkFails, DeviceType
  <2> QED  BY <1>0, <1>6, <2>1, Zenon DEF LinkFails
<1>7. ASSUME NEW t \in Transports, HandlePacket(t) PROVE Goal
  <2>1. /\ up[t] # << >> /\ UNCHANGED <<active, wrote, token, mem, pc, fdCloses, link>>
    BY <1>7, Zenon DEF HandlePacket, HandleSync, HandleConnect, HandleAuth, HandleHandshake,
       HandleStream, Received
  <2>2. \A u \in Transports \ {t} : up'[u] = up[u] /\ down'[u] = down[u]
    BY <1>7, Zenon DEF HandlePacket, HandleSync, HandleConnect, HandleAuth, HandleHandshake,
       HandleStream, Received, ReadPacket, SendPacket, PipeType
  <2>3. \A u \in Transports \ {t} : state'[u] = state[u]
    BY <1>7, Zenon DEF HandlePacket, HandleSync, HandleConnect, HandleAuth, HandleHandshake,
       HandleStream, ProtoType
  <2>4. CASE Unsynced(t)
    <3>1. Head(up[t]) = SyncPacket(1, token[t]) /\ Begun(t) /\ down[t] = << >>
      BY <2>1, <2>4, Zenon DEF Unsynced, StartsWithSync
    <3>2. Head(up[t]).cmd = "SYNC" /\ Head(up[t]).arg0 = 1
      BY <2>1, <2>4, SyncFields, Zenon DEF Unsynced
    <3>6. HandleSync(t) /\ Head(up[t]).arg0 # 0
      <4>1. ~Received(t, "CNXN") /\ ~Received(t, "AUTH") /\ ~Received(t, "HDSK")
              /\ ~Received(t, "STRM")
        BY <3>2, Zenon DEF Received
      <4>2. HandleSync(t)
        BY <1>7, <4>1, Zenon DEF HandlePacket, HandleConnect, HandleAuth, HandleHandshake,
           HandleStream
      <4> QED  BY <3>2, <4>2
    <3>3. down'[t] = << >> \o <<SyncPacket(1, token[t]), CnxnPacket(CS_HOST)>>
      BY <3>1, <3>6, Zenon DEF HandleSync, SendPacket, PipeType
    <3>4. /\ down'[t] # << >> /\ Head(down'[t]) = SyncPacket(1, token[t])
          /\ Len(down'[t]) > 1 /\ down'[t][2] = CnxnPacket(CS_HOST)
      BY <3>3
    <3>5. Syncing(t)'
      <4>1. Len(down'[t]) > 1 /\ down'[t][2].cmd = "CNXN"
        BY <3>4 DEF CnxnPacket
      <4> QED  BY <2>1, <2>4, <3>1, <3>4, <4>1, Zenon DEF Unsynced, Syncing, StartsWithSync
    <3> QED  BY <1>0, <2>1, <2>2, <2>3, <3>5, Zenon
  <2>5. CASE Syncing(t) \/ Synced(t)
    <3>1. down'[t] = down[t] \/ \E ps \in Seq(Packet) : SendPacket(t, ps)
      BY <1>7, SendsPackets, Zenon
    <3>2. down[t] # << >> =>
            /\ down'[t] # << >> /\ Head(down'[t]) = Head(down[t])
            /\ Len(down[t]) > 1 => Len(down'[t]) > 1 /\ down'[t][2] = down[t][2]
      BY <3>1, SendKeeps, Zenon
    <3>3. Syncing(t)' \/ Synced(t)'
      BY <2>1, <2>5, <3>2, Zenon DEF Syncing, Synced, StartsWithSync
    <3> QED  BY <1>0, <2>1, <2>2, <2>3, <3>3, Zenon
  <2> QED  BY <2>1, <2>4, <2>5, Zenon DEF Removed
<1>8. CASE Client
  <2>1. ASSUME NEW c \in Smart, OpenService(c) PROVE Goal
    <3>1. UNCHANGED <<active, wrote, token, mem, pc, fdCloses, link, state, up>>
      BY <2>1, Zenon DEF OpenService
    <3>2. CASE down' = down
      BY <1>0, <3>1, <3>2, Zenon
    <3>3. CASE down' # down
      <4>1. PICK t \in Transports : /\ held[c] = t /\ mem[t] # "freed"
                                    /\ state[t] # CS_OFFLINE /\ SendPacket(t, <<StreamPacket>>)
        BY <2>1, <3>3, Zenon DEF OpenService, ClientType
      <4>2. state[t] # CS_NOPERM
        BY <4>1, Zenon DEF HeldUsable
      <4>3. Syncing(t) \/ Synced(t)
        BY <4>1, <4>2, Zenon DEF Unsynced, Removed
      <4>4. <<StreamPacket>> \in Seq(Packet)
        BY PacketTypes
      <4>5. down[t] # << >> =>
              /\ down'[t] # << >> /\ Head(down'[t]) = Head(down[t])
              /\ Len(down[t]) > 1 => Len(down'[t]) > 1 /\ down'[t][2] = down[t][2]
        BY <4>1, <4>4, SendKeeps, Zenon
      <4>6. Syncing(t)' \/ Synced(t)'
        BY <3>1, <4>3, <4>5, Zenon DEF Syncing, Synced, StartsWithSync
      <4>7. \A u \in Transports \ {t} : down'[u] = down[u]
        BY <4>1, Zenon DEF SendPacket, PipeType
      <4> QED  BY <1>0, <3>1, <4>6, <4>7, Zenon
    <3> QED  BY <3>2, <3>3
  <2>2. ASSUME NEW c \in Smart, NEW sel \in Selections, SwitchTransport(c, sel) PROVE Goal
    BY <1>0, <2>2, Zenon DEF SwitchTransport
  <2>3. ASSUME NEW w \in Waiters, WaitPick(w) \/ WaitInspect(w) PROVE Goal
    BY <1>0, <2>3, Zenon DEF WaitPick, WaitInspect
  <2> QED  BY <1>8, <2>1, <2>2, <2>3, Zenon DEF Client
<1>9. ASSUME NEW t \in Transports, DisconnectAll(t) PROVE Goal
  <2>1. \A u \in Transports :
        /\ fdCloses[u] > 0 => fdCloses'[u] > 0
        /\ link[u] = "down" => link'[u] = "down"
    BY <1>9, UnrefCloses, KickDowns, Zenon DEF DisconnectAll
  <2>2. UNCHANGED <<active, wrote, state, up, token, mem, down, pc>>
    BY <1>9, Zenon DEF DisconnectAll
  <2>3. \A u \in Transports : Begun(u)' <=> Begun(u)
    BY <2>2
  <2> SUFFICES ASSUME NEW u \in Transports PROVE Phase(u)'
    BY Zenon
  <2>4. /\ fdCloses[u] > 0 => fdCloses'[u] > 0
        /\ link[u] = "down" => link'[u] = "down"
    BY <2>1, Zenon
  <2>5. Begun(u)' <=> Begun(u)
    BY <2>3, Zenon
  <2> QED  BY <1>0, <2>2, <2>4, <2>5, Zenon
<1>10. ASSUME NEW t \in Transports, Disconnect(t) PROVE Goal
  <2>1. /\ UNCHANGED <<active, wrote, state, up, token, mem, down, fdCloses, link>>
        /\ pc' = [pc EXCEPT ![t]["main"] = "kick"]
    BY <1>10, Zenon DEF Disconnect
  <2>2. \A u \in Transports : Begun(u)' <=> Begun(u)
    BY <2>1, Zenon DEF ThreadType, Callers, Threads
  <2> QED  BY <1>0, <2>1, <2>2, Zenon
<1> QED
  BY <1>1, <1>2, <1>3, <1>4, <1>5, <1>6, <1>7, <1>8, <1>9, <1>10, Zenon
     DEF Next, Step, Unregistration,
     Callers

\* No thread runs and every pipe is empty at first.
LEMMA SyncInit == Init => SyncInv
<1> SUFFICES ASSUME Init PROVE SyncInv
  OBVIOUS
<1>1. RegInv
  BY RefInit DEF RefInv
<1>2. HeldUsable
  BY TransportAssumption, Zenon DEF Init, HeldUsable
<1>3. \A t \in Transports : Unsynced(t)
  BY Zenon DEF Init, Unsynced, Callers, Threads
<1> QED  BY <1>1, <1>2, <1>3 DEF SyncInv

\* However main, the threads, the device and the clients interleave, and
\* whoever disconnects.
LEMMA SyncHolds == Spec => []SyncInv
<1>1. Init => TypeOK /\ SyncInv
  BY TypeInit, SyncInit
<1>2. TypeOK /\ SyncInv /\ [Next]_vars => TypeOK' /\ SyncInv'
  BY TypeStep, SyncStep, Zenon
<1> QED  BY <1>1, <1>2, PTL DEF Spec

\* The input thread never drops a packet main gave it: the transport is active
\* when the first packet behind the SYNC arrives.
THEOREM NothingDropped == Spec => []NoPacketDropped
<1>1. SyncInv => NoPacketDropped
  BY SyncFields, Zenon DEF SyncInv, NoPacketDropped, Unsynced, Syncing, Synced, Removed
<1> QED  BY <1>1, SyncHolds, PTL

\* What a device hears first from send_connect() is CNXN.
THEOREM ConnectIsFirst == Spec => []ConnectFirst
<1>1. SyncInv => ConnectFirst
  BY Zenon DEF SyncInv, ConnectFirst, Unsynced, Syncing, Synced, Removed
<1> QED  BY <1>1, SyncHolds, PTL

-----------------------------------------------------------------------------
(***************************************************************************)
(* What the trackers and the clients see of a transport: connection_state, *)
(* online and the list that was last sent.                                 *)
(***************************************************************************)
OnlineInv ==
    /\ OnlineMatchesState
    /\ \A t \in Transports : mem[t] = "unused" => ~online[t]

\* Only a transport whose threads run gets packets; an inaccessible device,
\* CS_NOPERM from its registration on, has no threads.
Silent(t) ==
    /\ mem[t] = "unused" => state[t] = CS_OFFLINE
    /\ pc[t]["out"] = "none" => up[t] = << >>
    /\ state[t] = CS_NOPERM => pc[t]["out"] = "none"

TrackInv == TrackersMatch /\ \A t \in Transports : Silent(t)

ShowsMaster == \A u \in Transports : shown'[u] = IF u \in master' THEN state'[u] ELSE Absent

\* What a client asks for leaves all of that alone.
LEMMA QuietClients ==
    ASSUME Client PROVE UNCHANGED <<mem, master, state, online, shown, up, pc>>
BY Zenon DEF Client, OpenService, SwitchTransport, WaitPick, WaitInspect

\* So do the threads and a failing link.
LEMMA QuietSteps ==
    ASSUME NEW t \in Transports,
           Output(t) \/ Input(t) \/ LinkFails(t) \/ \E th \in Callers : Ending(t, th)
    PROVE  UNCHANGED <<mem, master, state, online, shown>>
<1>1. CASE Output(t)
  BY <1>1, Zenon DEF Output, OutputSync, OutputRead, OutputReadFails, OutputOffline
<1>2. CASE Input(t)
  BY <1>2, Zenon DEF Input, InputSync, InputWrite, InputReadFails
<1>3. CASE LinkFails(t)
  BY <1>3, Zenon DEF LinkFails
<1>4. CASE \E th \in Callers : Ending(t, th)
  BY <1>4, Zenon DEF Ending, KickTransport, RemoteKick, TransportUnref, ThreadUsesFreed
<1> QED  BY <1>1, <1>2, <1>3, <1>4

\* handle_packet() changes the state of the transport of the packet alone, and
\* tells the trackers of every banner but an unknown one.
LEMMA PacketState ==
    ASSUME TypeOK, NEW t \in Transports, HandlePacket(t)
    PROVE  /\ up[t] # << >> /\ UNCHANGED <<mem, master, pc>>
           /\ \A u \in Transports \ {t} :
                state'[u] = state[u] /\ online'[u] = online[u] /\ up'[u] = up[u]
           /\ \/ state'[t] = state[t] /\ online'[t] = online[t] /\ shown' = shown
              \/ state'[t] = CS_OFFLINE /\ ~online'[t] /\ shown' = shown
              \/ state'[t] = CS_UNAUTHORIZED /\ online'[t] = online[t] /\ shown' = shown
              \/ /\ state'[t] \in BannerStates /\ online'[t]
                 /\ (shown' = shown /\ state'[t] = CS_HOST) \/ ShowsMaster
<1>1. /\ up[t] # << >> /\ UNCHANGED <<mem, master, pc>> /\ ReadPacket(t)
  BY Zenon DEF HandlePacket, HandleSync, HandleConnect, HandleAuth, HandleHandshake, HandleStream,
     Received
<1>2. \A u \in Transports \ {t} : up'[u] = up[u]
  BY <1>1 DEF ReadPacket, TypeOK, PipeType
<1>3. state \in [Transports -> ConnectionStates] /\ online \in [Transports -> BOOLEAN]
  BY DEF TypeOK, ProtoType
<1>4. CASE HandleSync(t)
  <2>1. \/ UNCHANGED <<state, online, shown>>
        \/ /\ state' = [state EXCEPT ![t] = CS_OFFLINE] /\ shown' = shown
           /\ online' = [online EXCEPT ![t] = FALSE]
    BY <1>4, Zenon DEF HandleSync
  <2> QED  BY <1>1, <1>2, <1>3, <2>1, Zenon
<1>5. CASE HandleConnect(t)
  <2>1. Head(up[t]).data \in BannerStates
    BY <1>1, <1>5, ReadType, Zenon DEF HandleConnect, Received, TypeOK, Packet
  <2>2. /\ state' = [state EXCEPT ![t] = Head(up[t]).data]
        /\ online' = [online EXCEPT ![t] = TRUE]
        /\ \/ shown' = shown /\ Head(up[t]).data = CS_HOST
           \/ shown' = [u \in Transports |-> IF u \in master THEN state'[u] ELSE Absent]
    BY <1>5, Zenon DEF HandleConnect, UpdateTransports
  <2> QED  BY <1>1, <1>2, <1>3, <2>1, <2>2, Zenon DEF ShowsMaster
<1>6. CASE HandleAuth(t)
  <2>1. state' = [state EXCEPT ![t] = CS_UNAUTHORIZED] /\ UNCHANGED <<online, shown>>
    BY <1>6, Zenon DEF HandleAuth
  <2> QED  BY <1>1, <1>2, <1>3, <2>1, Zenon
<1>7. CASE HandleHandshake(t) \/ HandleStream(t)
  BY <1>1, <1>2, <1>7, Zenon DEF HandleHandshake, HandleStream
<1> QED  BY <1>4, <1>5, <1>6, <1>7, Zenon DEF HandlePacket

\* A new transport is offline or inaccessible, and was neither online nor
\* listed.
LEMMA NewState ==
    ASSUME TypeOK, NEW t \in Transports, RegisterUsbTransport(t) \/ RegisterSocketTransport(t)
    PROVE  /\ mem[t] = "unused" /\ \A u \in Transports : mem'[u] = "unused" => mem[u] = "unused"
           /\ mem'[t] = "live" /\ UNCHANGED <<master, online, pc, up, shown>>
           /\ state'[t] \in {CS_OFFLINE, CS_NOPERM}
           /\ \A u \in Transports \ {t} : state'[u] = state[u]
<1>1. PICK cs \in {CS_OFFLINE, CS_NOPERM} : Allocate(t, cs)
  BY DEF RegisterUsbTransport, RegisterSocketTransport
<1> QED  BY <1>1, Zenon DEF Allocate, TypeOK, LifeType, ProtoType

\* online follows connection_state, disconnects included.
LEMMA OnlineStep == TypeOK /\ RegInv /\ OnlineInv /\ [Next]_vars => OnlineInv'
<1> SUFFICES ASSUME TypeOK, RegInv, OnlineInv, [Next]_vars PROVE OnlineInv'
  OBVIOUS
<1>1. ASSUME UNCHANGED <<mem, state, online>> PROVE OnlineInv'
  BY <1>1 DEF OnlineInv, OnlineMatchesState
<1>2. CASE UNCHANGED vars
  BY <1>1, <1>2 DEF vars
<1>3. ASSUME NEW t \in Transports,
             Output(t) \/ Input(t) \/ LinkFails(t) \/ \E th \in Callers : Ending(t, th)
      PROVE  OnlineInv'
  BY <1>1, <1>3, QuietSteps, Zenon
<1>7. CASE Client
  BY <1>1, <1>7, QuietClients
<1>4. ASSUME NEW t \in Transports, HandlePacket(t) PROVE OnlineInv'
  <2>1. mem[t] # "unused"
    BY <1>4, PacketState, Zenon DEF RegInv, Unallocated
  <2> QED  BY <1>4, <2>1, PacketState DEF OnlineInv, OnlineMatchesState, BannerStates, CS_OFFLINE,
              CS_BOOTLOADER, CS_DEVICE, CS_HOST, CS_RECOVERY, CS_NOPERM, CS_SIDELOAD,
              CS_UNAUTHORIZED
<1>5. ASSUME NEW t \in Transports, RegisterUsbTransport(t) \/ RegisterSocketTransport(t)
      PROVE  OnlineInv'
  BY <1>5, NewState DEF OnlineInv, OnlineMatchesState, BannerStates, CS_OFFLINE, CS_BOOTLOADER,
     CS_DEVICE, CS_HOST, CS_RECOVERY, CS_NOPERM, CS_SIDELOAD
<1>6. ASSUME NEW t \in Transports,
             \/ UnregisterUsbTransport(t) \/ TransportRegistered(t) \/ TransportRemoved(t)
             \/ Disconnect(t) \/ DisconnectAll(t)
      PROVE  OnlineInv'
  <2>1. /\ UNCHANGED <<state, online>>
        /\ mem' = mem \/ mem' = [mem EXCEPT ![t] = "freed"]
    BY <1>6, Zenon DEF UnregisterUsbTransport, TransportRegistered, TransportRemoved, Disconnect,
       DisconnectAll
  <2>2. \A u \in Transports : mem'[u] = "unused" => mem[u] = "unused"
    BY <2>1 DEF TypeOK, LifeType
  <2> QED  BY <2>1, <2>2 DEF OnlineInv, OnlineMatchesState
<1>8. "main" \in Callers /\ Threads \subseteq Callers
  BY DEF Callers
<1> QED
  BY <1>2, <1>3, <1>4, <1>5, <1>6, <1>7, <1>8, Zenon DEF Next, Step, Registration, Unregistration

\* connection_state and online, which handle_packet() sets in different
\* branches, agree at all times: a transport that shows a banner state is online
\* and one that is offline or inaccessible is not.
THEOREM OnlineAgrees == Spec => []OnlineMatchesState
<1>1. Init => TypeOK /\ RegInv /\ OnlineInv
  <2>1. Init => OnlineInv
    BY DEF Init, OnlineInv, OnlineMatchesState, BannerStates, CS_OFFLINE, CS_BOOTLOADER, CS_DEVICE,
       CS_HOST, CS_RECOVERY, CS_SIDELOAD
  <2> QED  BY <2>1, TypeInit, RefInit DEF RefInv
<1>2. TypeOK /\ RegInv /\ OnlineInv /\ [Next]_vars => TypeOK' /\ RegInv' /\ OnlineInv'
  BY TypeStep, RegStep, OnlineStep
<1>3. OnlineInv => OnlineMatchesState
  BY DEF OnlineInv
<1> QED  BY <1>1, <1>2, <1>3, PTL DEF Spec

\* What the trackers were sent is what the list says, as long as nobody
\* disconnects.
LEMMA TrackStep == TypeOK /\ RegInv /\ TrackInv /\ [NextNoDisconnect]_vars => TrackInv'
<1> SUFFICES ASSUME TypeOK, RegInv, TrackInv, [NextNoDisconnect]_vars PROVE TrackInv'
  OBVIOUS
<1>0. "out" \in Callers /\ "in" \in Callers /\ "out" # "in" /\ ThreadType
  BY DEF Callers, Threads, TypeOK
<1>1. ASSUME UNCHANGED <<mem, master, state, online, shown>>,
             \A u \in Transports :
               pc'[u]["out"] = "none" => pc[u]["out"] = "none" /\ up'[u] = up[u],
             \A u \in Transports : pc[u]["out"] = "none" => pc'[u]["out"] = "none"
      PROVE  TrackInv'
  BY <1>1, Zenon DEF TrackInv, TrackersMatch, Silent
<1>2. CASE UNCHANGED vars
  BY <1>1, <1>2, Zenon DEF vars
<1>3. ASSUME NEW t \in Transports, Output(t) PROVE TrackInv'
  <2>1. \A u \in Transports \ {t} : up'[u] = up[u]
    BY <1>3, Zenon DEF Output, OutputSync, OutputRead, OutputReadFails, OutputOffline, WritePacket,
       TypeOK, PipeType
  <2> QED  BY <1>0, <1>1, <1>3, <2>1, OutputMoves, QuietSteps, Zenon
<1>4. ASSUME NEW t \in Transports, Input(t) PROVE TrackInv'
  <2>1. up' = up
    BY <1>4, Zenon DEF Input, InputSync, InputWrite, InputReadFails
  <2> QED  BY <1>0, <1>1, <1>4, <2>1, InputMoves, QuietSteps, Zenon
<1>5. ASSUME NEW t \in Transports, NEW th \in Threads, Ending(t, th) PROVE TrackInv'
  <2>1. up' = up
    BY <1>5, Zenon DEF Ending, KickTransport, RemoteKick, TransportUnref, ThreadUsesFreed
  <2>2. th \in Callers
    BY DEF Callers
  <2>3. UNCHANGED <<mem, master, state, online, shown>>
    BY <1>5, <2>2, QuietSteps, Zenon
  <2> QED  BY <1>0, <1>1, <1>5, <2>1, <2>2, <2>3, EndingMoves
<1>6. ASSUME NEW t \in Transports, LinkFails(t) PROVE TrackInv'
  <2>1. UNCHANGED <<up, pc>>
    BY <1>6 DEF LinkFails
  <2> QED  BY <1>1, <1>6, <2>1, QuietSteps
<1>7. ASSUME NEW t \in Transports, HandlePacket(t) PROVE TrackInv'
  <2>1. pc[t]["out"] # "none" /\ state[t] # CS_NOPERM /\ mem[t] # "unused"
    BY <1>7, PacketState, Zenon DEF TrackInv, Silent, RegInv, Unallocated
  <2>2. \A u \in Transports : Silent(u)'
    BY <1>7, <2>1, PacketState DEF TrackInv, Silent, BannerStates, CS_OFFLINE, CS_BOOTLOADER,
       CS_DEVICE, CS_HOST, CS_RECOVERY, CS_NOPERM, CS_SIDELOAD, CS_UNAUTHORIZED
  <2>3. TrackersMatch'
    BY <1>7, <2>1, PacketState DEF TrackInv, TrackersMatch, ShowsMaster, BannerStates, CS_OFFLINE,
       CS_BOOTLOADER, CS_DEVICE, CS_HOST, CS_RECOVERY, CS_SIDELOAD, CS_UNAUTHORIZED
  <2> QED  BY <2>2, <2>3 DEF TrackInv
<1>8. ASSUME Client PROVE TrackInv'
  BY <1>1, <1>8, QuietClients, Zenon
<1>9. ASSUME NEW t \in Transports, RegisterUsbTransport(t) \/ RegisterSocketTransport(t)
      PROVE  TrackInv'
  <2>1. t \notin master /\ shown[t] = Absent /\ pc[t]["out"] = "none"
    BY <1>9, NewState DEF RegInv, Unallocated, TrackInv, TrackersMatch, Silent, CS_OFFLINE,
       CS_NOPERM
  <2> QED  BY <1>9, <2>1, NewState DEF TrackInv, TrackersMatch, Silent
<1>10. ASSUME NEW t \in Transports, UnregisterUsbTransport(t) PROVE TrackInv'
  BY <1>10, Zenon DEF UnregisterUsbTransport, TrackInv, TrackersMatch, Silent
<1>11. ASSUME NEW t \in Transports, TransportRegistered(t) PROVE TrackInv'
  <2>1. ShowsMaster /\ UNCHANGED <<mem, state, up>>
    BY <1>11 DEF TransportRegistered, UpdateTransports, ShowsMaster
  <2>2. \A u \in Transports : pc'[u]["out"] # pc[u]["out"] =>
           pc'[u]["out"] = "sync" /\ state[u] # CS_NOPERM
    <3>1. \/ pc' = pc
          \/ /\ pc' = [pc EXCEPT ![t]["out"] = "sync", ![t]["in"] = "loop"]
             /\ state[t] # CS_NOPERM
      BY <1>11, Zenon DEF TransportRegistered
    <3> QED  BY <1>0, <3>1 DEF ThreadType
  <2> QED  BY <2>1, <2>2 DEF TrackInv, TrackersMatch, Silent, ShowsMaster
<1>12. ASSUME NEW t \in Transports, TransportRemoved(t) PROVE TrackInv'
  <2>1. /\ ShowsMaster /\ UNCHANGED <<pc, state>>
        /\ up' = [up EXCEPT ![t] = << >>] /\ mem' = [mem EXCEPT ![t] = "freed"]
    BY <1>12, Zenon DEF TransportRemoved, UpdateTransports, ShowsMaster
  <2>2. \A u \in Transports : /\ up[u] = << >> => up'[u] = << >>
                              /\ mem'[u] = "unused" => mem[u] = "unused"
    BY <2>1 DEF TypeOK, LifeType, PipeType
  <2> QED  BY <2>1, <2>2, Zenon DEF TrackInv, TrackersMatch, Silent, ShowsMaster
<1> QED
  BY <1>2, <1>3, <1>4, <1>5, <1>6, <1>7, <1>8, <1>9, <1>10, <1>11, <1>12, Zenon
  DEF NextNoDisconnect, Step, Registration

\* With no disconnect command the device trackers list every transport that
\* announced itself under the state of its banner, and nothing that was
\* unlinked but an inaccessible device, although update_transports() is called
\* from two handlers only and never for a state that is lost.
THEOREM TrackersAreTold == NoDisconnectSpec => []TrackersMatch
<1>1. Init => TypeOK /\ RegInv /\ TrackInv
  <2>1. Init => TrackInv
    BY DEF Init, TrackInv, TrackersMatch, Silent, BannerStates, Callers, Threads, CS_OFFLINE,
       CS_BOOTLOADER, CS_DEVICE, CS_HOST, CS_RECOVERY, CS_SIDELOAD, CS_NOPERM
  <2> QED  BY <2>1, TypeInit, RefInit DEF RefInv
<1>2. TypeOK /\ RegInv /\ TrackInv /\ [NextNoDisconnect]_vars => TypeOK' /\ RegInv' /\ TrackInv'
  <2>1. [NextNoDisconnect]_vars => [Next]_vars
    BY DEF NextNoDisconnect, Next
  <2> QED  BY <2>1, TypeStep, RegStep, TrackStep
<1>3. TrackInv => TrackersMatch
  BY DEF TrackInv
<1> QED  BY <1>1, <1>2, <1>3, PTL DEF NoDisconnectSpec
=============================================================================
