-------------------------- MODULE TransportClosing --------------------------
(***************************************************************************)
(* Transports are closed and freed last: after both threads, and after     *)
(* main has handled all they sent.                                         *)
(***************************************************************************)
EXTENDS TransportRefs

USE DEF lifeVars, refVars, protoVars, devVars, clientVars

(***************************************************************************)
(* Where the SYNC(0) of the output thread is, from its being sent to its   *)
(* reaching the input thread.                                              *)
(***************************************************************************)
IsOffline(p) == p.cmd = "SYNC" /\ p.arg0 = 0
Stopped(t) == pc[t]["out"] \in {"kick", "kicking", "unref", "done"}

OfflinePath(t) ==
    /\ fdCloses[t] > 0 => pc[t]["out"] = "done" /\ pc[t]["in"] = "done"
    /\ \A i \in DOMAIN up[t] : IsOffline(up[t][i]) => i = Len(up[t]) /\ Stopped(t)
    /\ (\E i \in DOMAIN down[t] : IsOffline(down[t][i])) \/ pc[t]["in"] \notin {"none", "loop"}
          => Stopped(t) /\ up[t] = << >> /\ state[t] = CS_OFFLINE /\ ~online[t]

CloseInv == RefInv /\ \A t \in Transports : OfflinePath(t)

-----------------------------------------------------------------------------
\* A packet that is not the offline SYNC leaves no new one in the queue.
LEMMA OnlyOnline ==
    /\ \A p \in RemotePackets : ~IsOffline(p)
    /\ \A b : ~IsOffline(CnxnPacket(b))
    /\ \A k, n : ~IsOffline(AuthPacket(k, n))
    /\ \A k : ~IsOffline(HdskPacket(k))
    /\ \A n : ~IsOffline(SyncPacket(1, n))
    /\ ~IsOffline(StreamPacket)
BY DEF IsOffline, RemotePackets, CnxnPacket, AuthPacket, HdskPacket, SyncPacket, StreamPacket

\* Sending packets down adds an offline SYNC only if one is among them.
LEMMA SendOnline ==
    ASSUME PipeType, NEW t \in Transports, NEW ps \in Seq(Packet), SendPacket(t, ps),
           \A k \in DOMAIN ps : ~IsOffline(ps[k]),
           \E i \in DOMAIN down'[t] : IsOffline(down'[t][i])
    PROVE  \E i \in DOMAIN down[t] : IsOffline(down[t][i])
<1>1. down[t] \in Seq(Packet) /\ down'[t] = down[t] \o ps
  BY Zenon DEF PipeType, SendPacket
<1>2. PICK i \in DOMAIN down'[t] : IsOffline(down'[t][i])
  OBVIOUS
<1>3. /\ i \in 1..(Len(down[t]) + Len(ps))
      /\ i \in 1..Len(down[t]) => down'[t][i] = down[t][i]
      /\ i \notin 1..Len(down[t]) =>
            i - Len(down[t]) \in DOMAIN ps /\ down'[t][i] = ps[i - Len(down[t])]
  BY <1>1, <1>2
<1>4. i \in DOMAIN down[t]
  BY <1>1, <1>2, <1>3
<1> QED  BY <1>1, <1>2, <1>3, <1>4, Zenon

\* The output thread's offline SYNC is the last packet it writes.
LEMMA WriteLast ==
    ASSUME PipeType, NEW t \in Transports, NEW p, WritePacket(t, p), fdCloses[t] = 0,
           \A i \in DOMAIN up[t] : ~IsOffline(up[t][i])
    PROVE  /\ up'[t] # << >>
           /\ \A i \in DOMAIN up'[t] :
                 IsOffline(up'[t][i]) => i = Len(up'[t]) /\ IsOffline(p)
<1>1. up[t] \in Seq(Packet) /\ up'[t] = Append(up[t], p)
  BY DEF PipeType, WritePacket
<1>2. /\ Len(up'[t]) = Len(up[t]) + 1 /\ Len(up[t]) \in Nat
      /\ DOMAIN up'[t] = 1..(Len(up[t]) + 1) /\ DOMAIN up[t] = 1..Len(up[t])
      /\ up'[t][Len(up[t]) + 1] = p
      /\ \A i \in 1..Len(up[t]) : up'[t][i] = up[t][i]
  BY <1>1
<1> QED  BY <1>1, <1>2

\* What main leaves when it takes a packet off the pipe.
LEMMA ReadRest ==
    ASSUME PipeType, NEW t \in Transports, up[t] # << >>, ReadPacket(t), OfflinePath(t)
    PROVE  /\ IsOffline(Head(up[t])) => Stopped(t) /\ up'[t] = << >>
           /\ \A i \in DOMAIN up'[t] : IsOffline(up'[t][i]) => i = Len(up'[t]) /\ Stopped(t)
<1>1. up[t] \in Seq(Packet) /\ up'[t] = Tail(up[t])
  BY DEF PipeType, ReadPacket
<1>2. /\ Len(up[t]) \in Nat \ {0} /\ Len(up'[t]) = Len(up[t]) - 1
      /\ DOMAIN up[t] = 1..Len(up[t]) /\ DOMAIN up'[t] = 1..(Len(up[t]) - 1)
      /\ \A i \in DOMAIN up'[t] : up'[t][i] = up[t][i + 1]
      /\ Head(up[t]) = up[t][1]
  BY <1>1
<1>3. up'[t] \in Seq(Packet)
  BY <1>1
<1>4. Len(up[t]) = 1 => up'[t] = << >>
  BY <1>2, <1>3, EmptySeq
<1>5. IsOffline(Head(up[t])) => Stopped(t) /\ Len(up[t]) = 1
  <2>1. 1 \in DOMAIN up[t] /\ Head(up[t]) = up[t][1]
    BY <1>2
  <2>2. \A i \in DOMAIN up[t] : IsOffline(up[t][i]) => i = Len(up[t]) /\ Stopped(t)
    BY Zenon DEF OfflinePath
  <2> QED  BY <2>1, <2>2, Zenon
<1>6. ASSUME NEW i \in DOMAIN up'[t], IsOffline(up'[t][i])
      PROVE  i = Len(up'[t]) /\ Stopped(t)
  <2>1. i + 1 \in DOMAIN up[t] /\ up'[t][i] = up[t][i + 1]
    BY <1>2
  <2>2. i + 1 = Len(up[t]) /\ Stopped(t)
    BY <1>6, <2>1, Zenon DEF OfflinePath
  <2> QED  BY <1>2, <2>2
<1> QED  BY <1>4, <1>5, <1>6, Zenon

\* The path of the offline SYNC is inductive as long as nobody disconnects.
LEMMA CloseStep == TypeOK /\ CloseInv /\ [NextNoDisconnect]_vars => CloseInv'
<1> SUFFICES ASSUME TypeOK, CloseInv, [NextNoDisconnect]_vars
             PROVE  \A u \in Transports : OfflinePath(u)'
  BY RefStep DEF CloseInv
<1> DEFINE Goal == \A u \in Transports : OfflinePath(u)'
<1> USE DEF TypeOK, CloseInv
<1>0. ASSUME NEW u \in Transports, fdCloses'[u] = fdCloses[u], pc'[u] = pc[u], up'[u] = up[u],
             down'[u] = down[u], state'[u] = state[u], online'[u] = online[u]
      PROVE  OfflinePath(u)'
  BY <1>0, Zenon DEF OfflinePath, Stopped
<1>1. CASE UNCHANGED vars
  BY <1>0, <1>1, Zenon DEF vars
<1>2. ASSUME NEW t \in Transports, Registration(t) PROVE Goal
  <2>1. CASE RegisterUsbTransport(t) \/ RegisterSocketTransport(t)
    <3>1. /\ mem[t] = "unused" /\ UNCHANGED <<fdCloses, pc, up, down, online>>
          /\ \A u \in Transports \ {t} : state'[u] = state[u]
      BY <2>1, Zenon DEF RegisterUsbTransport, RegisterSocketTransport, Allocate, ProtoType
    <3>2. pc[t]["in"] = "none" /\ down[t] = << >> /\ up[t] = << >>
      BY <3>1, Zenon DEF RefInv, RegInv, Unallocated
    <3>3. OfflinePath(t)'
      BY <3>1, <3>2 DEF OfflinePath, Stopped
    <3> QED  BY <1>0, <3>1, <3>3, Zenon
  <2>3. CASE UnregisterUsbTransport(t)
    BY <1>0, <2>3, Zenon DEF UnregisterUsbTransport
  <2>4. CASE TransportRegistered(t)
    <3>1. /\ pc[t]["out"] = "none" /\ pc[t]["in"] = "none"
          /\ UNCHANGED <<fdCloses, up, down, state, online>>
      BY <2>4, QueueTail, Zenon DEF TransportRegistered, RefInv, RegInv, Announced
    <3>2. \A u \in Transports \ {t} : pc'[u] = pc[u]
      BY <2>4, Zenon DEF TransportRegistered, ThreadType
    <3>3. pc'[t]["in"] \in {"none", "loop"} /\ pc'[t]["out"] \in {"none", "sync"}
      BY <2>4, <3>1 DEF TransportRegistered, ThreadType, Callers, Threads
    <3>4. OfflinePath(t)'
      BY <3>1, <3>3, Zenon DEF OfflinePath, Stopped
    <3> QED  BY <1>0, <3>1, <3>2, <3>4, Zenon
  <2>5. CASE TransportRemoved(t)
    <3>1. pc[t]["out"] = "done" /\ pc[t]["in"] = "done"
      <4>1. Queued(t, 0)
        BY <2>5, QueueTail, Zenon DEF TransportRemoved
      <4> QED  BY <4>1 DEF RefInv, RefCounts, Running
    <3>2. /\ UNCHANGED <<pc, state, online>> /\ up'[t] = << >> /\ down'[t] = << >>
          /\ \A u \in Transports \ {t} : /\ fdCloses'[u] = fdCloses[u] /\ up'[u] = up[u]
                                       /\ down'[u] = down[u]
      BY <2>5, Zenon DEF TransportRemoved, PipeType, RefType
    <3>3. OfflinePath(t)'
      BY <3>1, <3>2 DEF OfflinePath, Stopped
    <3> QED  BY <1>0, <3>2, <3>3
  <2> QED  BY <1>2, <2>1, <2>3, <2>4, <2>5, Zenon DEF Registration
<1>3. ASSUME NEW t \in Transports, Output(t) PROVE Goal
  <2> DEFINE same == /\ UNCHANGED <<fdCloses, down, state, online>>
                     /\ pc'[t]["in"] = pc[t]["in"]
                     /\ \A u \in Transports \ {t} : pc'[u] = pc[u] /\ up'[u] = up[u]
  <2>0. same
    <3>1. /\ UNCHANGED <<fdCloses, down, state, online>>
          /\ \A u \in Transports \ {t} : up'[u] = up[u]
      BY <1>3, Zenon
         DEF Output, OutputSync, OutputRead, OutputReadFails, OutputOffline, WritePacket,
         PipeType
    <3>2. /\ pc'[t]["in"] = pc[t]["in"]
          /\ \A u \in Transports \ {t} : pc'[u] = pc[u]
      BY <1>3, SMTT(30)
         DEF Output, OutputSync, OutputRead, OutputReadFails, OutputOffline, ThreadType,
         Callers, Threads
    <3> QED  BY <3>1, <3>2, Zenon
  <2>1. /\ ~Stopped(t) /\ fdCloses[t] = 0
        /\ pc[t]["in"] \in {"none", "loop"}
        /\ \A i \in DOMAIN up[t] : ~IsOffline(up[t][i])
        /\ \A i \in DOMAIN down[t] : ~IsOffline(down[t][i])
    <3>1. ~Stopped(t)
      BY <1>3, Zenon DEF Output, OutputSync, OutputRead, OutputReadFails, OutputOffline, Stopped
    <3>2. fdCloses[t] \in Nat
      BY DEF RefType
    <3> QED  BY <3>1, <3>2 DEF OfflinePath, Stopped
  <2>2. \E p : (WritePacket(t, p) /\ (IsOffline(p) => Stopped(t)')) \/ up'[t] = up[t]
    <3>1. CASE OutputSync(t)
      BY <3>1, OnlyOnline, Zenon DEF OutputSync
    <3>2. CASE OutputRead(t)
      BY <3>2, OnlyOnline, Zenon DEF OutputRead
    <3>3. CASE OutputReadFails(t)
      BY <3>3, Zenon DEF OutputReadFails
    <3>4. CASE OutputOffline(t)
      BY <3>4, Zenon DEF OutputOffline, Stopped, ThreadType, Callers, Threads
    <3> QED  BY <1>3, <3>1, <3>2, <3>3, <3>4, Zenon DEF Output
  <2>3. \A i \in DOMAIN up'[t] : IsOffline(up'[t][i]) => i = Len(up'[t]) /\ Stopped(t)'
    BY <2>1, <2>2, WriteLast, Zenon
  <2>4. OfflinePath(t)'
    BY <2>0, <2>1, <2>3, Zenon DEF OfflinePath
  <2> QED  BY <1>0, <2>0, <2>4, Zenon
<1>4. ASSUME NEW t \in Transports, Input(t) PROVE Goal
  <2>1. /\ UNCHANGED <<fdCloses, up, state, online>>
        /\ pc'[t]["out"] = pc[t]["out"]
        /\ pc[t]["in"] = "loop" /\ fdCloses[t] = 0
        /\ \A u \in Transports \ {t} : pc'[u] = pc[u] /\ down'[u] = down[u]
    <3>1. /\ UNCHANGED <<fdCloses, up, state, online>> /\ pc[t]["in"] = "loop"
          /\ \A u \in Transports \ {t} : down'[u] = down[u]
      BY <1>4, Zenon DEF Input, InputSync, InputWrite, InputReadFails, PipeType
    <3>2. pc'[t]["out"] = pc[t]["out"] /\ \A u \in Transports \ {t} : pc'[u] = pc[u]
      BY <1>4, Zenon DEF Input, InputSync, InputWrite, InputReadFails, ThreadType, Callers, Threads
    <3>3. fdCloses[t] \in Nat
      BY DEF RefType
    <3> QED  BY <3>1, <3>2, <3>3 DEF OfflinePath
  <2>2. /\ (\E i \in DOMAIN down'[t] : IsOffline(down'[t][i]))
            => \E i \in DOMAIN down[t] : IsOffline(down[t][i])
        /\ pc'[t]["in"] # "loop" => \E i \in DOMAIN down[t] : IsOffline(down[t][i])
    <3>1. /\ down[t] # << >> /\ down'[t] = Tail(down[t])
          /\ pc'[t]["in"] # "loop" => IsOffline(Head(down[t]))
      <4>1. CASE InputSync(t)
        BY <2>1, <4>1, Zenon DEF InputSync, PipeType, ThreadType, Callers, Threads, IsOffline
      <4>2. CASE InputWrite(t)
        BY <2>1, <4>2, Zenon DEF InputWrite, PipeType
      <4>3. CASE InputReadFails(t)
        BY <2>1, <4>3 DEF InputReadFails
      <4> QED  BY <1>4, <4>1, <4>2, <4>3 DEF Input
    <3>2. down[t] \in Seq(Packet)
      BY DEF PipeType
    <3>3. /\ 1 \in DOMAIN down[t] /\ Head(down[t]) = down[t][1]
          /\ \A i \in DOMAIN down'[t] : i + 1 \in DOMAIN down[t] /\ down'[t][i] = down[t][i + 1]
      BY <3>1, <3>2
    <3> QED  BY <3>1, <3>3, Zenon
  <2>3. OfflinePath(t)'
    BY <2>1, <2>2, Zenon DEF OfflinePath, Stopped
  <2> QED  BY <1>0, <2>1, <2>3, Zenon
<1>5. ASSUME NEW t \in Transports, NEW th \in Threads, Ending(t, th) PROVE Goal
  <2>1. CASE ThreadUsesFreed(t, th)
    BY <1>0, <2>1, Zenon DEF ThreadUsesFreed
  <2>2. CASE ~ThreadUsesFreed(t, th)
    <3>1. /\ UNCHANGED <<up, down, state, online>>
          /\ pc[t][th] \in {"kick", "kicking", "unref"}
          /\ \A u \in Transports \ {t} : fdCloses'[u] = fdCloses[u]
      BY <1>5, <2>2, Zenon
         DEF Ending, KickTransport, RemoteKick, TransportUnref, UnrefLocked, RefType
    <3>2. /\ pc'[t][th] \in {"kicking", "unref", "done"}
          /\ \A x \in Threads \ {th} : pc'[t][x] = pc[t][x]
          /\ \A u \in Transports \ {t} : pc'[u] = pc[u]
      BY <1>5, <2>2, SMTT(30)
         DEF Ending, KickTransport, RemoteKick, TransportUnref, ThreadType, Callers
    <3>3. fdCloses'[t] > 0 => pc'[t]["out"] = "done" /\ pc'[t]["in"] = "done"
      <4>1. CASE TransportUnref(t, th)
        <5>1. /\ fdCloses'[t] # fdCloses[t] => ref[t] = 1
              /\ pc'[t][th] = "done" /\ pc[t][th] = "unref" /\ mem[t] = "live"
          BY <4>1, Zenon DEF TransportUnref, UnrefLocked, ThreadType, Callers, RefType
        <5>2. ref[t] = Running(t, "out") + Running(t, "in")
          BY <5>1, Zenon DEF RefInv, RefCounts, Threads
        <5>3. fdCloses'[t] = fdCloses[t] => ~(fdCloses'[t] > 0)
          BY <5>1, Zenon DEF OfflinePath, Threads
        <5> QED  BY <3>2, <5>1, <5>2, <5>3 DEF Running, Threads
      <4>2. CASE ~TransportUnref(t, th)
        <5>1. fdCloses'[t] = fdCloses[t]
          BY <1>5, <2>2, <4>2, Zenon DEF Ending, KickTransport, RemoteKick
        <5> QED  BY <3>1, <5>1, Zenon DEF OfflinePath, Threads
      <4> QED  BY <4>1, <4>2
    <3>4. Stopped(t) => Stopped(t)'
      BY <3>1, <3>2, Zenon DEF Stopped, Threads
    <3>5. pc'[t]["in"] \notin {"none", "loop"} => pc[t]["in"] \notin {"none", "loop"}
      BY <3>1, <3>2, Zenon DEF Threads
    <3>6. OfflinePath(t)'
      BY <3>1, <3>3, <3>4, <3>5, Zenon DEF OfflinePath
    <3> QED  BY <1>0, <3>1, <3>2, <3>6, Zenon
  <2> QED  BY <2>1, <2>2, Zenon
<1>6. ASSUME NEW t \in Transports, LinkFails(t) PROVE Goal
  BY <1>0, <1>6, Zenon DEF LinkFails
<1>7. ASSUME NEW t \in Transports, HandlePacket(t) PROVE Goal
  <2>1. /\ up[t] # << >> /\ ReadPacket(t) /\ UNCHANGED <<fdCloses, pc>>
    BY <1>7, Zenon DEF HandlePacket, HandleSync, HandleConnect, HandleAuth, HandleHandshake,
       HandleStream, Received
  <2>2. \A u \in Transports \ {t} : /\ up'[u] = up[u] /\ down'[u] = down[u]
                                   /\ state'[u] = state[u] /\ online'[u] = online[u]
    <3>1. \A u \in Transports \ {t} : up'[u] = up[u] /\ down'[u] = down[u]
      BY <1>7, <2>1, Zenon DEF HandlePacket, HandleSync, HandleConnect, HandleAuth, HandleHandshake,
         HandleStream, ReadPacket, SendPacket, PipeType
    <3>2. \A u \in Transports \ {t} : state'[u] = state[u] /\ online'[u] = online[u]
      BY <1>7, Zenon DEF HandlePacket, HandleSync, HandleConnect, HandleAuth, HandleHandshake,
         HandleStream, ProtoType
    <3> QED  BY <3>1, <3>2, Zenon
  <2>3. /\ pc[t]["in"] \in {"none", "loop"}
        /\ ~\E i \in DOMAIN down[t] : IsOffline(down[t][i])
    BY <2>1, Zenon DEF OfflinePath
  <2>4. CASE HandleSync(t) /\ IsOffline(Head(up[t]))
    <3>1. state'[t] = CS_OFFLINE /\ ~online'[t]
      BY <2>4, Zenon DEF HandleSync, IsOffline, ProtoType
    <3>2. Stopped(t) /\ up'[t] = << >>
      BY <2>1, <2>4, ReadRest, Zenon
    <3>3. fdCloses[t] > 0 => pc[t]["out"] = "done" /\ pc[t]["in"] = "done"
      BY Zenon DEF OfflinePath
    <3>4. OfflinePath(t)'
      BY <2>1, <3>1, <3>2, <3>3 DEF OfflinePath, Stopped
    <3> QED  BY <1>0, <2>1, <2>2, <3>4
  <2>5. CASE ~(HandleSync(t) /\ IsOffline(Head(up[t])))
    <3> DEFINE Sends(ps) == /\ ps \in Seq(Packet) /\ SendPacket(t, ps)
                            /\ \A k \in DOMAIN ps : ~IsOffline(ps[k])
    <3>1. down'[t] = down[t] \/ \E ps : Sends(ps)
      <4>1. CASE HandleSync(t)
        <5> DEFINE ps == <<Head(up[t]), CnxnPacket(CS_HOST)>>
        <5>1. Head(up[t]).arg0 # 0 /\ Head(up[t]) \in Packet
          BY <2>1, <2>5, <4>1, ReadType, Zenon DEF HandleSync, Received, IsOffline
        <5>2. SendPacket(t, ps)
          BY <4>1, <5>1 DEF HandleSync
        <5>3. ps \in Seq(Packet) /\ DOMAIN ps = 1..2
          BY <5>1, PacketTypes DEF BannerStates
        <5>4. \A k \in DOMAIN ps : ~IsOffline(ps[k])
          <6>1. ~IsOffline(Head(up[t])) /\ ~IsOffline(CnxnPacket(CS_HOST))
            BY <5>1, OnlyOnline, Zenon DEF IsOffline
          <6>2. ps[1] = Head(up[t]) /\ ps[2] = CnxnPacket(CS_HOST)
            OBVIOUS
          <6>3. \A k \in DOMAIN ps : k = 1 \/ k = 2
            BY <5>3
          <6> HIDE DEF ps
          <6> QED  BY <6>1, <6>2, <6>3
        <5> HIDE DEF ps
        <5> QED  BY <5>2, <5>3, <5>4
      <4>2. CASE HandleConnect(t)
        BY <4>2, Zenon DEF HandleConnect
      <4>3. ASSUME NEW p \in Packet, ~IsOffline(p), SendPacket(t, <<p>>) PROVE \E ps : Sends(ps)
        <5>1. <<p>> \in Seq(Packet) /\ DOMAIN <<p>> = 1..1 /\ <<p>>[1] = p
          OBVIOUS
        <5>2. \A k \in DOMAIN <<p>> : k = 1
          BY <5>1
        <5>3. Sends(<<p>>)
          BY <4>3, <5>1, <5>2, Zenon
        <5> QED  BY <5>3, Zenon
      <4>4. CASE HandleAuth(t)
        <5>1. key'[t] \in 0..NKeys
          BY <4>4, TransportAssumption DEF HandleAuth, NextKey, ProtoType
        <5>2. \A kind \in {ADB_AUTH_RSAPUBLICKEY, ADB_AUTH_SIGNATURE} :
                 AuthPacket(kind, key'[t]) \in Packet /\ ~IsOffline(AuthPacket(kind, key'[t]))
          BY <5>1, PacketTypes, OnlyOnline, Zenon DEF ADB_AUTH_RSAPUBLICKEY, ADB_AUTH_SIGNATURE
        <5>3. \/ UNCHANGED down
              \/ \E kind \in {ADB_AUTH_RSAPUBLICKEY, ADB_AUTH_SIGNATURE} :
                    SendPacket(t, <<AuthPacket(kind, key'[t])>>)
          BY <4>4, Zenon DEF HandleAuth
        <5> HIDE DEF Sends
        <5> QED  BY <4>3, <5>2, <5>3, Zenon
      <4>5. CASE HandleHandshake(t)
        <5>1. /\ HdskPacket(PAX_HANDSHAKE_RES) \in Packet
              /\ ~IsOffline(HdskPacket(PAX_HANDSHAKE_RES))
          BY PacketTypes, OnlyOnline, Zenon DEF PAX_HANDSHAKE_RES
        <5>2. UNCHANGED down \/ SendPacket(t, <<HdskPacket(PAX_HANDSHAKE_RES)>>)
          BY <4>5 DEF HandleHandshake
        <5> HIDE DEF Sends
        <5> QED  BY <4>3, <5>1, <5>2, Zenon
      <4>6. CASE HandleStream(t)
        <5>1. UNCHANGED down \/ SendPacket(t, <<StreamPacket>>)
          BY <4>6 DEF HandleStream
        <5> HIDE DEF Sends
        <5> QED  BY <4>3, <5>1, PacketTypes, OnlyOnline, Zenon
      <4> QED  BY <1>7, <4>1, <4>2, <4>4, <4>5, <4>6, Zenon DEF HandlePacket
    <3>2. ~\E i \in DOMAIN down'[t] : IsOffline(down'[t][i])
      BY <2>3, <3>1, SendOnline, Zenon
    <3>3. OfflinePath(t)'
      BY <2>1, <2>3, <3>2, ReadRest, Zenon DEF OfflinePath, Stopped
    <3> QED  BY <1>0, <2>1, <2>2, <3>3, Zenon
  <2> QED  BY <2>4, <2>5
<1>8. CASE Client
  <2>1. UNCHANGED <<fdCloses, pc, up, state, online>>
    BY <1>8, Zenon DEF Client, OpenService, SwitchTransport, WaitPick, WaitInspect
  <2>2. down' = down \/ \E t \in Transports : SendPacket(t, <<StreamPacket>>)
    BY <1>8, Zenon DEF Client, OpenService, SwitchTransport, WaitPick, WaitInspect, ClientType
  <2>3. ASSUME NEW t \in Transports, SendPacket(t, <<StreamPacket>>) PROVE Goal
    <3>1. \A u \in Transports \ {t} : down'[u] = down[u]
      BY <2>3 DEF SendPacket, PipeType
    <3>2. /\ <<StreamPacket>> \in Seq(Packet)
          /\ \A k \in DOMAIN <<StreamPacket>> : <<StreamPacket>>[k] = StreamPacket
      BY PacketTypes
    <3>3. (\E i \in DOMAIN down'[t] : IsOffline(down'[t][i]))
             => \E i \in DOMAIN down[t] : IsOffline(down[t][i])
      BY <2>3, <3>2, SendOnline, OnlyOnline, Zenon
    <3>4. OfflinePath(t)'
      BY <2>1, <3>3, Zenon DEF OfflinePath, Stopped
    <3> QED  BY <1>0, <2>1, <3>1, <3>4
  <2> QED  BY <1>0, <2>1, <2>2, <2>3
<1> QED
  BY <1>1, <1>2, <1>3, <1>4, <1>5, <1>6, <1>7, <1>8, Zenon DEF NextNoDisconnect, Step

\* No transport has been announced, no packet is on any pipe.
LEMMA CloseInit == Init => CloseInv
<1> SUFFICES ASSUME Init PROVE CloseInv
  OBVIOUS
<1>1. RefInv
  BY RefInit
<1>2. \A t \in Transports : OfflinePath(t)
  BY DEF Init, OfflinePath, Callers, Threads
<1> QED  BY <1>1, <1>2, Zenon DEF CloseInv

\* With no disconnect command, a transport is closed, removed and freed only
\* after both its threads have let go of it: the reference counting is right
\* for any number of transports and any interleaving of their threads.
THEOREM ClosesAfterThreads == NoDisconnectSpec => []CloseAfterThreads
<1>1. Init => TypeOK /\ CloseInv
  BY TypeInit, CloseInit
<1>2. TypeOK /\ CloseInv /\ [NextNoDisconnect]_vars => TypeOK' /\ CloseInv'
  <2>1. [NextNoDisconnect]_vars => [Next]_vars
    BY DEF NextNoDisconnect, Next
  <2> QED  BY <2>1, TypeStep, CloseStep
<1>3. CloseInv => CloseAfterThreads
  BY DEF CloseInv, RefInv, RefCounts, Running, CloseAfterThreads, Closed, Queued, Callers, Threads
<1> QED  BY <1>1, <1>2, <1>3, PTL DEF NoDisconnectSpec

\* With no disconnect command, by the time a transport is closed main has
\* handled everything its threads sent, the offline SYNC last, so that
\* handle_offline() has run and nothing brings the transport online again.
THEOREM ClosesOffline == NoDisconnectSpec => []OfflineBeforeClose
<1>1. Init => TypeOK /\ CloseInv
  BY TypeInit, CloseInit
<1>2. TypeOK /\ CloseInv /\ [NextNoDisconnect]_vars => TypeOK' /\ CloseInv'
  <2>1. [NextNoDisconnect]_vars => [Next]_vars
    BY DEF NextNoDisconnect, Next
  <2> QED  BY <2>1, TypeStep, CloseStep
<1>3. CloseInv => OfflineBeforeClose
  <2> SUFFICES ASSUME CloseInv, NEW t \in Transports, Closed(t) \/ mem[t] = "freed"
               PROVE  up[t] = << >> /\ state[t] = CS_OFFLINE /\ ~online[t]
    BY DEF OfflineBeforeClose
  <2>1. pc[t]["in"] = "done"
    BY DEF CloseInv, RefInv, RefCounts, Running, Closed, Queued
  <2> QED  BY <2>1, Zenon DEF CloseInv, OfflinePath
<1> QED  BY <1>1, <1>2, <1>3, PTL DEF NoDisconnectSpec

-----------------------------------------------------------------------------
(***************************************************************************)
(* close_all_sockets() comes after the transport went offline, so no        *)
(* client can take it again.                                               *)
(***************************************************************************)
Released(t) == pc[t]["in"] \notin {"none", "loop"} => \A c \in Smart : held[c] # t

\* Once its input thread is past its loop no smart socket keeps a transport.
LEMMA ReleasedStep ==
    ASSUME TypeOK, CloseInv, \A u \in Transports : Released(u), [NextNoDisconnect]_vars
    PROVE  \A u \in Transports : Released(u)'
<1> DEFINE Goal == \A u \in Transports : Released(u)'
<1> USE DEF TypeOK
<1>0. ASSUME \A c \in Smart, u \in Transports : held[c] # u => held'[c] # u,
             \A u \in Transports : pc'[u]["in"] \notin {"none", "loop"}
                                      => pc[u]["in"] \notin {"none", "loop"}
      PROVE  Goal
  BY <1>0 DEF Released
<1>1. CASE UNCHANGED vars
  BY <1>0, <1>1, Zenon DEF vars
<1>2. ASSUME NEW t \in Transports, Registration(t) PROVE Goal
  <2>1. held' = held
    BY <1>2, Zenon DEF Registration, RegisterUsbTransport, RegisterSocketTransport, Allocate,
       UnregisterUsbTransport, TransportRegistered, TransportRemoved
  <2>2. CASE TransportRegistered(t)
    <3>1. pc' = pc \/ pc' = [pc EXCEPT ![t]["out"] = "sync", ![t]["in"] = "loop"]
      BY <2>2, Zenon DEF TransportRegistered
    <3>2. \A u \in Transports : pc'[u]["in"] = pc[u]["in"] \/ pc'[u]["in"] = "loop"
      BY <3>1, Zenon DEF ThreadType, Callers, Threads
    <3> QED  BY <1>0, <2>1, <3>2
  <2>3. CASE ~TransportRegistered(t)
    BY <1>0, <1>2, <2>1, <2>3, Zenon
       DEF Registration, RegisterUsbTransport, RegisterSocketTransport,
       Allocate, UnregisterUsbTransport, TransportRemoved
  <2> QED  BY <2>2, <2>3
<1>3. ASSUME NEW t \in Transports, Output(t) PROVE Goal
  <2>1. held' = held
    BY <1>3, Zenon DEF Output, OutputSync, OutputRead, OutputReadFails, OutputOffline, clientVars
  <2>2. \E l : pc' = [pc EXCEPT ![t]["out"] = l]
    BY <1>3, Zenon DEF Output, OutputSync, OutputRead, OutputReadFails, OutputOffline
  <2>3. \A u \in Transports : pc'[u]["in"] = pc[u]["in"]
    BY <2>2 DEF ThreadType, Callers, Threads
  <2> QED  BY <1>0, <2>1, <2>3
<1>4. ASSUME NEW t \in Transports, Input(t) PROVE Goal
  <2>1. \A c \in Smart, u \in Transports : held[c] # u => held'[c] # u
    BY <1>4, InputHeld, TransportAssumption
  <2>2. \A u \in Transports \ {t} : pc'[u] = pc[u]
    BY <1>4, Zenon DEF Input, InputSync, InputWrite, InputReadFails, ThreadType
  <2>3. pc'[t] # pc[t] => CloseAllSockets(t)
    BY <1>4, Zenon DEF Input, InputSync, InputWrite, InputReadFails
  <2>4. CloseAllSockets(t) => \A c \in Smart : held'[c] # t
    BY TransportAssumption DEF CloseAllSockets
  <2> QED  BY <2>1, <2>2, <2>3, <2>4 DEF Released
<1>5. ASSUME NEW t \in Transports, NEW th \in Threads, Ending(t, th) PROVE Goal
  <2>1. held' = held
    BY <1>5, Zenon DEF Ending, KickTransport, RemoteKick, TransportUnref, ThreadUsesFreed
  <2>2. \/ pc' = pc
        \/ /\ pc[t][th] \in {"kick", "kicking", "unref"}
           /\ \E l : pc' = [pc EXCEPT ![t][th] = l]
    BY <1>5, Zenon DEF Ending, KickTransport, RemoteKick, TransportUnref, ThreadUsesFreed
  <2>3. ASSUME NEW u \in Transports, pc'[u]["in"] \notin {"none", "loop"}
        PROVE  pc[u]["in"] \notin {"none", "loop"}
    <3>1. CASE u = t /\ th = "in" /\ pc' # pc
      BY <2>2, <3>1
    <3>2. CASE ~(u = t /\ th = "in") \/ pc' = pc
      BY <2>2, <2>3, <3>2 DEF ThreadType, Callers, Threads
    <3> QED  BY <3>1, <3>2
  <2> QED  BY <1>0, <2>1, <2>3, Zenon
<1>6. ASSUME NEW t \in Transports, LinkFails(t) \/ HandlePacket(t) PROVE Goal
  BY <1>0, <1>6, Zenon DEF LinkFails, HandlePacket, HandleSync, HandleConnect, HandleAuth,
     HandleHandshake, HandleStream, Received
<1>7. CASE Client
  <2>1. ASSUME NEW c \in Smart, NEW sel \in Selections, SwitchTransport(c, sel) PROVE Goal
    <3>1. PICK t \in master : Takeable(t, CS_ANY) /\ held' = [held EXCEPT ![c] = t]
      BY <2>1, Zenon DEF SwitchTransport
    <3>2. state[t] # CS_OFFLINE /\ t \in Transports
      BY <3>1 DEF Takeable, LifeType
    <3>3. pc[t]["in"] \in {"none", "loop"}
      BY <3>2 DEF CloseInv, OfflinePath
    <3>4. pc' = pc
      BY <2>1 DEF SwitchTransport
    <3> QED  BY <3>1, <3>3, <3>4 DEF Released, ClientType
  <2>2. ASSUME NEW c \in Smart, OpenService(c) PROVE Goal
    <3>1. pc' = pc /\ held' = [held EXCEPT ![c] = Gone]
      BY <2>2, Zenon DEF OpenService
    <3> QED  BY <1>0, <3>1, TransportAssumption, Zenon DEF ClientType
  <2>3. ASSUME NEW w \in Waiters, WaitPick(w) \/ WaitInspect(w) PROVE Goal
    BY <1>0, <2>3, Zenon DEF WaitPick, WaitInspect
  <2> QED  BY <1>7, <2>1, <2>2, <2>3 DEF Client
<1> QED
  BY <1>1, <1>2, <1>3, <1>4, <1>5, <1>6, <1>7, Zenon DEF NextNoDisconnect, Step

\* With no disconnect command, the pointer a smart socket keeps without a
\* reference is good: its transport is offline, and its clients closed, before
\* it can be freed.
THEOREM PointersValid == NoDisconnectSpec => []SmartPointersValid
<1> DEFINE Inv == TypeOK /\ CloseInv /\ \A u \in Transports : Released(u)
<1>1. Init => Inv
  BY TypeInit, CloseInit DEF Init, Released, Callers, Threads
<1>2. Inv /\ [NextNoDisconnect]_vars => Inv'
  <2>1. [NextNoDisconnect]_vars => [Next]_vars
    BY DEF NextNoDisconnect, Next
  <2> QED  BY <2>1, TypeStep, CloseStep, ReleasedStep
<1>3. Inv => SmartPointersValid
  <2> SUFFICES ASSUME Inv, NEW c \in Smart, held[c] \in Transports, mem[held[c]] = "freed"
               PROVE  FALSE
    BY DEF SmartPointersValid
  <2>1. pc[held[c]]["in"] = "done"
    BY DEF CloseInv, RefInv, RefCounts, Running, Closed, Queued
  <2> QED  BY <2>1 DEF Released
<1> QED  BY <1>1, <1>2, <1>3, PTL DEF NoDisconnectSpec
=============================================================================
