------------------------------ MODULE Transport ------------------------------
(***************************************************************************)
(* The transport core of the adb host server: the life of an atransport    *)
(* object from its registration to free(), its input and output threads,   *)
(* the pipe of packet pointers that joins them to the main thread, the     *)
(* SYNC packets that start and stop them, and the part of handle_packet()  *)
(* that changes the connection state (SYNC, CNXN, AUTH and the PAX HDSK).  *)
(*                                                                         *)
(* Sources: transport.c, adb.c (handle_packet), the transport halves of    *)
(* transport_local.c and transport_usb.c, adb_auth_host.c (key cycling),   *)
(* sockets.c (the transport pointer a smart socket keeps) and services.c   *)
(* (wait_for_state).                                                       *)
(*                                                                         *)
(* Processes: the main thread runs one callback of the select loop at a    *)
(* time, so a callback is one action.  The two threads of each transport   *)
(* run concurrently with it and with each other; a section under           *)
(* transport_lock is one action.  An atransport is an address used once.   *)
(***************************************************************************)
EXTENDS Integers, Sequences, FiniteSets

CONSTANTS
    Transports,   \* addresses of atransport objects
    Usb,          \* the USB ones
    Tcp,          \* the host:port ones; the others are emulators
    Smart,        \* smart sockets, one per client connection
    Waiters,      \* wait-for-device service threads (any transport will do)
    Null,         \* the null transport pointer
    Gone,         \* in held and picked: that client has been answered
    Banners,      \* connection states a device's CNXN banner may announce
    NKeys,        \* length of key_list
    MaxRecv       \* bound on the packets read from each device

CS_OFFLINE == 0
CS_BOOTLOADER == 1
CS_DEVICE == 2
CS_HOST == 3
CS_RECOVERY == 4
CS_NOPERM == 5
CS_SIDELOAD == 6
CS_UNAUTHORIZED == 7

BannerStates == {CS_BOOTLOADER, CS_DEVICE, CS_HOST, CS_RECOVERY, CS_SIDELOAD}
ConnectionStates == BannerStates \cup {CS_OFFLINE, CS_NOPERM, CS_UNAUTHORIZED}

ASSUME TransportAssumption ==
    /\ Usb \subseteq Transports
    /\ Tcp \subseteq Transports \ Usb
    /\ Null \notin Transports
    /\ Gone \notin Transports \cup {Null}
    /\ Banners \subseteq BannerStates
    /\ NKeys \in Nat
    /\ MaxRecv \in Nat

VARIABLES
    mem,        \* "unused", "live" or "freed" memory behind each address
    regq,       \* transport_registration socketpair: <<t, action>> in order
    pending,    \* pending_list
    master,     \* transport_list
    ref,        \* ref_count
    kicked,     \* kicked
    fdCloses,   \* how often the thread end of the pipe, t->fd, was closed
    state,      \* connection_state
    online,     \* online
    key,        \* key: 0 is NULL, n the n-th entry of key_list
    token,      \* sync_token
    pc,         \* where the "out" and "in" threads of t, and main, are on t
    active,     \* the input thread's local variable
    up,         \* packets on the pipe from the output thread to main
    down,       \* packets on the pipe from main to the input thread
    link,       \* the device can still be read and written
    recvd,      \* packets read from the device so far (bounded)
    wrote,      \* packets the device was sent, in order
    held,       \* transport pointer each smart socket keeps
    picked,     \* transport pointer each waiter took from the list
    shown,      \* the list last sent to the device trackers
    uaf         \* who used a freed atransport, "no" if nobody did

lifeVars == <<mem, pending, master>>
refVars == <<regq, ref, kicked, fdCloses>>
protoVars == <<state, online, key>>
devVars == <<link, recvd, wrote>>
clientVars == <<held, picked, uaf>>
vars == <<lifeVars, refVars, protoVars, token, pc, active, up, down, devVars,
          clientVars, shown>>

Threads == {"out", "in"}
Callers == Threads \cup {"main"}   \* who may run kick_transport(t)
PCs == {"none", "sync", "read", "offline", "loop", "kick", "kicking", "unref",
        "done"}
Absent == -1    \* a transport the trackers do not list

(***************************************************************************)
(* Packets.  data stands for the payload: the state a banner announces or  *)
(* the key that signed.  "STRM" is any of OPEN, OKAY, CLSE and WRTE.       *)
(***************************************************************************)
Commands == {"SYNC", "CNXN", "AUTH", "HDSK", "STRM"}
Packet ==
    {p \in [cmd : Commands, arg0 : Nat, arg1 : Nat, data : Nat] :
        p.cmd = "CNXN" => p.data \in BannerStates}

ADB_AUTH_TOKEN == 1
ADB_AUTH_SIGNATURE == 2
ADB_AUTH_RSAPUBLICKEY == 3
PAX_HANDSHAKE_REQ == 1
PAX_HANDSHAKE_RES == 2

SyncPacket(arg0, arg1) == [cmd |-> "SYNC", arg0 |-> arg0, arg1 |-> arg1, data |-> 0]
CnxnPacket(banner) == [cmd |-> "CNXN", arg0 |-> 0, arg1 |-> 0, data |-> banner]
AuthPacket(kind, k) == [cmd |-> "AUTH", arg0 |-> kind, arg1 |-> 0, data |-> k]
HdskPacket(kind) == [cmd |-> "HDSK", arg0 |-> kind, arg1 |-> 0, data |-> 0]
StreamPacket == [cmd |-> "STRM", arg0 |-> 0, arg1 |-> 0, data |-> 0]

\* What a device may send: its banner, an authentication token, the PAX
\* handshake request, stream traffic.
RemotePackets ==
    {CnxnPacket(b) : b \in Banners}
        \cup {AuthPacket(ADB_AUTH_TOKEN, 0), HdskPacket(PAX_HANDSHAKE_REQ), StreamPacket}

LifeType ==
    /\ mem \in [Transports -> {"unused", "live", "freed"}]
    /\ pending \subseteq Transports
    /\ master \subseteq Transports
RefType ==
    /\ regq \in Seq(Transports \X {0, 1})
    /\ ref \in [Transports -> Int]
    /\ kicked \in [Transports -> BOOLEAN]
    /\ fdCloses \in [Transports -> Nat]
ProtoType ==
    /\ state \in [Transports -> ConnectionStates]
    /\ online \in [Transports -> BOOLEAN]
    /\ key \in [Transports -> 0..NKeys]
ThreadType ==
    /\ token \in [Transports -> Nat]
    /\ pc \in [Transports -> [Callers -> PCs]]
    /\ active \in [Transports -> BOOLEAN]
PipeType ==
    /\ up \in [Transports -> Seq(Packet)]
    /\ down \in [Transports -> Seq(Packet)]
DeviceType ==
    /\ link \in [Transports -> {"up", "down"}]
    /\ recvd \in [Transports -> Nat]
    /\ wrote \in [Transports -> Seq(Packet)]
ClientType ==
    /\ held \in [Smart -> Transports \cup {Null, Gone}]
    /\ picked \in [Waiters -> Transports \cup {Null, Gone}]
    /\ uaf \in {"no", "thread", "smart", "waiter"}
    /\ shown \in [Transports -> ConnectionStates \cup {Absent}]

\* Every variable has the type its declaration in the code, or its place in
\* the code's control flow, gives it.
TypeOK ==
    /\ LifeType /\ RefType /\ ProtoType /\ ThreadType /\ PipeType /\ DeviceType
    /\ ClientType

Init ==
    /\ mem = [t \in Transports |-> "unused"]
    /\ regq = << >>
    /\ pending = {}
    /\ master = {}
    /\ ref = [t \in Transports |-> 0]
    /\ kicked = [t \in Transports |-> FALSE]
    /\ fdCloses = [t \in Transports |-> 0]
    /\ state = [t \in Transports |-> CS_OFFLINE]
    /\ online = [t \in Transports |-> FALSE]
    /\ key = [t \in Transports |-> 0]
    /\ token = [t \in Transports |-> 1]
    /\ pc = [t \in Transports |-> [th \in Callers |-> "none"]]
    /\ active = [t \in Transports |-> FALSE]
    /\ up = [t \in Transports |-> << >>]
    /\ down = [t \in Transports |-> << >>]
    /\ link = [t \in Transports |-> "up"]
    /\ recvd = [t \in Transports |-> 0]
    /\ wrote = [t \in Transports |-> << >>]
    /\ held = [c \in Smart |-> Null]
    /\ picked = [w \in Waiters |-> Null]
    /\ shown = [t \in Transports |-> Absent]
    /\ uaf = "no"
-----------------------------------------------------------------------------
(***************************************************************************)
(* Helpers.  They constrain the primed variables they name and no others.  *)
(***************************************************************************)

\* The main thread is not in the middle of unregister_transport().
MainIdle == \A t \in Transports : pc[t]["main"] \in {"none", "done"}

SendPacket(t, packets) == down' = [down EXCEPT ![t] = @ \o packets]

\* write_packet() of the output thread; it fails once t->fd is closed.
WritePacket(t, p) ==
    up' = [up EXCEPT ![t] = IF fdCloses[t] = 0 THEN Append(@, p) ELSE @]

ReadPacket(t) == up' = [up EXCEPT ![t] = Tail(@)]

\* update_transports(), with the list and the states as they are by then.
UpdateTransports(list, states) ==
    shown' = [t \in Transports |-> IF t \in list THEN states[t] ELSE Absent]

\* kicked is set once, and whoever set it calls t->kick().
Kick(t) ==
    /\ kicked' = [kicked EXCEPT ![t] = TRUE]
    /\ link' = [link EXCEPT ![t] = IF kicked[t] THEN @ ELSE "down"]

\* One unref under transport_lock; the last one closes and queues the removal.
\* remote_close() of a socket transport closes t->fd, that of a USB one closes
\* only the device.
UnrefLocked(t) ==
    /\ ref' = [ref EXCEPT ![t] = @ - 1]
    /\ IF ref[t] = 1
       THEN /\ fdCloses' = [fdCloses EXCEPT ![t] = IF t \in Usb THEN @ ELSE @ + 1]
            /\ regq' = Append(regq, <<t, 0>>)
       ELSE UNCHANGED <<fdCloses, regq>>

\* adb_auth_nextkey(): the keys in list order, then NULL, then again.
NextKey(k) == IF k = NKeys THEN 0 ELSE k + 1

\* acquire_one_transport(), the scan under transport_lock: the transports that
\* match sel, which a serial number or a transport type selects.
Matches(sel) == {t \in master \cap sel : state[t] # CS_NOPERM}

\* and the checks after the unlock; want = CS_ANY asks for no state.
CS_ANY == -1
Takeable(t, want) ==
    /\ state[t] \notin {CS_UNAUTHORIZED, CS_OFFLINE}
    /\ want \in {CS_ANY, state[t]}

Selections == {Transports, Usb, Transports \ Usb} \cup {{t} : t \in Transports}
-----------------------------------------------------------------------------
(***************************************************************************)
(* Registration, by the USB poll thread and by whoever connects a socket.  *)
(***************************************************************************)

Allocate(t, cs) ==
    /\ mem[t] = "unused"
    /\ mem' = [mem EXCEPT ![t] = "live"]
    /\ state' = [state EXCEPT ![t] = cs]
    /\ pending' = pending \cup {t}
    /\ regq' = Append(regq, <<t, 1>>)
    /\ UNCHANGED <<master, ref, kicked, fdCloses, online, key, token, pc, active,
                   up, down, devVars, clientVars, shown>>

RegisterUsbTransport(t) ==
    /\ t \in Usb
    /\ \E writeable \in BOOLEAN : Allocate(t, IF writeable THEN CS_OFFLINE ELSE CS_NOPERM)

RegisterSocketTransport(t) ==
    /\ t \notin Usb
    /\ Allocate(t, CS_OFFLINE)

\* The poll thread drops an inaccessible device that went away; the object is
\* unlinked and never freed.
UnregisterUsbTransport(t) ==
    /\ t \in Usb \cap master
    /\ state[t] = CS_NOPERM
    /\ master' = master \ {t}
    /\ UNCHANGED <<mem, pending, refVars, protoVars, token, pc, active, up, down,
                   devVars, clientVars, shown>>

TransportRegisteredOneRef(t) ==
    /\ MainIdle
    /\ regq # << >>
    /\ Head(regq) = <<t, 1>>
    /\ regq' = Tail(regq)
    /\ IF state[t] # CS_NOPERM
       THEN /\ ref' = [ref EXCEPT ![t] = 1]
            /\ pc' = [pc EXCEPT ![t]["out"] = "sync", ![t]["in"] = "loop"]
       ELSE UNCHANGED <<ref, pc>>
    /\ pending' = pending \ {t}
    /\ master' = master \cup {t}
    /\ UpdateTransports(master', state)
    /\ UNCHANGED <<mem, kicked, fdCloses, protoVars, token, active, up, down,
                   devVars, clientVars>>

\* Main: a new transport gets its pipe and its two threads, unless it is
\* inaccessible, and moves to the master list.
TransportRegistered(t) ==
    /\ MainIdle
    /\ regq # << >>
    /\ Head(regq) = <<t, 1>>
    /\ regq' = Tail(regq)
    /\ IF state[t] # CS_NOPERM
       THEN /\ ref' = [ref EXCEPT ![t] = 2]
            /\ pc' = [pc EXCEPT ![t]["out"] = "sync", ![t]["in"] = "loop"]
       ELSE UNCHANGED <<ref, pc>>
    /\ pending' = pending \ {t}
    /\ master' = master \cup {t}
    /\ UpdateTransports(master', state)
    /\ UNCHANGED <<mem, kicked, fdCloses, protoVars, token, active, up, down,
                   devVars, clientVars>>

\* Main: the pipe is closed, the object unlinked and freed.
TransportRemoved(t) ==
    /\ MainIdle
    /\ regq # << >>
    /\ Head(regq) = <<t, 0>>
    /\ regq' = Tail(regq)
    /\ fdCloses' = [fdCloses EXCEPT ![t] = @ + 1]
    /\ up' = [up EXCEPT ![t] = << >>]
    /\ down' = [down EXCEPT ![t] = << >>]
    /\ master' = master \ {t}
    /\ pending' = pending \ {t}
    /\ mem' = [mem EXCEPT ![t] = "freed"]
    /\ UpdateTransports(master', state)
    /\ UNCHANGED <<ref, kicked, protoVars, token, pc, active, devVars, clientVars>>
-----------------------------------------------------------------------------
(***************************************************************************)
(* The output thread: device to main.                                      *)
(***************************************************************************)

OutputSync(t) ==
    /\ mem[t] = "live"
    /\ pc[t]["out"] = "sync"
    /\ token' = [token EXCEPT ![t] = @ + 1]
    /\ WritePacket(t, SyncPacket(1, token[t] + 1))
    /\ pc' = [pc EXCEPT ![t]["out"] = IF fdCloses[t] = 0 THEN "read" ELSE "kick"]
    /\ UNCHANGED <<lifeVars, refVars, protoVars, active, down, devVars, clientVars, shown>>

OutputRead(t) ==
    /\ mem[t] = "live"
    /\ pc[t]["out"] = "read"
    /\ link[t] = "up"
    /\ recvd[t] < MaxRecv
    /\ \E p \in RemotePackets : WritePacket(t, p)
    /\ recvd' = [recvd EXCEPT ![t] = @ + 1]
    /\ pc' = [pc EXCEPT ![t]["out"] = IF fdCloses[t] = 0 THEN @ ELSE "kick"]
    /\ UNCHANGED <<lifeVars, refVars, protoVars, token, active, down, link,
                   wrote, clientVars, shown>>

OutputReadFails(t) ==
    /\ mem[t] = "live"
    /\ pc[t]["out"] = "read"
    /\ link[t] = "down"
    /\ pc' = [pc EXCEPT ![t]["out"] = "offline"]
    /\ UNCHANGED <<lifeVars, refVars, protoVars, token, active, up, down, devVars,
                   clientVars, shown>>

OutputOfflineSilent(t) ==
    /\ mem[t] = "live"
    /\ pc[t]["out"] = "offline"
    /\ pc' = [pc EXCEPT ![t]["out"] = "kick"]
    /\ UNCHANGED <<lifeVars, refVars, protoVars, token, active, up, down, devVars,
                   clientVars, shown>>

OutputOffline(t) ==
    /\ mem[t] = "live"
    /\ pc[t]["out"] = "offline"
    /\ WritePacket(t, SyncPacket(0, 0))
    /\ pc' = [pc EXCEPT ![t]["out"] = "kick"]
    /\ UNCHANGED <<lifeVars, refVars, protoVars, token, active, down, devVars,
                   clientVars, shown>>

(***************************************************************************)
(* The input thread: main to device.  A SYNC(0) ends it, the SYNC with the *)
(* current token starts it, anything else goes to the device once active.  *)
(* Its loop ends with close_all_sockets(), which also closes a client      *)
(* whose smart socket keeps the transport.                                 *)
(***************************************************************************)

CloseAllSockets(t) == held' = [c \in Smart |-> IF held[c] = t THEN Gone ELSE held[c]]

\* Faulty variant: the clients' sockets are left open.

InputSyncKeepsSockets(t) ==
    /\ mem[t] = "live"
    /\ pc[t]["in"] = "loop"
    /\ down[t] # << >>
    /\ Head(down[t]).cmd = "SYNC"
    /\ down' = [down EXCEPT ![t] = Tail(@)]
    /\ IF Head(down[t]).arg0 = 0
       THEN /\ pc' = [pc EXCEPT ![t]["in"] = "kick"]
            /\ UNCHANGED active
       ELSE /\ active' = [active EXCEPT ![t] = @ \/ Head(down[t]).arg1 = token[t]]
            /\ UNCHANGED pc
    /\ UNCHANGED <<lifeVars, refVars, protoVars, token, up, devVars, clientVars, shown>>

InputSync(t) ==
    /\ mem[t] = "live"
    /\ pc[t]["in"] = "loop"
    /\ down[t] # << >>
    /\ Head(down[t]).cmd = "SYNC"
    /\ down' = [down EXCEPT ![t] = Tail(@)]
    /\ IF Head(down[t]).arg0 = 0
       THEN /\ pc' = [pc EXCEPT ![t]["in"] = "kick"]
            /\ CloseAllSockets(t)
            /\ UNCHANGED active
       ELSE /\ active' = [active EXCEPT ![t] = @ \/ Head(down[t]).arg1 = token[t]]
            /\ UNCHANGED <<pc, held>>
    /\ UNCHANGED <<lifeVars, refVars, protoVars, token, up, devVars, picked, uaf, shown>>

InputWrite(t) ==
    /\ mem[t] = "live"
    /\ pc[t]["in"] = "loop"
    /\ down[t] # << >>
    /\ Head(down[t]).cmd # "SYNC"
    /\ down' = [down EXCEPT ![t] = Tail(@)]
    /\ wrote' = [wrote EXCEPT ![t] = IF active[t] /\ link[t] = "up"
                                     THEN Append(@, Head(down[t])) ELSE @]
    /\ UNCHANGED <<lifeVars, refVars, protoVars, token, pc, active, up, link,
                   recvd, clientVars, shown>>

\* t->fd was closed under the thread (it may also be blocked in a read that
\* still succeeds).
InputReadFails(t) ==
    /\ mem[t] = "live"
    /\ pc[t]["in"] = "loop"
    /\ fdCloses[t] > 0
    /\ pc' = [pc EXCEPT ![t]["in"] = "kick"]
    /\ CloseAllSockets(t)
    /\ UNCHANGED <<lifeVars, refVars, protoVars, token, active, up, down, devVars,
                   picked, uaf, shown>>
-----------------------------------------------------------------------------
(***************************************************************************)
(* How both threads, and unregister_transport() on main, end:              *)
(* kick_transport() tests and sets kicked under the lock, calls t->kick()  *)
(* outside it, then the caller drops a reference.                          *)
(***************************************************************************)

KickTransport(t, th) ==
    /\ mem[t] = "live"
    /\ pc[t][th] = "kick"
    /\ kicked' = [kicked EXCEPT ![t] = TRUE]
    /\ pc' = [pc EXCEPT ![t][th] = IF kicked[t] THEN "unref" ELSE "kicking"]
    /\ UNCHANGED <<lifeVars, regq, ref, fdCloses, protoVars, token, active, up,
                   down, devVars, clientVars, shown>>

RemoteKick(t, th) ==
    /\ mem[t] = "live"
    /\ pc[t][th] = "kicking"
    /\ link' = [link EXCEPT ![t] = "down"]
    /\ pc' = [pc EXCEPT ![t][th] = "unref"]
    /\ UNCHANGED <<lifeVars, refVars, protoVars, token, active, up, down, recvd,
                   wrote, clientVars, shown>>

TransportUnref(t, th) ==
    /\ mem[t] = "live"
    /\ pc[t][th] = "unref"
    /\ UnrefLocked(t)
    /\ IF ref[t] = 1 THEN Kick(t) ELSE UNCHANGED <<kicked, link>>
    /\ pc' = [pc EXCEPT ![t][th] = "done"]
    /\ UNCHANGED <<lifeVars, protoVars, token, active, up, down, recvd, wrote,
                   clientVars, shown>>

\* A thread of a freed transport takes its next step on freed memory.
ThreadUsesFreed(t, th) ==
    /\ mem[t] = "freed"
    /\ pc[t][th] \notin {"none", "done"}
    /\ uaf' = "thread"
    /\ UNCHANGED <<lifeVars, refVars, protoVars, token, pc, active, up, down,
                   devVars, held, picked, shown>>

\* The cable is pulled, the connection is reset, the device reboots.
LinkFails(t) ==
    /\ mem[t] = "live"
    /\ link[t] = "up"
    /\ link' = [link EXCEPT ![t] = "down"]
    /\ UNCHANGED <<lifeVars, refVars, protoVars, token, pc, active, up, down, recvd,
                   wrote, clientVars, shown>>
-----------------------------------------------------------------------------
(***************************************************************************)
(* handle_packet() on the main thread, one action per command.             *)
(***************************************************************************)

Received(t, cmd) ==
    /\ MainIdle
    /\ up[t] # << >>
    /\ Head(up[t]).cmd = cmd
    /\ ReadPacket(t)
    /\ UNCHANGED <<lifeVars, refVars, token, pc, active, devVars, clientVars>>

\* Faulty variants: CNXN overtakes the SYNC; no CNXN; the offline SYNC is
\* passed on with online kept, or with nothing changed.
HandleSyncWith(t, start, cs, on) ==
    LET p == Head(up[t]) IN
    /\ Received(t, "SYNC")
    /\ SendPacket(t, IF p.arg0 # 0 THEN start ELSE <<p>>)
    /\ state' = [state EXCEPT ![t] = IF p.arg0 # 0 THEN @ ELSE cs]
    /\ online' = [online EXCEPT ![t] = IF p.arg0 # 0 THEN @ ELSE on]
    /\ UNCHANGED <<key, shown>>
HandleSyncLate(t) ==
    HandleSyncWith(t, <<CnxnPacket(CS_HOST), Head(up[t])>>, CS_OFFLINE, FALSE)
HandleSyncNoConnect(t) == HandleSyncWith(t, <<Head(up[t])>>, CS_OFFLINE, FALSE)
HandleSyncKeepsOnline(t) ==
    HandleSyncWith(t, <<Head(up[t]), CnxnPacket(CS_HOST)>>, CS_OFFLINE, online[t])
HandleSyncNoOffline(t) ==
    HandleSyncWith(t, <<Head(up[t]), CnxnPacket(CS_HOST)>>, state[t], online[t])

HandleSync(t) ==
    LET p == Head(up[t]) IN
    /\ Received(t, "SYNC")
    /\ IF p.arg0 # 0
       THEN /\ SendPacket(t, <<p, CnxnPacket(CS_HOST)>>)
            /\ UNCHANGED <<state, online>>
       ELSE /\ state' = [state EXCEPT ![t] = CS_OFFLINE]
            /\ online' = [online EXCEPT ![t] = FALSE]
            /\ SendPacket(t, <<p>>)
    /\ UNCHANGED <<key, shown>>

\* Faulty variant: the device trackers are not told.
HandleConnectSilent(t) ==
    /\ Received(t, "CNXN")
    /\ state' = [state EXCEPT ![t] = Head(up[t]).data]
    /\ online' = [online EXCEPT ![t] = TRUE]
    /\ UNCHANGED <<key, down, shown>>

\* An unknown banner makes the transport a CS_HOST, with no update.
HandleConnect(t) ==
    LET banner == Head(up[t]).data IN
    /\ Received(t, "CNXN")
    /\ state' = [state EXCEPT ![t] = banner]
    /\ online' = [online EXCEPT ![t] = TRUE]
    /\ IF banner = CS_HOST THEN UNCHANGED shown ELSE UpdateTransports(master, state')
    /\ UNCHANGED <<key, down>>

\* Signing fails or there is no public key file: nothing is sent.
HandleAuth(t) ==
    /\ Received(t, "AUTH")
    /\ Head(up[t]).arg0 = ADB_AUTH_TOKEN
    /\ state' = [state EXCEPT ![t] = CS_UNAUTHORIZED]
    /\ key' = [key EXCEPT ![t] = NextKey(@)]
    /\ LET kind == IF key'[t] = 0 THEN ADB_AUTH_RSAPUBLICKEY ELSE ADB_AUTH_SIGNATURE
       IN  \/ SendPacket(t, <<AuthPacket(kind, key'[t])>>)
           \/ UNCHANGED down
    /\ UNCHANGED <<online, shown>>

HandleHandshakeOnline(t) ==
    /\ Received(t, "HDSK")
    /\ IF online[t] THEN SendPacket(t, <<HdskPacket(PAX_HANDSHAKE_RES)>>)
       ELSE UNCHANGED down
    /\ UNCHANGED <<protoVars, shown>>

HandleHandshake(t) ==
    /\ Received(t, "HDSK")
    /\ IF Head(up[t]).arg0 = PAX_HANDSHAKE_REQ
       THEN SendPacket(t, <<HdskPacket(PAX_HANDSHAKE_RES)>>)
       ELSE UNCHANGED down
    /\ UNCHANGED <<protoVars, shown>>

\* Dropped unless online; else a socket may answer (see module Sockets).
HandleStream(t) ==
    /\ Received(t, "STRM")
    /\ \/ UNCHANGED down
       \/ online[t] /\ SendPacket(t, <<StreamPacket>>)
    /\ UNCHANGED <<protoVars, shown>>
-----------------------------------------------------------------------------
(***************************************************************************)
(* Clients.                                                                *)
(***************************************************************************)

\* "adb disconnect host:port": unregister_transport() unlinks the transport,
\* then kicks it and drops a reference.  The trackers are not told.
Disconnect(t) ==
    /\ MainIdle
    /\ t \in Tcp \cap master
    /\ master' = master \ {t}
    /\ pc' = [pc EXCEPT ![t]["main"] = "kick"]
    /\ UNCHANGED <<mem, pending, refVars, protoVars, token, active, up, down, devVars,
                   clientVars, shown>>

\* "adb disconnect": one turn of the loop of unregister_all_tcp_transports(),
\* which holds transport_lock.
DisconnectAll(t) ==
    /\ MainIdle
    /\ t \in Tcp \cap master
    /\ master' = master \ {t}
    /\ Kick(t)
    /\ UnrefLocked(t)
    /\ UNCHANGED <<mem, pending, protoVars, token, pc, active, up, down, recvd,
                   wrote, clientVars, shown>>

\* "host:transport...": the smart socket keeps the pointer, and keeps the old
\* one when there is no match.
SwitchTransport(c, sel) ==
    /\ MainIdle
    /\ held[c] # Gone
    /\ \E t \in master :
           /\ Matches(sel) = {t}
           /\ Takeable(t, CS_ANY)
           /\ held' = [held EXCEPT ![c] = t]
    /\ UNCHANGED <<lifeVars, refVars, protoVars, token, pc, active, up, down,
                   devVars, picked, uaf, shown>>

\* A device service is asked for: OPEN goes to the transport that was kept.
OpenService(c) ==
    /\ MainIdle
    /\ held[c] # Gone
    /\ held' = [held EXCEPT ![c] = Gone]
    /\ IF held[c] = Null THEN UNCHANGED <<down, uaf>>
       ELSE IF mem[held[c]] = "freed" THEN uaf' = "smart" /\ UNCHANGED down
       ELSE /\ IF state[held[c]] = CS_OFFLINE THEN UNCHANGED down
               ELSE SendPacket(held[c], <<StreamPacket>>)
            /\ UNCHANGED uaf
    /\ UNCHANGED <<lifeVars, refVars, protoVars, token, pc, active, up, devVars,
                   picked, shown>>

\* wait_for_state(): the scan of acquire_one_transport() under the lock; more
\* than one match ends it with FAIL, none makes it sleep and retry.
WaitPick(w) ==
    /\ picked[w] = Null
    /\ Matches(Transports) # {}
    /\ picked' = [picked EXCEPT ![w] =
           IF \E t \in master : Matches(Transports) = {t}
           THEN CHOOSE t \in master : Matches(Transports) = {t} ELSE Gone]
    /\ UNCHANGED <<lifeVars, refVars, protoVars, token, pc, active, up, down,
                   devVars, held, uaf, shown>>

\* Then, unlocked, the state of what it found: taken (OKAY) or retried.
WaitInspect(w) ==
    /\ picked[w] \in Transports
    /\ IF mem[picked[w]] = "freed" THEN uaf' = "waiter" ELSE UNCHANGED uaf
    /\ picked' = [picked EXCEPT ![w] = IF Takeable(picked[w], CS_DEVICE) THEN Gone ELSE Null]
    /\ UNCHANGED <<lifeVars, refVars, protoVars, token, pc, active, up, down,
                   devVars, held, shown>>
-----------------------------------------------------------------------------
Registration(t) ==
    \/ RegisterUsbTransport(t) \/ RegisterSocketTransport(t) \/ UnregisterUsbTransport(t)
    \/ TransportRegistered(t) \/ TransportRemoved(t)
Output(t) == OutputSync(t) \/ OutputRead(t) \/ OutputReadFails(t) \/ OutputOffline(t)
Input(t) == InputSync(t) \/ InputWrite(t) \/ InputReadFails(t)
Ending(t, th) ==
    KickTransport(t, th) \/ RemoteKick(t, th) \/ TransportUnref(t, th) \/ ThreadUsesFreed(t, th)
HandlePacket(t) ==
    \/ HandleSync(t) \/ HandleConnect(t) \/ HandleAuth(t) \/ HandleHandshake(t)
    \/ HandleStream(t)
Client ==
    \/ \E c \in Smart : OpenService(c) \/ \E sel \in Selections : SwitchTransport(c, sel)
    \/ \E w \in Waiters : WaitPick(w) \/ WaitInspect(w)

Step ==
    \/ \E t \in Transports :
          \/ Registration(t) \/ Output(t) \/ Input(t) \/ LinkFails(t) \/ HandlePacket(t)
          \/ \E th \in Threads : Ending(t, th)
    \/ Client

Unregistration(t) == Disconnect(t) \/ DisconnectAll(t) \/ Ending(t, "main")

\* After a use of freed memory the program may do anything: the model stops.
Next == uaf = "no" /\ (Step \/ \E t \in Transports : Unregistration(t))
NextNoDisconnect == uaf = "no" /\ Step

Spec == Init /\ [][Next]_vars
NoDisconnectSpec == Init /\ [][NextNoDisconnect]_vars
\* The main thread keeps serving its descriptors and the kernel runs every
\* thread that can run.  Nothing forces a client, a new device or a failure.
Fairness ==
    \A t \in Transports :
        /\ WF_vars(uaf = "no" /\ (TransportRegistered(t) \/ TransportRemoved(t)))
        /\ WF_vars(uaf = "no" /\ HandlePacket(t))
        /\ WF_vars(uaf = "no" /\ (OutputSync(t) \/ OutputReadFails(t) \/ OutputOffline(t)))
        /\ WF_vars(uaf = "no" /\ Input(t))
        /\ \A th \in Threads : WF_vars(uaf = "no" /\ Ending(t, th))
FairNoDisconnectSpec == NoDisconnectSpec /\ Fairness
-----------------------------------------------------------------------------
(***************************************************************************)
(* Safety.                                                                 *)
(***************************************************************************)

\* The input thread drops packets until the SYNC with the current token has
\* come round through main (transport.c, "ignoring packet while offline").
\* The order of the pipe and the guards on connection_state make sure that
\* main never has a packet for the device at that point: none is lost.
NoPacketDropped ==
    \A t \in Transports :
        down[t] # << >> /\ Head(down[t]).cmd # "SYNC" => active[t]

\* Whatever the device sends first, and however early a client asks for it,
\* the first packet the host sends is its CNXN.
ConnectFirst ==
    \A t \in Transports : wrote[t] # << >> => wrote[t][1].cmd = "CNXN"

\* connection_state and online, which different handlers set, agree: a banner
\* state is only shown while packets for streams are accepted, and an offline
\* transport accepts none.
OnlineMatchesState ==
    \A t \in Transports :
        /\ state[t] \in BannerStates => online[t]
        /\ state[t] \in {CS_OFFLINE, CS_NOPERM} => ~online[t]

Closed(t) == \E i \in DOMAIN regq : regq[i] = <<t, 0>>

\* "The transport will not actually be closed until both threads exit"
\* (transport.c): t->close(), the removal and free() come after both threads
\* have dropped their references.
CloseAfterThreads ==
    \A t \in Transports :
        Closed(t) \/ mem[t] = "freed" =>
            \A th \in Threads : pc[t][th] = "done"

\* A closed transport has been through handle_offline(): main has handled all
\* that its threads sent it, so its sockets were disconnected while the
\* pointers in them were good.
OfflineBeforeClose ==
    \A t \in Transports :
        Closed(t) \/ mem[t] = "freed" =>
            up[t] = << >> /\ state[t] = CS_OFFLINE /\ ~online[t]

\* A smart socket never keeps a pointer to a freed transport, although it
\* takes no reference: "this is necessary to avoid a race condition that
\* occured when a transport closes while a client socket is still active"
\* (transport.c, input_thread, on close_all_sockets).
SmartPointersValid ==
    \A c \in Smart : held[c] \in Transports => mem[held[c]] # "freed"

\* The device trackers list a transport under the state it connected with, and
\* list no removed transport but one that had no permission.
TrackersMatch ==
    \A t \in Transports :
        /\ t \in master /\ state[t] \in BannerStates \ {CS_HOST} => shown[t] = state[t]
        /\ t \notin master /\ state[t] # CS_NOPERM => shown[t] = Absent

\* Transports are reference counted (adb.h): nobody follows a pointer to an
\* atransport that was freed.
NoUseAfterFree == uaf = "no"

(***************************************************************************)
(* Liveness.                                                               *)
(***************************************************************************)

\* A device that goes away is cleaned up: both threads end, the transport is
\* closed, removed and freed.
LostDeviceIsFreed ==
    \A t \in Transports :
        link[t] = "down" /\ pc[t]["out"] # "none" ~> mem[t] = "freed"

\* The PAX handshake request is answered, or the device is gone.
HandshakeAnswered ==
    \A t \in Transports :
        up[t] # << >> /\ Head(up[t]) = HdskPacket(PAX_HANDSHAKE_REQ)
            ~> \/ \E i \in DOMAIN wrote[t] : wrote[t][i] = HdskPacket(PAX_HANDSHAKE_RES)
               \/ link[t] = "down"
=============================================================================
