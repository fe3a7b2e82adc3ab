----------------------------- MODULE HostServer -----------------------------
(***************************************************************************)
(* What clients ask of the server, on top of LocalTransports: the smart    *)
(* sockets that assemble a request (sockets.c), the host requests          *)
(* (handle_host_request, handle_forward_request and the listeners of       *)
(* adb.c) and the services they start (services.c).                        *)
(*                                                                         *)
(* A callback of main is one step; main is busy while it dials an emulator.*)
(* A forward listener is known by its local name, of which there is one on *)
(* the list.  host:kill and host:version are in AdbClient; the connection  *)
(* a service request turns into is in Sockets, and the waiting and         *)
(* tracking services are in Transport.                                     *)
(***************************************************************************)
EXTENDS LocalTransports

CONSTANTS
  Conns,       \* client connections
  Names,       \* local names of listeners
  Remotes,     \* remote names of forwards
  Smart,       \* the local name of the server's own port
  Selectors    \* how requests choose a transport: a type or a serial

ASSUME HostAssumption ==
  /\ Smart \notin Names /\ "*" \notin Remotes

VARIABLES
  lsn,      \* listener_list: connect_to and transport of each local name
  dis,      \* the disconnects of each transport: listeners to call
  conn      \* smart sockets: the transport that was chosen

hostVars == <<lsn, dis, conn>>
vars == <<localVars, hostVars>>

NoListener == [to |-> "", t |-> Null]
Closed == [open |-> FALSE, chosen |-> Null]
Opened == [open |-> TRUE, chosen |-> Null]

(* The listeners other than the smart socket, which has a "*".             *)
Forwards == {n \in DOMAIN lsn : lsn[n].to \notin {"", "*"}}

TypeOK ==
  /\ mem \in [Transports -> {"unused", "live", "freed"}]
  /\ what \in [Transports -> Targets \cup {Null}]
  /\ links \in [next : [Nodes -> Nodes], prev : [Nodes -> Nodes]]
  /\ slots \in [1 .. NSlots -> Transports \cup {Null}]
  /\ regq \in Seq(Transports \X {0, 1})
  /\ state \in [Transports -> {"offline", "unauthorized", "device"}]
  /\ ref \in [Transports -> Int]
  /\ kicked \in [Transports -> BOOLEAN]
  /\ alive \in [Transports -> 0 .. 3]
  /\ job \in [Jobs -> [at : {"idle", "known", "room", "dial", "init", "list", "post"},
                       x : Targets \cup {Null}, t : Transports \cup {Null}]]
  /\ lsn \in [Names \cup {Smart} -> [to : Remotes \cup {"*", ""}, t : Transports \cup {Null}]]
  /\ dis \in [Transports -> SUBSET DOMAIN lsn]
  /\ conn \in [Conns -> [open : BOOLEAN, chosen : Transports \cup {Null}]]

-----------------------------------------------------------------------------
(***************************************************************************)
(* Smart sockets.                                                          *)
(***************************************************************************)

(* ss_listener_event_func() and connect_to_smartsocket(). *)
Accept(k) ==
  /\ MainIsFree /\ ~conn[k].open
  /\ lsn[Smart].to = "*"
  /\ conn' = [conn EXCEPT ![k] = Opened]
  /\ UNCHANGED <<localVars, lsn, dis>>

(* smart_socket_close(): a bad length, too many bytes, the client's end,   *)
(* or the end of a request that was handled.                               *)
CloseConn(k) == conn' = [conn EXCEPT ![k] = Closed]

Hangup(k) ==
  /\ MainIsFree /\ conn[k].open
  /\ CloseConn(k)
  /\ UNCHANGED <<localVars, lsn, dis>>

(* smart_socket_enqueue() has gathered a whole request of a client.  Until *)
(* then it keeps what has come, which changes nothing else.                *)
Whole(k) == MainIsFree /\ conn[k].open

(* transport:<serial> and the other forms: the choice is kept for the next *)
(* request on the same connection.                                         *)
ChooseTransport(k, sel) ==
  /\ Whole(k)
  /\ IF Acquire(sel) = {} THEN UNCHANGED conn
     ELSE \E t \in Acquire(sel) : conn' = [conn EXCEPT ![k].chosen = t]
  /\ wild' = BadWalk(List)
  /\ UNCHANGED <<lists, slots, regq, life, job, scan, unregs, lsn, dis>>

(* Any other name is a service of the device: refused with no transport or *)
(* one that is offline, and passed to connect_to_remote() otherwise.       *)
RequestService(k) ==
  /\ Whole(k)
  /\ wild' = Freed(conn[k].chosen)
  /\ CloseConn(k)
  /\ UNCHANGED <<lists, slots, regq, life, job, scan, unregs, lsn, dis>>

-----------------------------------------------------------------------------
(***************************************************************************)
(* Listeners.                                                              *)
(***************************************************************************)

(* listener_disconnect() and free_listener() of a set of listeners. *)
Freeing(S) ==
  /\ lsn' = [n \in DOMAIN lsn |-> IF n \in S THEN NoListener ELSE lsn[n]]
  /\ dis' = [t \in Transports |-> dis[t] \ S]

(* A mutant: a rebound listener stays on the list of its old transport. *)
RebindInPlace(n, remote, t, norebind) ==
  IF norebind THEN UNCHANGED <<lsn, dis>>
  ELSE lsn' = [lsn EXCEPT ![n] = [to |-> remote, t |-> t]] /\ UNCHANGED dis

(* install_listener() for a name that is on the list. *)
Rebind(n, remote, t, norebind) ==
  IF norebind THEN UNCHANGED <<lsn, dis>>
  ELSE /\ lsn' = [lsn EXCEPT ![n] = [to |-> remote, t |-> t]]
       /\ dis' = [u \in Transports |-> IF u = t THEN dis[u] \cup {n} ELSE dis[u] \ {n}]

(* install_listener(): the smart socket is not repurposed; a new name may  *)
(* turn out not to be bindable.                                            *)
InstallListener(n, remote, t, norebind) ==
  IF lsn[n].to = "*" THEN UNCHANGED <<lsn, dis>>
  ELSE IF n \in Forwards THEN Rebind(n, remote, t, norebind)
  ELSE \/ UNCHANGED <<lsn, dis>>
       \/ /\ lsn' = [lsn EXCEPT ![n] = [to |-> remote, t |-> t]]
          /\ dis' = [dis EXCEPT ![t] = @ \cup {n}]

(* forward:<local>;<remote>. *)
Forward(k, n, remote, sel, norebind) ==
  /\ Whole(k)
  /\ wild' = BadWalk(List)
  /\ IF Acquire(sel) = {} THEN UNCHANGED <<lsn, dis>>
     ELSE \E t \in Acquire(sel) : InstallListener(n, remote, t, norebind)
  /\ CloseConn(k)
  /\ UNCHANGED <<lists, slots, regq, life, job, scan, unregs>>

(* killforward:<local>: remove_listener() looks at the name only. *)
KillForward(k, n, sel) ==
  /\ Whole(k)
  /\ wild' = BadWalk(List)
  /\ IF Acquire(sel) = {} THEN UNCHANGED <<lsn, dis>> ELSE Freeing({n})
  /\ CloseConn(k)
  /\ UNCHANGED <<lists, slots, regq, life, job, scan, unregs>>

(* killforward-all: remove_all_listeners() keeps the smart socket. *)
KillForwardAll(k) ==
  /\ Whole(k)
  /\ Freeing(Forwards)
  /\ CloseConn(k)
  /\ UNCHANGED localVars

(* list-forward: format_listeners() reads each listener's transport. *)
ListForward(k) ==
  /\ Whole(k)
  /\ wild' = \E n \in Forwards : Freed(lsn[n].t)
  /\ CloseConn(k)
  /\ UNCHANGED <<lists, slots, regq, life, job, scan, unregs, lsn, dis>>

-----------------------------------------------------------------------------
(***************************************************************************)
(* The other host requests, and what main does on its own.                 *)
(***************************************************************************)

(* devices, get-state, get-serialno, get-devpath: the list is walked. *)
Devices(k) ==
  /\ Whole(k)
  /\ wild' = BadWalk(List)
  /\ CloseConn(k)
  /\ UNCHANGED <<lists, slots, regq, life, job, scan, unregs, lsn, dis>>

(* disconnect:<serial>.  A name without a colon gets ":5555" appended, so  *)
(* that only transports to hosts can be named.                             *)
Disconnect(k) ==
  /\ Whole(k)
  /\ \/ DisconnectAll
     \/ \E x \in {y \in Targets : y.kind = "host"} : DisconnectOne(x.serial)
  /\ CloseConn(k)
  /\ UNCHANGED <<lsn, dis>>

Emulator(k) ==
  /\ Whole(k)
  /\ \E x \in Targets : LocalConnect(x)
  /\ CloseConn(k)
  /\ UNCHANGED <<lsn, dis>>

(* connect:<host>: host_service_to_socket() starts a thread. *)
Connect(k) ==
  /\ Whole(k)
  /\ \E j \in Threads, x \in Targets : ConnectService(j, x)
  /\ CloseConn(k)
  /\ UNCHANGED <<lsn, dis>>

(* run_transport_disconnects(): when a device connects again, when its     *)
(* SYNC(0,0) is handled, and in transport_registration_func(), removal.    *)
Disconnects(t) == Freeing(dis[t]) /\ UNCHANGED conn

Connected(t) ==
  /\ HandleConnect(t)
  /\ IF state[t] = "offline" THEN UNCHANGED hostVars ELSE Disconnects(t)

Offline(t) == HandleOffline(t) /\ Disconnects(t)

Removal(t) == RemoveTransport(t) /\ Disconnects(t)

(* A mutant: the sockets of a lost transport are not closed. *)
InputEndsOnly(t) ==
  /\ InputThreadEnds(t)
  /\ UNCHANGED hostVars

(* The input thread calls close_all_sockets() before it ends. *)
InputEnds(t) ==
  /\ InputThreadEnds(t)
  /\ conn' = [k \in Conns |-> IF conn[k].open /\ conn[k].chosen = t THEN Closed ELSE conn[k]]
  /\ UNCHANGED <<lsn, dis>>

-----------------------------------------------------------------------------
(* adb_main() has installed the smart socket. *)
Init ==
  /\ LocalInit
  /\ lsn = [n \in Names \cup {Smart} |->
              IF n = Smart THEN [to |-> "*", t |-> Null] ELSE NoListener]
  /\ dis = [t \in Transports |-> {}]
  /\ conn = [k \in Conns |-> Closed]

Request(k) ==
  \/ \E sel \in Selectors : ChooseTransport(k, sel)
  \/ RequestService(k)
  \/ \E n \in DOMAIN lsn, sel \in Selectors :
       \/ KillForward(k, n, sel)
       \/ \E r \in Remotes, norebind \in BOOLEAN : Forward(k, n, r, sel, norebind)
  \/ KillForwardAll(k)
  \/ ListForward(k)
  \/ Devices(k)
  \/ Disconnect(k)
  \/ Emulator(k)
  \/ Connect(k)

Smarts(k) == Accept(k) \/ Hangup(k) \/ Request(k)

(* The threads that make transports, main's side of it, and the threads    *)
(* that lose them.                                                         *)
Alone ==
  \/ ScanNext
  \/ \E j \in Jobs : JobStep(j)
  \/ \E x \in Targets : RegisterUsbTransport(x)
  \/ StartTransport
  \/ \E t \in Transports : HandleAuth(t) \/ OutputThreadEnds(t)

Next ==
  /\ ~wild
  /\ \/ \E k \in Conns : Smarts(k)
     \/ Alone /\ UNCHANGED hostVars
     \/ \E t \in Transports : Connected(t) \/ Offline(t) \/ Removal(t) \/ InputEnds(t)

Spec == Init /\ [][Next]_vars

-----------------------------------------------------------------------------
(* No freed transport is used: by a walk of a list or an unlinking         *)
(* (transport.c:599, 805, 1017), by a client that chose it for a later     *)
(* request (sockets.c:842) or by the list of forwards (adb.c:827), unless  *)
(* adb disconnect has been used, which drops a reference it did not take.  *)
MemorySafe == wild => unregs > 0

(* A forward's listener points to a transport that is still allocated and  *)
(* will call it when it is removed, and a transport calls no listener that *)
(* is gone or was rebound to another one (adb.c:923, transport.c:603).     *)
ListenersValid ==
  /\ \A n \in Forwards : lsn[n].t # Null /\ mem[lsn[n].t] = "live"
  /\ \A t \in Transports : dis[t] = {n \in Forwards : lsn[n].t = t}

(* The transports that main has started and not removed.                   *)
Started ==
  {t \in Transports : mem[t] = "live" /\ (alive[t] > 0 \/ <<t, 0>> \in Range(regq))}

(* Without adb disconnect, transport_list holds exactly the transports     *)
(* main has started and not yet removed, and no two socket transports on   *)
(* the lists have the same serial number (transport.c:653, 1016).          *)
ListsMatch ==
  unregs = 0 =>
    /\ Walk(List) = Started
    /\ \A t, u \in Walk(List) \cup Walk(Pending) :
         t # u /\ "usb" \notin {what[t].kind, what[u].kind} => Serial(t) # Serial(u)

(* An emulator's transport that nobody has kicked holds exactly one slot,  *)
(* and no two of them have the same port, so that an emulator is never     *)
(* connected twice (transport_local.c:423, 345).                           *)
SlotsMatch ==
  LET held(t) == {i \in DOMAIN slots : slots[i] = t}
      emus == {t \in Transports : mem[t] = "live" /\ what[t].kind = "emu" /\ ~kicked[t]} IN
  /\ \A t \in emus : Cardinality(held(t)) = 1
  /\ \A t, u \in emus : what[t].port = what[u].port => t = u

(* "the data doesn't get corrupted" (services.c:583): when registrations   *)
(* of an emulator race, the table never keeps a transport that was freed.  *)
SlotsValid == \A i \in DOMAIN slots : slots[i] # Null => mem[slots[i]] = "live"
=============================================================================
