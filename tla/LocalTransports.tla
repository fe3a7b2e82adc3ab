--------------------------- MODULE LocalTransports ---------------------------
(***************************************************************************)
(* How transports come to be, are found and go: register_socket_transport, *)
(* register_usb_transport, transport_registration_func, find_transport,    *)
(* acquire_one_transport and the unregister functions of transport.c; the  *)
(* table of emulators and remote_kick of transport_local.c; the service    *)
(* threads of connect: in services.c.                                      *)
(*                                                                         *)
(* transport_list and pending_list are modelled as the code has them, by   *)
(* next and prev pointers, because unlinking twice is one of the things    *)
(* the code does.  An atransport is an address used once.  Its reference   *)
(* count and threads are here as far as they decide when it is kicked and  *)
(* freed; what they do between is in Transport.  A section under a lock is *)
(* one step.  Actions leave the variables of HostServer to HostServer.     *)
(***************************************************************************)
EXTENDS Integers, SequencesExt

CONSTANTS
  Transports,     \* addresses of atransport objects
  Targets,        \* what can be connected: [kind, serial, port]
  Scanned,        \* the targets of client_socket_thread, in order
  Threads,        \* connect: service threads
  NSlots,         \* ADB_LOCAL_TRANSPORT_MAX
  MaxUnregs,      \* bound: times adb disconnect finds something
  Null            \* NULL

Kinds == {"emu", "host", "usb"}

(* An emulator has a port; the others are registered with port 0. *)
ASSUME LocalAssumption ==
  /\ IsFiniteSet(Transports) /\ Null \notin Transports
  /\ \A x \in Targets : x.kind \in Kinds /\ x.port \in Nat /\ (x.kind = "emu" <=> x.port > 0)
  /\ Scanned \in Seq({x \in Targets : x.kind = "emu"})
  /\ NSlots \in Nat /\ MaxUnregs \in Nat

VARIABLES
  mem,        \* "unused", "live" or "freed" memory behind each address
  what,       \* the target a transport was made for: serial and adb_port
  links,      \* the next and prev pointers of transports and list heads
  slots,      \* local_transports
  regq,       \* the registration socketpair: <<t, action>> in order
  state,      \* connection_state: "offline", "unauthorized", "device"
  ref,        \* ref_count
  kicked,     \* kicked
  alive,      \* 3: its two threads run, 2: the output thread has ended,
              \*   1: main has passed its SYNC(0,0) on, 0: no thread runs
  job,        \* what each thread that makes transports is doing
  scan,       \* targets client_socket_thread has yet to try
  wild,       \* memory was used after it was freed: anything may follow
  unregs      \* times adb disconnect found something

lists == <<mem, what, links>>
life == <<state, ref, kicked, alive>>
localVars == <<mem, what, links, slots, regq, state, ref, kicked, alive, job, scan, wild, unregs>>

List == "transport_list"
Pending == "pending_list"
Nodes == Transports \cup {List, Pending}

Jobs == Threads \cup {"scan", "main", "poll"}
Resting == [at |-> "idle", x |-> Null, t |-> Null]

Freed(n) == n \in Transports /\ mem[n] = "freed"

-----------------------------------------------------------------------------
(***************************************************************************)
(* The lists.                                                              *)
(***************************************************************************)

Unlinked(l, t) ==
  [next |-> [l.next EXCEPT ![l.prev[t]] = l.next[t]],
   prev |-> [l.prev EXCEPT ![l.next[t]] = l.prev[t]]]

Appended(l, h, t) ==
  [next |-> [l.next EXCEPT ![t] = h, ![l.prev[h]] = t],
   prev |-> [l.prev EXCEPT ![t] = l.prev[h], ![h] = t]]

(* What a loop over a list visits; it stops at freed memory. *)
Walk(h) ==
  LET step[n \in 0 .. Cardinality(Transports)] ==
        IF n = 0 THEN links.next[h]
        ELSE IF step[n - 1] = h \/ Freed(step[n - 1]) THEN step[n - 1]
        ELSE links.next[step[n - 1]]
  IN {step[n] : n \in DOMAIN step} \ {h}

(* A walk or an unlinking that meets freed memory. *)
BadWalk(h) == \E t \in Walk(h) : Freed(t)
BadUnlink(t) == Freed(t) \/ Freed(links.next[t]) \/ Freed(links.prev[t])

Serial(t) == what[t].serial

(* find_transport(). *)
FindTransport(serial) == {t \in Walk(List) : Serial(t) = serial}

(* acquire_one_transport(CS_ANY, ...): exactly one match, and it is up.    *)
(* sel is a serial number or one of the transport types.                   *)
Matches(t, sel) ==
  CASE sel = "any" -> TRUE
    [] sel = "usb" -> what[t].kind = "usb"
    [] sel = "local" -> what[t].kind # "usb"
    [] OTHER -> Serial(t) = sel

Acquire(sel) ==
  LET found == {t \in Walk(List) : Matches(t, sel)} IN
  {t \in found : Cardinality(found) = 1 /\ state[t] = "device"}

-----------------------------------------------------------------------------
(***************************************************************************)
(* The table of emulators.                                                 *)
(***************************************************************************)

(* find_emulator_transport_by_adb_port(): what it may answer.  The port of *)
(* a freed transport is whatever the memory holds.                         *)
EmulatorKnown(port) ==
  LET held == {slots[i] : i \in DOMAIN slots} \ {Null} IN
  IF \E t \in held : mem[t] = "live" /\ what[t].port = port THEN {TRUE}
  ELSE IF \E t \in held : Freed(t) THEN BOOLEAN
  ELSE {FALSE}

FreeSlots == {i \in DOMAIN slots : slots[i] = Null}

(* get_available_local_transport_index(). *)
LowestFree == CHOOSE i \in FreeSlots : \A o \in FreeSlots : i <= o

(* A mutant: whatever is in the table goes. *)
NoSlots(t) == [i \in DOMAIN slots |-> Null]

(* remote_kick(): the slot is given back. *)
SlotsWithout(t) == [i \in DOMAIN slots |-> IF slots[i] = t THEN Null ELSE slots[i]]

-----------------------------------------------------------------------------
(***************************************************************************)
(* Making a transport: connect: threads, the port scan, main for           *)
(* emulator:, and the USB poll thread.                                     *)
(***************************************************************************)

(* Bound: a thread starts only when there is an address left for it. *)
Unused == {t \in Transports : mem[t] = "unused"}

Doing(j, at) == job' = [job EXCEPT ![j].at = at]
Done(j) == job' = [job EXCEPT ![j] = Resting]

(* connect_service() starts.  Its cookie points into the packet of the     *)
(* request, which main frees: the thread may read any target.              *)
ConnectService(j, x) ==
  /\ x.kind # "usb" /\ Unused # {}
  /\ job[j] = Resting
  /\ job' = [job EXCEPT ![j] = [at |-> IF x.kind = "emu" THEN "known" ELSE "dial",
                                x |-> x, t |-> Null]]
  /\ UNCHANGED <<lists, slots, regq, life, scan, wild, unregs>>

(* connect_emulator(): two checks, each under the lock, before dialling. *)
CheckKnown(j) ==
  /\ job[j].at = "known"
  /\ \E known \in EmulatorKnown(job[j].x.port) : IF known THEN Done(j) ELSE Doing(j, "room")
  /\ UNCHANGED <<lists, slots, regq, life, scan, wild, unregs>>

CheckRoom(j) ==
  /\ job[j].at = "room"
  /\ IF FreeSlots = {} THEN Done(j) ELSE Doing(j, "dial")
  /\ UNCHANGED <<lists, slots, regq, life, scan, wild, unregs>>

(* client_socket_thread(): the next port. *)
ScanNext ==
  /\ job["scan"] = Resting /\ scan # << >> /\ Unused # {}
  /\ job' = [job EXCEPT !["scan"] = [at |-> "dial", x |-> Head(scan), t |-> Null]]
  /\ scan' = Tail(scan)
  /\ UNCHANGED <<lists, slots, regq, life, wild, unregs>>

(* The socket to the emulator or host. *)
Dial(j) ==
  /\ job[j].at = "dial"
  /\ Done(j) \/ Doing(j, "init")
  /\ UNCHANGED <<lists, slots, regq, life, scan, wild, unregs>>

(* init_socket_transport(): an emulator takes the lowest free slot, unless *)
(* its port is known or there is none.                                     *)
InitSocketTransport(j) ==
  /\ job[j].at = "init" /\ Unused # {}
  /\ LET x == job[j].x IN
     \/ /\ x.kind = "emu"
        /\ FreeSlots = {} \/ TRUE \in EmulatorKnown(x.port)
        /\ Done(j)
        /\ UNCHANGED <<mem, what, slots>>
     \/ /\ x.kind = "emu" => FreeSlots # {} /\ FALSE \in EmulatorKnown(x.port)
        /\ \E t \in Unused :
             /\ mem' = [mem EXCEPT ![t] = "live"]
             /\ what' = [what EXCEPT ![t] = x]
             /\ slots' = IF x.kind = "emu" THEN [slots EXCEPT ![LowestFree] = t] ELSE slots
             /\ job' = [job EXCEPT ![j].at = "list", ![j].t = t]
  /\ UNCHANGED <<links, regq, life, scan, wild, unregs>>

(* A mutant: only transport_list is searched for the serial number. *)
RegisterUnlessListed(j) ==
  /\ job[j].at = "list"
  /\ wild' = BadWalk(List)
  /\ LET t == job[j].t IN
     IF \E o \in Walk(List) : Serial(o) = Serial(t)
     THEN /\ mem' = [mem EXCEPT ![t] = "freed"]
          /\ Done(j)
          /\ UNCHANGED links
     ELSE /\ links' = Appended(links, Pending, t)
          /\ Doing(j, "post")
          /\ UNCHANGED mem
  /\ UNCHANGED <<what, slots, regq, life, scan, unregs>>

(* register_socket_transport() under transport_lock: a serial number that  *)
(* is on a list is refused, and the new transport freed.                   *)
RegisterSocketTransport(j) ==
  /\ job[j].at = "list"
  /\ wild' = (BadWalk(List) \/ BadWalk(Pending) \/ Freed(links.prev[Pending]))
  /\ LET t == job[j].t IN
     IF \E o \in Walk(List) \cup Walk(Pending) : Serial(o) = Serial(t)
     THEN /\ mem' = [mem EXCEPT ![t] = "freed"]
          /\ Done(j)
          /\ UNCHANGED links
     ELSE /\ links' = Appended(links, Pending, t)
          /\ Doing(j, "post")
          /\ UNCHANGED mem
  /\ UNCHANGED <<what, slots, regq, life, scan, unregs>>

(* register_transport(). *)
RegisterTransport(j) ==
  /\ job[j].at = "post"
  /\ regq' = Append(regq, <<job[j].t, 1>>)
  /\ Done(j)
  /\ UNCHANGED <<lists, slots, life, scan, wild, unregs>>

(* register_usb_transport(): no serial number is refused. *)
RegisterUsbTransport(x) ==
  /\ x.kind = "usb" /\ job["poll"] = Resting
  /\ \E t \in Unused :
       /\ mem' = [mem EXCEPT ![t] = "live"]
       /\ what' = [what EXCEPT ![t] = x]
       /\ links' = Appended(links, Pending, t)
       /\ job' = [job EXCEPT !["poll"] = [at |-> "post", x |-> x, t |-> t]]
  /\ wild' = Freed(links.prev[Pending])
  /\ UNCHANGED <<slots, regq, life, scan, unregs>>

-----------------------------------------------------------------------------
(***************************************************************************)
(* Main: transport_registration_func().                                    *)
(***************************************************************************)

MainIsFree == job["main"] = Resting

(* A transport is moved to transport_list, and its threads start. *)
StartTransport ==
  /\ MainIsFree /\ regq # << >> /\ Head(regq)[2] = 1
  /\ LET t == Head(regq)[1]
         l == Unlinked(links, t) IN
     /\ links' = Appended(l, List, t)
     /\ wild' = (BadUnlink(t) \/ Freed(l.prev[List]))
     /\ ref' = [ref EXCEPT ![t] = 2]
     /\ alive' = [alive EXCEPT ![t] = 3]
  /\ regq' = Tail(regq)
  /\ UNCHANGED <<mem, what, slots, state, kicked, job, scan, unregs>>

(* A transport is unlinked, whether or not it is on the list, and freed. *)
RemoveTransport(t) ==
  /\ MainIsFree /\ regq # << >> /\ Head(regq) = <<t, 0>>
  /\ links' = Unlinked(links, t)
  /\ wild' = BadUnlink(t)
  /\ mem' = [mem EXCEPT ![t] = "freed"]
  /\ regq' = Tail(regq)
  /\ UNCHANGED <<what, slots, life, job, scan, unregs>>

-----------------------------------------------------------------------------
(***************************************************************************)
(* The threads of a transport, and what main hears of them.                *)
(***************************************************************************)

(* kick_transport() and transport_unref_locked(). *)
KickAndUnref(t) ==
  /\ ref' = [ref EXCEPT ![t] = @ - 1]
  /\ kicked' = [kicked EXCEPT ![t] = TRUE]
  /\ slots' = IF kicked[t] THEN slots ELSE SlotsWithout(t)
  /\ regq' = IF ref[t] = 1 THEN Append(regq, <<t, 0>>) ELSE regq

(* Main handles what the output thread has read: CNXN takes the transport  *)
(* up, AUTH down until it is answered.                                     *)
Readable(t) == MainIsFree /\ mem[t] = "live" /\ alive[t] \in {2, 3}

HandleConnect(t) ==
  /\ Readable(t)
  /\ state' = [state EXCEPT ![t] = "device"]
  /\ UNCHANGED <<lists, slots, regq, ref, kicked, alive, job, scan, wild, unregs>>

HandleAuth(t) ==
  /\ Readable(t)
  /\ state' = [state EXCEPT ![t] = "unauthorized"]
  /\ UNCHANGED <<lists, slots, regq, ref, kicked, alive, job, scan, wild, unregs>>

(* A thread ends: it drops its reference.  The output thread's last packet *)
(* is SYNC(0,0), which ends the input thread once main has passed it on.   *)
ThreadEnds(t, left) ==
  /\ alive' = [alive EXCEPT ![t] = left]
  /\ IF Freed(t) THEN wild' = TRUE /\ UNCHANGED <<ref, kicked, slots, regq>>
     ELSE KickAndUnref(t) /\ UNCHANGED wild
  /\ UNCHANGED <<lists, state, job, scan, unregs>>

OutputThreadEnds(t) == alive[t] = 3 /\ ThreadEnds(t, 2)

HandleOffline(t) ==
  /\ MainIsFree /\ mem[t] = "live" /\ alive[t] = 2
  /\ state' = [state EXCEPT ![t] = "offline"]
  /\ alive' = [alive EXCEPT ![t] = 1]
  /\ UNCHANGED <<lists, slots, regq, ref, kicked, job, scan, wild, unregs>>

(* An input thread whose transport was freed finds its descriptor closed. *)
InputThreadEnds(t) ==
  /\ alive[t] = 1 \/ (alive[t] > 0 /\ Freed(t))
  /\ ThreadEnds(t, 0)

-----------------------------------------------------------------------------
(***************************************************************************)
(* Host requests that change the lists.                                    *)
(***************************************************************************)

(* unregister_transport() and unregister_all_tcp_transports(): unlink,     *)
(* kick, and drop a reference that is not main's own.                      *)
Unregister(S) ==
  /\ S # {} => unregs < MaxUnregs
  /\ links' = FoldSet(LAMBDA t, l : Unlinked(l, t), links, S)
  /\ wild' = (BadWalk(List) \/ \E t \in S : BadUnlink(t))
  /\ ref' = [t \in Transports |-> IF t \in S THEN ref[t] - 1 ELSE ref[t]]
  /\ kicked' = [t \in Transports |-> kicked[t] \/ t \in S]
  /\ slots' = [i \in DOMAIN slots |-> IF slots[i] \in S THEN Null ELSE slots[i]]
  /\ \E last \in SetToSeqs({<<t, 0>> : t \in {u \in S : ref[u] = 1}}) : regq' = regq \o last
  /\ unregs' = IF S = {} THEN unregs ELSE unregs + 1
  /\ UNCHANGED <<mem, what, state, alive, job, scan>>

(* disconnect:<serial>, for a transport of that name, and disconnect: for  *)
(* all transports to hosts.                                                *)
DisconnectOne(serial) ==
  IF FindTransport(serial) = {} THEN Unregister({})
  ELSE \E t \in FindTransport(serial) : Unregister({t})

DisconnectAll == Unregister({t \in Walk(List) : what[t].kind = "host"})

(* emulator:<port>: main itself connects. *)
LocalConnect(x) ==
  /\ x.kind = "emu" /\ Unused # {}
  /\ job' = [job EXCEPT !["main"] = [at |-> "dial", x |-> x, t |-> Null]]
  /\ UNCHANGED <<lists, slots, regq, life, scan, wild, unregs>>

LocalInit ==
  /\ mem = [t \in Transports |-> "unused"]
  /\ what = [t \in Transports |-> Null]
  /\ links = LET own == [n \in Nodes |-> n] IN [next |-> own, prev |-> own]
  /\ slots = [i \in 1 .. NSlots |-> Null]
  /\ regq = << >>
  /\ state = [t \in Transports |-> "offline"]
  /\ ref = [t \in Transports |-> 0]
  /\ kicked = [t \in Transports |-> FALSE]
  /\ alive = [t \in Transports |-> 0]
  /\ job = [j \in Jobs |-> Resting]
  /\ scan = Scanned
  /\ wild = FALSE
  /\ unregs = 0

JobStep(j) ==
  \/ CheckKnown(j)
  \/ CheckRoom(j)
  \/ Dial(j)
  \/ InitSocketTransport(j)
  \/ RegisterSocketTransport(j)
  \/ RegisterTransport(j)
=============================================================================
